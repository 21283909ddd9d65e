---------------------------- MODULE OfficeProofs ----------------------------
(* What holds of the office for every value of the constants: nothing is      *)
(* charged twice, a paid period moves by the office's hand or with one        *)
(* settlement, a quote becomes one client, and the figures on the invoices,   *)
(* the quotations and the sweeps add up.                                      *)
EXTENDS Quotes, FiniteSetTheorems, WellFoundedInduction, TLAPS

-----------------------------------------------------------------------------
(* Sums. A sum over a set is the value a fold's table gives it; the table     *)
(* exists and is the only one, so taking any member away subtracts its value. *)

Chosen(T) == CHOOSE x \in T : TRUE

\* The totals of the parts of a set, one member taken away at a time.
Totals(g, f, D) ==
  g = [T \in D |-> IF T = {} THEN 0 ELSE f[Chosen(T)] + g[T \ {Chosen(T)}]]

LEMMA SumIs ==
  ASSUME NEW f, NEW S
  PROVE  SumFunctionOnSet(f, S) = (CHOOSE g : Totals(g, f, SUBSET S))[S]
BY Zenon DEF SumFunctionOnSet, FoldFunctionOnSet, MapThenFoldSet, Totals, Chosen

LEMMA LeastMember ==
  ASSUME NEW S \in SUBSET Nat, S # {}
  PROVE  \E n \in S : \A m \in S : n <= m
<1>1. PICK n \in S : \A m \in S : <<m, n>> \notin OpToRel(<, Nat)
  BY NatLessThanWellFounded, WFMin, Zenon
<1>2. ASSUME NEW m \in S PROVE ~(m < n)
  BY <1>1, Zenon DEF OpToRel
<1> QED BY <1>2

\* Among finite sets there is a smallest.
LEMMA SmallestSet ==
  ASSUME NEW SS, SS # {}, \A T \in SS : IsFiniteSet(T)
  PROVE  \E S \in SS : \A T \in SS : Cardinality(S) <= Cardinality(T)
<1> DEFINE sizes == {Cardinality(T) : T \in SS}
<1>1. sizes \in SUBSET Nat /\ sizes # {}
  BY FS_CardinalityType
<1> HIDE DEF sizes
<1>2. PICK n \in sizes : \A m \in sizes : n <= m
  BY <1>1, LeastMember
<1> QED BY <1>2 DEF sizes

LEMMA OneLess ==
  ASSUME NEW S, IsFiniteSet(S), NEW x \in S
  PROVE  /\ IsFiniteSet(S \ {x}) /\ Cardinality(S) \in Nat /\ Cardinality(S \ {x}) \in Nat
         /\ Cardinality(S \ {x}) < Cardinality(S)
<1>1. IsFiniteSet(S \ {x}) /\ Cardinality(S \ {x}) = Cardinality(S) - 1
  BY FS_RemoveElement
<1>2. Cardinality(S) \in Nat /\ Cardinality(S \ {x}) \in Nat
  BY <1>1, FS_CardinalityType
<1> QED BY <1>1, <1>2

\* Totals exist over the subsets of a finite set: those of one size give the next.
LEMMA TotalsExist ==
  ASSUME NEW f, NEW S, IsFiniteSet(S)
  PROVE  \E g : Totals(g, f, SUBSET S)
<1> DEFINE upTo(n) == {T \in SUBSET S : Cardinality(T) <= n}
           bad     == {n \in Nat : ~ \E g : Totals(g, f, upTo(n))}
<1>0. \A T \in SUBSET S : /\ IsFiniteSet(T) /\ Cardinality(T) \in Nat
                          /\ Cardinality(T) <= Cardinality(S)
  BY FS_Subset, FS_CardinalityType
<1>1. ASSUME bad # {} PROVE FALSE
  <2>1. bad \in SUBSET Nat
    OBVIOUS
  <2>2. PICK n \in bad : \A m \in bad : n <= m
    BY <1>1, <2>1, LeastMember
  <2>3. CASE n = 0
    <3> DEFINE g == [T \in upTo(0) |-> 0]
    <3>1. \A T \in upTo(0) : T = {}
      BY <1>0, FS_EmptySet
    <3>2. Totals(g, f, upTo(0))
      BY <3>1 DEF Totals
    <3> QED BY <2>2, <2>3, <3>2
  <2>4. CASE n > 0
    <3>1. n - 1 \in Nat /\ n - 1 \notin bad
      <4> HIDE DEF bad
      <4> QED BY <2>1, <2>2, <2>4
    <3>2. PICK g : Totals(g, f, upTo(n - 1))
      BY <3>1
    <3> DEFINE h == [T \in upTo(n) |-> IF T = {} THEN 0 ELSE f[Chosen(T)] + g[T \ {Chosen(T)}]]
    <3>3. \A T \in upTo(n) : T # {} => Chosen(T) \in T /\ T \ {Chosen(T)} \in upTo(n - 1)
      <4>1. SUFFICES ASSUME NEW T \in upTo(n), T # {} 
                     PROVE  Chosen(T) \in T /\ T \ {Chosen(T)} \in upTo(n - 1)
        OBVIOUS
      <4>2. Chosen(T) \in T
        BY <4>1 DEF Chosen
      <4>3. Cardinality(T \ {Chosen(T)}) < Cardinality(T) /\ Cardinality(T \ {Chosen(T)}) \in Nat
        BY <1>0, <4>2, OneLess
      <4> QED BY <1>0, <3>1, <4>2, <4>3
    <3>4. upTo(n - 1) \subseteq upTo(n)
      BY <1>0, <3>1
    <3> HIDE DEF upTo
    <3>5. \A T \in upTo(n - 1) : g[T] = IF T = {} THEN 0 ELSE f[Chosen(T)] + g[T \ {Chosen(T)}]
      BY <3>2 DEF Totals
    <3>6. \A T \in upTo(n - 1) : h[T] = g[T]
      BY <3>4, <3>5
    <3>7. \A T \in upTo(n) : T # {} => h[T \ {Chosen(T)}] = g[T \ {Chosen(T)}]
      BY <3>3, <3>6
    <3>8. \A T \in upTo(n) : h[T] = IF T = {} THEN 0 ELSE f[Chosen(T)] + h[T \ {Chosen(T)}]
      BY <3>7
    <3>9. Totals(h, f, upTo(n))
      BY <3>8 DEF Totals
    <3> QED BY <2>2, <3>9
  <2> QED BY <2>2, <2>3, <2>4
<1>2. upTo(Cardinality(S)) = SUBSET S /\ Cardinality(S) \in Nat
  BY <1>0
<1> QED BY <1>1, <1>2

\* They are one thing only, whatever the set whose subsets they range over.
LEMMA TotalsAgree ==
  ASSUME NEW f, NEW h, NEW D, NEW E, NEW g, NEW k, Totals(g, f, SUBSET D), Totals(k, h, SUBSET E),
         NEW T, IsFiniteSet(T), T \subseteq D, T \subseteq E, \A x \in T : f[x] = h[x]
  PROVE  g[T] = k[T]
<1> DEFINE bad == {U \in SUBSET T : g[U] # k[U]}
<1>1. ASSUME bad # {} PROVE FALSE
  <2>1. \A U \in bad : IsFiniteSet(U)
    BY FS_Subset
  <2>2. PICK U \in bad : \A V \in bad : Cardinality(U) <= Cardinality(V)
    BY <1>1, <2>1, SmallestSet
  <2> DEFINE c == Chosen(U)
  <2>3. /\ g[U] = IF U = {} THEN 0 ELSE f[c] + g[U \ {c}]
        /\ k[U] = IF U = {} THEN 0 ELSE h[c] + k[U \ {c}]
    BY DEF Totals
  <2>4. U # {}
    BY <2>3
  <2>5. c \in U
    BY <2>4 DEF Chosen
  <2>6. U \ {c} \notin bad
    BY <2>1, <2>2, <2>5, OneLess
  <2> QED BY <2>3, <2>4, <2>5, <2>6
<1> QED BY <1>1

LEMMA SumTotals ==
  ASSUME NEW f, NEW S, IsFiniteSet(S)
  PROVE  \E g : Totals(g, f, SUBSET S) /\ SumFunctionOnSet(f, S) = g[S]
BY TotalsExist, SumIs

\* A sum reads its function on its set only.
LEMMA SumAlike ==
  ASSUME NEW f, NEW h, NEW S, IsFiniteSet(S), \A x \in S : f[x] = h[x]
  PROVE  SumFunctionOnSet(f, S) = SumFunctionOnSet(h, S)
<1>1. PICK g : Totals(g, f, SUBSET S) /\ SumFunctionOnSet(f, S) = g[S]
  BY SumTotals
<1>2. PICK k : Totals(k, h, SUBSET S) /\ SumFunctionOnSet(h, S) = k[S]
  BY SumTotals
<1> QED BY <1>1, <1>2, TotalsAgree

LEMMA SumOfNone ==
  ASSUME NEW f
  PROVE  SumFunctionOnSet(f, {}) = 0
<1>1. PICK g : Totals(g, f, SUBSET {}) /\ SumFunctionOnSet(f, {}) = g[{}]
  BY SumTotals, FS_EmptySet
<1> QED BY <1>1 DEF Totals

LEMMA SumUnfolds ==
  ASSUME NEW f, NEW S, IsFiniteSet(S), S # {}
  PROVE  /\ Chosen(S) \in S
         /\ SumFunctionOnSet(f, S) = f[Chosen(S)] + SumFunctionOnSet(f, S \ {Chosen(S)})
<1> DEFINE c == Chosen(S)
<1>1. c \in S
  BY DEF Chosen
<1> DEFINE R == S \ {c}
<1>2. IsFiniteSet(R) /\ R \subseteq S
  BY FS_Subset
<1>3. PICK g : Totals(g, f, SUBSET S) /\ SumFunctionOnSet(f, S) = g[S]
  BY SumTotals
<1>4. g[S] = f[c] + g[R]
  BY <1>3 DEF Totals
<1> HIDE DEF R
<1>5. PICK k : Totals(k, f, SUBSET R) /\ SumFunctionOnSet(f, R) = k[R]
  BY <1>2, SumTotals
<1>6. g[R] = k[R]
  BY <1>2, <1>3, <1>5, TotalsAgree
<1> QED BY <1>1, <1>3, <1>4, <1>5, <1>6 DEF R

LEMMA SumIsNat ==
  ASSUME NEW f, NEW S, IsFiniteSet(S), \A x \in S : f[x] \in Nat
  PROVE  SumFunctionOnSet(f, S) \in Nat
<1> DEFINE bad == {T \in SUBSET S : SumFunctionOnSet(f, T) \notin Nat}
<1>1. ASSUME bad # {} PROVE FALSE
  <2>1. \A U \in bad : IsFiniteSet(U)
    BY FS_Subset
  <2>2. PICK U \in bad : \A V \in bad : Cardinality(U) <= Cardinality(V)
    BY <1>1, <2>1, SmallestSet
  <2>3. U # {}
    BY SumOfNone
  <2>4. /\ Chosen(U) \in U
        /\ SumFunctionOnSet(f, U) = f[Chosen(U)] + SumFunctionOnSet(f, U \ {Chosen(U)})
    BY <2>1, <2>3, SumUnfolds
  <2>5. U \ {Chosen(U)} \notin bad
    BY <2>1, <2>2, <2>4, OneLess
  <2> QED BY <2>4, <2>5
<1> QED BY <1>1

\* Any member may be taken out first.
LEMMA SumWithout ==
  ASSUME NEW f, NEW S, IsFiniteSet(S), \A x \in S : f[x] \in Nat, NEW a \in S
  PROVE  SumFunctionOnSet(f, S) = f[a] + SumFunctionOnSet(f, S \ {a})
<1> DEFINE sum(T) == SumFunctionOnSet(f, T)
           bad == {T \in SUBSET S : \E x \in T : sum(T) # f[x] + sum(T \ {x})}
<1>1. ASSUME bad # {} PROVE FALSE
  <2>1. \A T \in SUBSET S : IsFiniteSet(T) /\ sum(T) \in Nat
    BY FS_Subset, SumIsNat
  <2>2. PICK U \in bad : \A V \in bad : Cardinality(U) <= Cardinality(V)
    BY <1>1, <2>1, SmallestSet
  <2>3. PICK x \in U : sum(U) # f[x] + sum(U \ {x})
    OBVIOUS
  <2> DEFINE c == Chosen(U)
  <2>4. c \in U /\ sum(U) = f[c] + sum(U \ {c})
    BY <2>1, SumUnfolds
  <2>5. c # x
    BY <2>3, <2>4
  <2>6. U \ {c} \notin bad /\ U \ {x} \notin bad /\ U \in SUBSET S
    <3>1. U \in SUBSET S /\ IsFiniteSet(U)
      BY <2>1
    <3>2. ASSUME NEW y \in U PROVE U \ {y} \notin bad
      <4>1. /\ Cardinality(U) \in Nat /\ Cardinality(U \ {y}) \in Nat
            /\ Cardinality(U \ {y}) < Cardinality(U)
        BY <3>1, OneLess
      <4> HIDE DEF bad
      <4> QED BY <2>2, <4>1
    <3> QED BY <2>4, <3>1, <3>2
  <2> HIDE DEF c
  <2>7. /\ sum(U \ {c}) = f[x] + sum((U \ {c}) \ {x})
        /\ sum(U \ {x}) = f[c] + sum((U \ {x}) \ {c})
    BY <2>4, <2>5, <2>6
  <2>8. (U \ {c}) \ {x} = (U \ {x}) \ {c} /\ (U \ {x}) \ {c} \in SUBSET S
    BY <2>6
  <2>9. sum((U \ {x}) \ {c}) \in Nat /\ f[x] \in Nat /\ f[c] \in Nat
    BY <2>1, <2>4, <2>6, <2>8
  <2>10. sum((U \ {c}) \ {x}) = sum((U \ {x}) \ {c})
    BY <2>8
  <2> HIDE DEF sum
  <2> QED BY <2>3, <2>4, <2>7, <2>9, <2>10
<1> QED BY <1>1

\* Nothing added is nothing.
LEMMA SumOfZeros ==
  ASSUME NEW f, NEW S, IsFiniteSet(S), \A x \in S : f[x] = 0
  PROVE  SumFunctionOnSet(f, S) = 0
<1> DEFINE bad == {T \in SUBSET S : SumFunctionOnSet(f, T) # 0}
<1>1. ASSUME bad # {} PROVE FALSE
  <2>1. \A U \in bad : IsFiniteSet(U)
    BY FS_Subset
  <2>2. PICK U \in bad : \A V \in bad : Cardinality(U) <= Cardinality(V)
    BY <1>1, <2>1, SmallestSet
  <2>3. U # {}
    BY SumOfNone
  <2>4. /\ Chosen(U) \in U
        /\ SumFunctionOnSet(f, U) = f[Chosen(U)] + SumFunctionOnSet(f, U \ {Chosen(U)})
    BY <2>1, <2>3, SumUnfolds
  <2>5. U \ {Chosen(U)} \notin bad
    BY <2>1, <2>2, <2>4, OneLess
  <2> QED BY <2>4, <2>5
<1> QED BY <1>1

\* Less of fewer is no more.
LEMMA SumAtMost ==
  ASSUME NEW f, NEW h, NEW S, IsFiniteSet(S), NEW K, K \subseteq S,
         \A x \in S : h[x] \in Nat, \A x \in K : f[x] \in Nat /\ f[x] <= h[x]
  PROVE  SumFunctionOnSet(f, K) <= SumFunctionOnSet(h, S)
<1> DEFINE less(T) == SumFunctionOnSet(f, T \cap K)
           more(T) == SumFunctionOnSet(h, T)
           bad == {T \in SUBSET S : ~(less(T) <= more(T))}
<1>1. \A T \in SUBSET S : IsFiniteSet(T) /\ IsFiniteSet(T \cap K) /\ less(T) \in Nat /\ more(T) \in Nat
  <2>1. ASSUME NEW T \in SUBSET S PROVE IsFiniteSet(T) /\ IsFiniteSet(T \cap K)
    BY FS_Subset
  <2> QED BY <2>1, SumIsNat
<1>2. ASSUME bad # {} PROVE FALSE
  <2>1. PICK U \in bad : \A V \in bad : Cardinality(U) <= Cardinality(V)
    BY <1>1, <1>2, SmallestSet
  <2>2. U # {}
    <3>1. {} \cap K = {}
      OBVIOUS
    <3>2. SumFunctionOnSet(f, {}) = 0 /\ SumFunctionOnSet(h, {}) = 0
      BY SumOfNone
    <3>3. less({}) = 0 /\ more({}) = 0
      BY <3>1, <3>2
    <3>4. less({}) <= more({})
      <4> HIDE DEF less, more
      <4> QED BY <3>3
    <3> QED BY <2>1, <3>4
  <2> DEFINE c == Chosen(U)
             R == U \ {c}
  <2>3. c \in U /\ more(U) = h[c] + more(R)
    BY <1>1, <2>2, SumUnfolds
  <2>4. /\ R \in SUBSET S /\ Cardinality(R) < Cardinality(U)
        /\ Cardinality(R) \in Nat /\ Cardinality(U) \in Nat
    BY <1>1, <2>3, OneLess
  <2>5. less(R) <= more(R)
    <3> HIDE DEF less, more, R
    <3> QED BY <2>1, <2>4
  <2>6. less(U) <= h[c] + less(R)
    <3>1. CASE c \in K
      <4>1. (U \cap K) \ {c} = R \cap K
        OBVIOUS
      <4>2. SumFunctionOnSet(f, U \cap K) = f[c] + SumFunctionOnSet(f, (U \cap K) \ {c})
        <5> DEFINE B == U \cap K
        <5>1. IsFiniteSet(B) /\ c \in B /\ \A x \in B : f[x] \in Nat
          BY <1>1, <2>3, <3>1
        <5> HIDE DEF B, c
        <5> QED BY <5>1, SumWithout DEF B
      <4>3. less(U) = f[c] + less(R)
        BY <4>1, <4>2
      <4>4. less(R) \in Nat /\ f[c] \in Nat /\ h[c] \in Nat /\ f[c] <= h[c]
        BY <1>1, <2>4, <3>1
      <4> HIDE DEF less, R, c
      <4> QED BY <4>3, <4>4
    <3>2. CASE c \notin K
      <4>1. U \cap K = R \cap K
        BY <3>2
      <4>2. less(U) = less(R)
        BY <4>1
      <4>3. less(R) \in Nat /\ h[c] \in Nat
        BY <1>1, <2>3, <2>4
      <4> HIDE DEF less, R, c
      <4> QED BY <4>2, <4>3
    <3> QED BY <3>1, <3>2
  <2>7. less(U) \in Nat /\ less(R) \in Nat /\ more(U) \in Nat /\ more(R) \in Nat /\ h[c] \in Nat
    BY <1>1, <2>3, <2>4
  <2>8. ~(less(U) <= more(U))
    OBVIOUS
  <2> HIDE DEF less, more, R, c
  <2> QED BY <2>3, <2>5, <2>6, <2>7, <2>8
<1>3. K = S \cap K
  OBVIOUS
<1> QED BY <1>2, <1>3

-----------------------------------------------------------------------------
(* Sums of sequences. *)

LEMMA SumOfIs ==
  ASSUME NEW s
  PROVE  SumOf(s) = SumFunctionOnSet(s, DOMAIN s)
BY DEF SumOf, SumFunction

\* The sum of the first n + 1 is that of the first n and one more.
LEMMA SumUpTo ==
  ASSUME NEW f, NEW n \in Nat \ {0}, \A i \in 1 .. n : f[i] \in Nat
  PROVE  SumFunctionOnSet(f, 1 .. n) = SumFunctionOnSet(f, 1 .. (n - 1)) + f[n]
<1>1. IsFiniteSet(1 .. n) /\ n \in 1 .. n /\ (1 .. n) \ {n} = 1 .. (n - 1)
  BY FS_Interval
<1>2. IsFiniteSet(1 .. (n - 1))
  BY FS_Interval
<1>3. SumFunctionOnSet(f, 1 .. (n - 1)) \in Nat
  BY <1>2, SumIsNat
<1>4. SumFunctionOnSet(f, 1 .. n) = f[n] + SumFunctionOnSet(f, (1 .. n) \ {n})
  BY <1>1, SumWithout
<1>5. SumFunctionOnSet(f, (1 .. n) \ {n}) = SumFunctionOnSet(f, 1 .. (n - 1)) /\ f[n] \in Nat
  BY <1>1
<1> QED BY <1>3, <1>4, <1>5

LEMMA SumOfSeq ==
  ASSUME NEW s \in Seq(Nat)
  PROVE  SumOf(s) = SumFunctionOnSet(s, 1 .. Len(s)) /\ SumOf(s) \in Nat
<1>1. DOMAIN s = 1 .. Len(s) /\ Len(s) \in Nat /\ \A i \in 1 .. Len(s) : s[i] \in Nat
  OBVIOUS
<1>2. IsFiniteSet(1 .. Len(s))
  BY <1>1, FS_Interval
<1> QED BY <1>1, <1>2, SumOfIs, SumIsNat

LEMMA SumOfBoth ==
  ASSUME NEW s \in Seq(Nat), NEW t \in Seq(Nat)
  PROVE  s \o t \in Seq(Nat) /\ SumOf(s \o t) = SumOf(s) + SumOf(t)
<1> DEFINE b == s \o t
           lhs(n) == SumFunctionOnSet(b, 1 .. (Len(s) + n))
           rhs(n) == SumOf(s) + SumFunctionOnSet(t, 1 .. n)
           bad == {n \in 0 .. Len(t) : lhs(n) # rhs(n)}
<1>1. /\ b \in Seq(Nat) /\ Len(b) = Len(s) + Len(t) /\ Len(s) \in Nat /\ Len(t) \in Nat
      /\ \A i \in 1 .. Len(s) : b[i] = s[i]
      /\ \A i \in 1 .. Len(t) : b[Len(s) + i] = t[i]
  OBVIOUS
<1>2. \A i \in 1 .. (Len(s) + Len(t)) : b[i] \in Nat
  BY <1>1
<1>3. \A i \in 1 .. Len(t) : t[i] \in Nat
  OBVIOUS
<1> HIDE DEF b
<1>4. ASSUME bad # {} PROVE FALSE
  <2>1. bad \in SUBSET Nat
    BY <1>1
  <2>2. PICK n \in bad : \A m \in bad : n <= m
    BY <1>4, <2>1, LeastMember
  <2>3. n \in Nat /\ n <= Len(t) /\ lhs(n) # rhs(n)
    BY <1>1
  <2>4. CASE n = 0
    <3>1. lhs(0) = SumFunctionOnSet(s, 1 .. Len(s))
      <4>1. IsFiniteSet(1 .. Len(s)) /\ 1 .. (Len(s) + 0) = 1 .. Len(s)
        BY <1>1, FS_Interval
      <4>2. \A i \in 1 .. Len(s) : b[i] = s[i]
        BY <1>1
      <4>3. SumFunctionOnSet(b, 1 .. Len(s)) = SumFunctionOnSet(s, 1 .. Len(s))
        <5> DEFINE S == 1 .. Len(s)
        <5>1. IsFiniteSet(S) /\ \A i \in S : b[i] = s[i]
          BY <4>1, <4>2
        <5> HIDE DEF S
        <5>2. SumFunctionOnSet(b, S) = SumFunctionOnSet(s, S)
          BY <5>1, SumAlike
        <5> QED BY <5>2 DEF S
      <4> QED BY <4>1, <4>3
    <3>2. 1 .. 0 = {}
      OBVIOUS
    <3>3. rhs(0) = SumOf(s)
      BY <3>2, SumOfNone, SumOfSeq
    <3> QED BY <2>3, <2>4, <3>1, <3>3, SumOfSeq
  <2>5. CASE n > 0
    <3>1. n - 1 \notin bad /\ n - 1 \in 0 .. Len(t)
      <4>1. n - 1 \in 0 .. Len(t) /\ ~(n <= n - 1)
        BY <1>1, <2>3, <2>5
      <4> HIDE DEF bad
      <4> QED BY <2>2, <4>1
    <3>2. lhs(n - 1) = rhs(n - 1)
      BY <3>1
    <3>3. lhs(n) = lhs(n - 1) + t[n]
      <4>1. /\ Len(s) + n \in Nat \ {0} /\ (Len(s) + n) - 1 = Len(s) + (n - 1)
            /\ n \in 1 .. Len(t)
            /\ \A i \in 1 .. (Len(s) + n) : i \in 1 .. (Len(s) + Len(t))
        BY <1>1, <2>3, <2>5
      <4>2. b[Len(s) + n] = t[n]
        BY <1>1, <4>1
      <4>3. \A i \in 1 .. (Len(s) + n) : b[i] \in Nat
        BY <1>2, <4>1
      <4>4. SumFunctionOnSet(b, 1 .. (Len(s) + n))
              = SumFunctionOnSet(b, 1 .. ((Len(s) + n) - 1)) + b[Len(s) + n]
        BY <4>1, <4>3, SumUpTo
      <4> QED BY <4>1, <4>2, <4>4
    <3>4. rhs(n) = rhs(n - 1) + t[n]
      <4>1. n \in Nat \ {0} /\ (\A i \in 1 .. n : t[i] \in Nat) /\ n - 1 \in Nat
        BY <1>1, <1>3, <2>3, <2>5
      <4>2. SumFunctionOnSet(t, 1 .. n) = SumFunctionOnSet(t, 1 .. (n - 1)) + t[n]
        BY <4>1, SumUpTo
      <4>3. SumFunctionOnSet(t, 1 .. (n - 1)) \in Nat /\ t[n] \in Nat
        <5>1. 1 \in Int /\ n - 1 \in Int /\ n \in 1 .. n /\ \A i \in 1 .. (n - 1) : i \in 1 .. n
          BY <4>1
        <5>2. IsFiniteSet(1 .. (n - 1))
          BY <5>1, FS_Interval
        <5>3. \A i \in 1 .. (n - 1) : t[i] \in Nat
          BY <4>1, <5>1
        <5>4. SumFunctionOnSet(t, 1 .. (n - 1)) \in Nat
          BY <5>2, <5>3, SumIsNat
        <5> QED BY <4>1, <5>1, <5>4
      <4> QED BY <4>2, <4>3, SumOfSeq
    <3> QED BY <2>3, <3>2, <3>3, <3>4
  <2> QED BY <2>3, <2>4, <2>5
<1>5. lhs(Len(t)) = rhs(Len(t))
  <2>1. Len(t) \in 0 .. Len(t)
    BY <1>1
  <2>2. bad = {}
    BY <1>4, Zenon
  <2>3. Len(t) \notin bad
    <3> HIDE DEF bad
    <3> QED BY <2>2
  <2> QED BY <2>1, <2>3
<1>6. SumOf(b) = lhs(Len(t)) /\ SumOf(t) = SumFunctionOnSet(t, 1 .. Len(t))
  BY <1>1, SumOfSeq
<1> QED BY <1>1, <1>5, <1>6 DEF b

\* A line shown or not.
LEMMA SumOfLine ==
  ASSUME NEW shown \in BOOLEAN, NEW amount, shown => amount \in Nat
  PROVE  /\ Line(shown, amount) \in Seq(Nat)
         /\ SumOf(Line(shown, amount)) = IF shown THEN amount ELSE 0
<1>1. CASE shown
  <2>1. /\ Line(shown, amount) = <<amount>> /\ <<amount>> \in Seq(Nat) /\ Len(<<amount>>) = 1
        /\ <<amount>>[1] = amount /\ 1 .. 0 = {} /\ amount \in Nat
    BY <1>1 DEF Line
  <2>2. SumOf(<<amount>>) = SumFunctionOnSet(<<amount>>, 1 .. 1)
    BY <2>1, SumOfSeq
  <2>3. 1 \in Nat \ {0} /\ 1 - 1 = 0 /\ \A i \in 1 .. 1 : <<amount>>[i] \in Nat
    BY <2>1
  <2>4. SumFunctionOnSet(<<amount>>, 1 .. 1) = SumFunctionOnSet(<<amount>>, 1 .. 0) + amount
    BY <2>1, <2>3, SumUpTo
  <2>5. SumFunctionOnSet(<<amount>>, 1 .. 0) = 0
    BY <2>1, SumOfNone
  <2>6. SumOf(<<amount>>) = 0 + amount
    BY <2>2, <2>4, <2>5
  <2>7. SumOf(Line(shown, amount)) = SumOf(<<amount>>)
    BY <2>1, Zenon
  <2>8. 0 + amount = amount
    BY <2>1
  <2> QED BY <1>1, <2>1, <2>6, <2>7, <2>8
<1>2. CASE ~shown
  <2>1. Line(shown, amount) = <<>> /\ <<>> \in Seq(Nat) /\ DOMAIN <<>> = {}
    BY <1>2 DEF Line
  <2> QED BY <1>2, <2>1, SumOfIs, SumOfNone
<1> QED BY <1>1, <1>2

-----------------------------------------------------------------------------
(* The office. *)

InvoiceFields ==
  {"client", "purpose", "amount", "fee", "period", "status", "paidOn", "payments"}

\* The invoices table: rows in their order, with the columns the handlers read.
Shaped(is) ==
  /\ is \in Seq(Range(is))
  /\ \A i \in DOMAIN is : InvoiceFields \subseteq DOMAIN is[i]

\* A quotation's row: what it may hand on to a client.
Handable(row) ==
  /\ DOMAIN row = DOMAIN BlankQuote
  /\ row.rates \in Rates /\ row.setup \in Nat /\ row.addons \subseteq Features

RegistryTyped ==
  /\ plan \in [Plans -> PlanRow \cup {None}]
  /\ client \in [Clients -> ClientRow \cup {None}]
  /\ left \in Budget /\ today \in Nat

QuotesTyped ==
  /\ quote = [q \in Quotes |-> quote[q]]
  /\ \A q \in Quotes : Live(q) => Handable(quote[q])

BooksInv == Shaped(invoice) /\ BooksAgree(invoice, client, byHand)

IInv == RegistryTyped /\ QuotesTyped /\ BooksInv

-----------------------------------------------------------------------------
(* Sequences. *)

\* A sequence of anything is one of its own elements.
LEMMA OwnRange ==
  ASSUME NEW S, NEW s \in Seq(S)
  PROVE  /\ s \in Seq(Range(s))
         /\ Len(s) \in Nat /\ DOMAIN s = 1 .. Len(s)
<1>1. /\ Len(s) \in Nat /\ DOMAIN s = 1 .. Len(s)
      /\ \A i \in 1 .. Len(s) : s[i] \in Range(s)
      /\ s = [i \in 1 .. Len(s) |-> s[i]]
  BY DEF Range
<1> QED BY <1>1

\* What a sequence with one more element holds.
LEMMA Appended ==
  ASSUME NEW S, NEW s \in Seq(S), NEW e
  PROVE  /\ Append(s, e) \in Seq(Range(Append(s, e)))
         /\ Len(s) \in Nat /\ DOMAIN s = 1 .. Len(s)
         /\ DOMAIN Append(s, e) = DOMAIN s \cup {Len(s) + 1}
         /\ Len(s) + 1 \notin DOMAIN s
         /\ \A i \in DOMAIN s : Append(s, e)[i] = s[i]
         /\ Append(s, e)[Len(s) + 1] = e
<1>1. s \in Seq(S \cup {e})
  OBVIOUS
<1>2. Append(s, e) \in Seq(S \cup {e}) /\ Len(Append(s, e)) = Len(s) + 1
  BY <1>1
<1>3. Append(s, e) \in Seq(Range(Append(s, e)))
  BY <1>2, OwnRange
<1>4. Len(s) \in Nat /\ DOMAIN s = 1 .. Len(s) /\ DOMAIN Append(s, e) = 1 .. Len(s) + 1
  BY <1>1, <1>2
<1>5. /\ \A i \in DOMAIN s : Append(s, e)[i] = s[i]
      /\ Append(s, e)[Len(s) + 1] = e
  BY <1>1, <1>4
<1> QED BY <1>3, <1>4, <1>5

\* The same rows, some of them written anew, are a table still.
LEMMA Rewritten ==
  ASSUME NEW S, NEW s \in Seq(S), NEW t, DOMAIN t = DOMAIN s,
         t = [i \in DOMAIN t |-> t[i]]
  PROVE  t \in Seq(Range(t))
<1>1. Len(s) \in Nat /\ DOMAIN t = 1 .. Len(s)
  OBVIOUS
<1>2. \A i \in 1 .. Len(s) : t[i] \in Range(t)
  BY <1>1 DEF Range
<1> QED BY <1>1, <1>2
-----------------------------------------------------------------------------
(* What is raised. *)

\* Only a charge not invoiced yet is due, so only such a charge rides on an invoice.
LEMMA FeeDue ==
  ASSUME NEW c, NEW body
  PROVE  /\ QuoteOf(c).setupDue > 0 => client[c].fee = "not_invoiced"
         /\ FeeRiding(c, body) > 0 => client[c].fee = "not_invoiced"
<1>1. QuoteOf(c).setupDue = IF client[c].fee = "not_invoiced"
                            THEN AgreedSetupFee(PlanOf(c), client[c]) ELSE 0
  BY DEF QuoteOf, QuoteForSubscription
<1>2. ~(0 > 0)
  OBVIOUS
<1> QED BY <1>1, <1>2 DEF FeeRiding

\* A row as every kind of invoice fills it.
Raisable(inv, c) ==
  /\ InvoiceFields \subseteq DOMAIN inv
  /\ inv.client = c /\ inv.status = "pending" /\ inv.payments = 0
  /\ Or(inv.fee, 0) > 0 => client[c].fee = "not_invoiced"

LEMMA InvoiceWithIs ==
  ASSUME NEW c, NEW body, NEW fee, fee > 0 => client[c].fee = "not_invoiced"
  PROVE  Raisable(InvoiceWith(c, body, fee), c) /\ InvoiceWith(c, body, fee).period = None
<1> DEFINE inv == InvoiceWith(c, body, fee)
<1>1. /\ InvoiceFields \subseteq DOMAIN inv
      /\ inv.client = c /\ inv.status = "pending" /\ inv.payments = 0 /\ inv.period = None
      /\ inv.fee = IF fee > 0 THEN fee ELSE None
  BY DEF InvoiceWith, InvoiceFields
<1>2. ~(0 > 0)
  OBVIOUS
<1> QED BY <1>1, <1>2 DEF Raisable, Or

\* Whatever the kind: a row of the client, pending and unpaid, carrying the setup charge
\* only while it is due, and a period only when nothing standing bills it.
LEMMA NewInvoiceIs ==
  ASSUME NEW c, NEW body, NEW inv \in NewInvoices(c, body)
  PROVE  /\ Raisable(inv, c)
         /\ inv.period # None => inv.period = client[c].paid /\ BilledFor(c) = {}
<1> DEFINE base == InvoiceWith(c, body, FeeRiding(c, body))
<1>1. Raisable(base, c) /\ base.period = None
  BY FeeDue, InvoiceWithIs
<1>2. ASSUME inv \in StatedInvoices(c, body)
      PROVE  Raisable(inv, c) /\ inv.period = None
  BY <1>1, <1>2 DEF StatedInvoices, Raisable, InvoiceFields
<1>3. ASSUME inv \in OnboardingInvoices(c, body)
      PROVE  Raisable(inv, c) /\ inv.period = None
  BY <1>3, FeeDue, InvoiceWithIs DEF OnboardingInvoices
<1>4. ASSUME inv \in ProRataInvoices(c, body)
      PROVE  Raisable(inv, c) /\ inv.period = client[c].paid /\ BilledFor(c) = {}
  <2>1. PICK charge : /\ BilledFor(c) = {}
                      /\ inv = [base EXCEPT !.amount = @ + charge, !.period = client[c].paid]
    BY <1>4 DEF ProRataInvoices
  <2> QED BY <1>1, <2>1 DEF Raisable, InvoiceFields
<1>5. ASSUME inv \in SubscriptionInvoices(c, body)
      PROVE  Raisable(inv, c) /\ inv.period = None
  <2> DEFINE quote0   == QuoteOf(c)
             counted  == quote0.terms # None /\ quote0.terms.mode # "custom"
             perStore == quote0.terms # None /\ quote0.terms.mode = "per_store"
             tills == IF counted THEN quote0.licensed ELSE None
             till  == IF counted THEN quote0.terms.till ELSE None
             many  == IF perStore THEN quote0.stores ELSE None
             store == IF perStore THEN quote0.terms.store ELSE None
  <2>1. inv = [base EXCEPT !.amount = @ + quote0.recurring, !.tills = tills, !.tillPrice = till,
                           !.stores = many, !.storePrice = store, !.addons = quote0.addons]
    BY <1>5, Zenon DEF SubscriptionInvoices
  <2> HIDE DEF quote0, tills, till, many, store, base
  <2> QED BY <1>1, <2>1 DEF Raisable, InvoiceFields
<1> QED BY <1>2, <1>3, <1>4, <1>5 DEF NewInvoices
-----------------------------------------------------------------------------
(* Books with one more invoice, and with one settled. *)

\* A client's row with another state of its setup charge is a client's row.
LEMMA FeeWritten ==
  ASSUME NEW cl \in [Clients -> ClientRow \cup {None}], NEW c, NEW fee \in FeeStates,
         c \in Clients => cl[c] # None
  PROVE  /\ [cl EXCEPT ![c].fee = fee] \in [Clients -> ClientRow \cup {None}]
         /\ \A d \in Clients : d # c => [cl EXCEPT ![c].fee = fee][d] = cl[d]
         /\ c \in Clients => [cl EXCEPT ![c].fee = fee][c] \in ClientRow
                             /\ [cl EXCEPT ![c].fee = fee][c].fee = fee
<1>1. ASSUME c \in Clients PROVE [cl[c] EXCEPT !.fee = fee] \in ClientRow
                                 /\ [cl[c] EXCEPT !.fee = fee].fee = fee
  BY <1>1 DEF ClientRow
<1> QED BY <1>1

\* Raising one keeps the books, whether or not the setup charge is marked after it (a
\* client whose mark is missing is one the office has to look at).
LEMMA RaiseKeeps ==
  ASSUME IInv, NEW c, c \in Clients => client[c] # None, NEW body,
         NEW inv \in NewInvoices(c, body)
  PROVE  /\ FeeInvoiced(c, inv) \in [Clients -> ClientRow \cup {None}]
         /\ Shaped(Append(invoice, inv))
         /\ BooksAgree(Append(invoice, inv), FeeInvoiced(c, inv), byHand)
         /\ BooksAgree(Append(invoice, inv), client, byHand \cup {c})
<1> DEFINE is == Append(invoice, inv)
           fee == IF Or(inv.fee, 0) > 0 THEN "invoiced" ELSE client[c].fee
           cl == FeeInvoiced(c, inv)
<1> USE DEF IInv, BooksInv, RegistryTyped
<1>1. /\ is \in Seq(Range(is))
      /\ Len(invoice) \in Nat /\ DOMAIN invoice = 1 .. Len(invoice)
      /\ DOMAIN is = DOMAIN invoice \cup {Len(invoice) + 1}
      /\ Len(invoice) + 1 \notin DOMAIN invoice
      /\ \A i \in DOMAIN invoice : is[i] = invoice[i]
      /\ is[Len(invoice) + 1] = inv
  BY Appended DEF Shaped
<1>2. /\ Raisable(inv, c)
      /\ inv.period # None => inv.period = client[c].paid /\ BilledFor(c) = {}
  BY NewInvoiceIs
<1>3. cl = [client EXCEPT ![c].fee = fee]
  BY DEF FeeInvoiced
<1>4. c \in Clients => client[c] \in ClientRow /\ fee \in FeeStates
  BY DEF ClientRow, FeeStates
<1>5. /\ cl \in [Clients -> ClientRow \cup {None}]
      /\ \A d \in Clients : d # c => cl[d] = client[d]
      /\ c \in Clients => cl[c] \in ClientRow /\ cl[c].fee = fee
  <2>1. CASE c \in Clients
    BY <1>3, <1>4, <2>1, FeeWritten
  <2>2. CASE c \notin Clients
    <3>1. cl = client
      BY <1>3, <2>2
    <3> QED BY <2>2, <3>1
  <2> QED BY <2>1, <2>2
<1>6. Shaped(is)
  BY <1>1, <1>2 DEF Shaped, Raisable
<1> HIDE DEF is, cl, fee
<1>7. Owned(is, cl) /\ Owned(is, client)
  <2>1. \A d \in Clients : client[d] = None => d # c
    OBVIOUS
  <2>2. \A d \in Clients : cl[d] = None => d # c /\ client[d] = None
    BY <1>5, OfficeAssumption
  <2>3. inv.client = c
    BY <1>2 DEF Raisable
  <2>4. Owned(invoice, client)
    BY DEF BooksAgree
  <2> QED BY <1>1, <2>1, <2>2, <2>3, <2>4 DEF Owned
<1>8. PaidOnce(is)
  BY <1>1, <1>2 DEF BooksAgree, PaidOnce, Raisable
<1>9. ProRatedOnce(is)
  <2>1. \A i \in DOMAIN invoice :
          inv.period # None /\ invoice[i].client = c /\ invoice[i].period = inv.period
            => invoice[i].status = "cancelled"
    BY <1>2 DEF BilledFor, Standing, InvoicesOf
  <2>2. inv.client = c
    BY <1>2 DEF Raisable
  <2> QED BY <1>1, <2>1, <2>2 DEF BooksAgree, ProRatedOnce
<1>10. ASSUME NEW d \in Clients, d # c
       PROVE  Carriers(is, d) = Carriers(invoice, d)
  BY <1>1, <1>2, <1>10 DEF Carriers, Raisable
<1>11. \A d \in Clients : \A i \in Carriers(invoice, d) : is[i] = invoice[i]
  BY <1>1 DEF Carriers
<1>12. ASSUME NEW d \in Clients \ byHand, d # c, client[d] # None
       PROVE  OneCarrier(is, d, client[d].fee)
  BY <1>10, <1>11, <1>12 DEF BooksAgree, OneCarrier
<1>13. ASSUME c \in Clients \ byHand PROVE OneCarrier(is, c, cl[c].fee)
  <2>1. OneCarrier(invoice, c, client[c].fee)
    BY <1>13 DEF BooksAgree
  <2>2. CASE Or(inv.fee, 0) > 0
    <3>1. Carriers(invoice, c) = {}
      BY <1>2, <2>1, <2>2 DEF OneCarrier, Raisable
    <3>2. Carriers(is, c) = {Len(invoice) + 1}
      BY <1>1, <1>2, <2>2, <3>1 DEF Carriers, Raisable
    <3>3. cl[c].fee = "invoiced"
      BY <1>5, <1>13, <2>2 DEF fee
    <3> QED BY <1>1, <1>2, <3>2, <3>3 DEF OneCarrier, Raisable
  <2>3. CASE ~(Or(inv.fee, 0) > 0)
    <3>1. Carriers(is, c) = Carriers(invoice, c)
      BY <1>1, <1>2, <2>3 DEF Carriers
    <3>2. cl[c].fee = client[c].fee
      BY <1>5, <1>13, <2>3 DEF fee
    <3> QED BY <1>11, <1>13, <2>1, <3>1, <3>2 DEF OneCarrier
  <2> QED BY <2>2, <2>3
<1>14. BooksAgree(is, cl, byHand)
  BY <1>5, <1>7, <1>8, <1>9, <1>12, <1>13 DEF BooksAgree
<1>15. BooksAgree(is, client, byHand \cup {c})
  BY <1>7, <1>8, <1>9, <1>12 DEF BooksAgree
<1> QED BY <1>5, <1>6, <1>14, <1>15 DEF is, cl
\* A settlement writes a client's row, and moves nothing but its charge, period and status.
LEMMA SettledRow ==
  ASSUME today \in Nat, NEW row \in ClientRow, NEW inv, NEW period
  PROVE  /\ SettledClient(row, inv, period) \in ClientRow
         /\ SettledClient(row, inv, period).fee =
              IF Or(inv.fee, 0) > 0 /\ row.fee = "invoiced" THEN "paid" ELSE row.fee
         /\ ~Advances(inv) => SettledClient(row, inv, period).paid = row.paid
<1> DEFINE fee    == IF Or(inv.fee, 0) > 0 /\ row.fee = "invoiced" THEN "paid" ELSE row.fee
           paid   == IF Advances(inv) THEN RenewalDate(row.paid, period, today) ELSE row.paid
           status == IF Advances(inv) THEN "active" ELSE row.status
           new    == [row EXCEPT !.fee = fee, !.paid = paid, !.status = status]
<1>1. SettledClient(row, inv, period) = new
  BY DEF SettledClient
<1>2. row.paid \in Nat \cup {None} /\ row.fee \in FeeStates /\ row.status \in {"active", "suspended"}
  BY DEF ClientRow, Day
<1>3. RenewalDate(row.paid, period, today) \in Nat
  BY <1>2, PriceAssumption DEF RenewalDate
<1>4. paid \in Day \cup {None} /\ fee \in FeeStates /\ status \in {"active", "suspended"}
  BY <1>2, <1>3 DEF Day, FeeStates
<1>5. ~Advances(inv) => paid = row.paid
  OBVIOUS
<1> HIDE DEF fee, paid, status
<1>6. new \in ClientRow /\ new.fee = fee /\ new.paid = paid
  BY <1>4 DEF ClientRow
<1> QED BY <1>1, <1>5, <1>6 DEF fee

\* The books with one row written anew: its status, no longer back from cancelled, and
\* the client's own charge agreeing with it.
LEMMA RowWritten ==
  ASSUME NEW is, NEW cl \in [Clients -> ClientRow \cup {None}], NEW hand,
         Shaped(is), BooksAgree(is, cl, hand),
         NEW i \in DOMAIN is, NEW new, NEW now \in [Clients -> ClientRow \cup {None}],
         InvoiceFields \subseteq DOMAIN new,
         new.client = is[i].client, new.fee = is[i].fee, new.period = is[i].period,
         is[i].status = "cancelled" => new.status = "cancelled",
         new.status # "paid" => new.payments = 0,
         \A d \in Clients : now[d] = None <=> cl[d] = None,
         \A d \in Clients : d # is[i].client => now[d] = cl[d],
         is[i].client \in Clients \ hand =>
           OneCarrier([is EXCEPT ![i] = new], is[i].client, now[is[i].client].fee)
  PROVE  Shaped([is EXCEPT ![i] = new]) /\ BooksAgree([is EXCEPT ![i] = new], now, hand)
<1> DEFINE to == [is EXCEPT ![i] = new]
           c  == is[i].client
<1>1. DOMAIN to = DOMAIN is /\ to[i] = new /\ \A j \in DOMAIN is : j # i => to[j] = is[j]
  BY DEF Shaped
<1>2. Shaped(to)
  <2>1. to \in Seq(Range(to))
    BY <1>1, Rewritten DEF Shaped
  <2> QED BY <1>1, <2>1 DEF Shaped
<1>3. OneCarrier(to, c, now[c].fee) \/ c \notin Clients \ hand
  OBVIOUS
<1> HIDE DEF to
<1>4. Owned(to, now)
  BY <1>1 DEF BooksAgree, Owned
<1>5. PaidOnce(to)
  BY <1>1 DEF BooksAgree, PaidOnce
<1>6. ProRatedOnce(to)
  BY <1>1 DEF BooksAgree, ProRatedOnce
<1>7. ASSUME NEW d \in Clients \ hand, now[d] # None
      PROVE  OneCarrier(to, d, now[d].fee)
  <2>1. CASE d = c
    BY <1>3, <2>1
  <2>2. CASE d # c
    <3>1. Carriers(to, d) = Carriers(is, d) /\ i \notin Carriers(is, d)
      BY <1>1, <2>2 DEF Carriers
    <3>2. \A j \in Carriers(is, d) : to[j] = is[j]
      BY <1>1, <3>1 DEF Carriers
    <3>3. OneCarrier(is, d, cl[d].fee) /\ now[d].fee = cl[d].fee
      BY <1>7, <2>2 DEF BooksAgree
    <3> QED BY <3>1, <3>2, <3>3 DEF OneCarrier
  <2> QED BY <2>1, <2>2
<1>8. BooksAgree(to, now, hand)
  BY <1>4, <1>5, <1>6, <1>7 DEF BooksAgree
<1> QED BY <1>2, <1>8 DEF to

\* Settling one keeps the books: the charge it carries is the client's one charge.
LEMMA SettleKeeps ==
  ASSUME today \in Nat,
         NEW is, NEW cl \in [Clients -> ClientRow \cup {None}], NEW hand,
         Shaped(is), BooksAgree(is, cl, hand),
         NEW i \in DOMAIN is, Payable(is[i]), NEW period
  PROVE  LET c   == is[i].client
             now == [cl EXCEPT ![c] = SettledClient(@, is[i], period)]
         IN /\ now \in [Clients -> ClientRow \cup {None}]
            /\ Shaped([is EXCEPT ![i] = SettledInvoice(@)])
            /\ BooksAgree([is EXCEPT ![i] = SettledInvoice(@)], now, hand)
<1> DEFINE c   == is[i].client
           new == SettledInvoice(is[i])
           row == SettledClient(cl[c], is[i], period)
           now == [cl EXCEPT ![c] = row]
           to  == [is EXCEPT ![i] = new]
<1>1. /\ InvoiceFields \subseteq DOMAIN is[i] /\ is[i].status \notin {"paid", "cancelled"}
      /\ c \in Clients => cl[c] \in ClientRow
  BY DEF Shaped, Payable, BooksAgree, Owned
<1>2. /\ InvoiceFields \subseteq DOMAIN new
      /\ new.client = c /\ new.fee = is[i].fee /\ new.period = is[i].period
      /\ new.status = "paid"
  BY <1>1 DEF SettledInvoice, InvoiceFields
<1>3. c \in Clients =>
        /\ row \in ClientRow
        /\ row.fee = IF Or(is[i].fee, 0) > 0 /\ cl[c].fee = "invoiced" THEN "paid" ELSE cl[c].fee
  BY <1>1, SettledRow
<1>4. to = [is EXCEPT ![i] = SettledInvoice(@)] /\ now = [cl EXCEPT ![c] = SettledClient(@, is[i], period)]
  OBVIOUS
<1> HIDE DEF new, row
<1>5. /\ now \in [Clients -> ClientRow \cup {None}]
      /\ \A d \in Clients : d # c => now[d] = cl[d]
      /\ c \in Clients => now[c] = row
  <2>1. CASE c \in Clients
    BY <1>3, <2>1
  <2>2. CASE c \notin Clients
    <3>1. now = cl
      BY <2>2
    <3> QED BY <2>2, <3>1
  <2> QED BY <2>1, <2>2
<1>6. \A d \in Clients : now[d] = None <=> cl[d] = None
  BY <1>1, <1>3, <1>5, OfficeAssumption
<1>7. DOMAIN to = DOMAIN is /\ to[i] = new /\ \A j \in DOMAIN is : j # i => to[j] = is[j]
  BY DEF Shaped
<1> HIDE DEF now, to, c
<1>8. ASSUME c \in Clients \ hand PROVE OneCarrier(to, c, now[c].fee)
  <2>1. OneCarrier(is, c, cl[c].fee)
    BY <1>1, <1>8, OfficeAssumption DEF BooksAgree
  <2>2. Carriers(to, c) = Carriers(is, c)
    BY <1>1, <1>2, <1>7 DEF Carriers, c
  <2>3. CASE i \in Carriers(is, c)
    <3>1. Carriers(is, c) = {i} /\ Or(is[i].fee, 0) > 0
      BY <2>1, <2>3 DEF OneCarrier, Carriers
    <3>2. cl[c].fee = "invoiced"
      BY <1>1, <2>1, <3>1 DEF OneCarrier
    <3>3. now[c].fee = "paid"
      BY <1>3, <1>5, <1>8, <3>1, <3>2
    <3> QED BY <1>2, <1>7, <2>2, <3>1, <3>3 DEF OneCarrier
  <2>4. CASE i \notin Carriers(is, c)
    <3>1. ~(Or(is[i].fee, 0) > 0)
      BY <1>1, <2>4 DEF Carriers, c
    <3>2. now[c].fee = cl[c].fee
      BY <1>3, <1>5, <1>8, <3>1
    <3>3. \A j \in Carriers(is, c) : to[j] = is[j]
      BY <1>7, <2>4 DEF Carriers
    <3> QED BY <2>1, <2>2, <3>2, <3>3 DEF OneCarrier
  <2> QED BY <2>3, <2>4
<1>9. Shaped(to) /\ BooksAgree(to, now, hand)
  BY <1>1, <1>2, <1>5, <1>6, <1>8, RowWritten DEF to, c
<1> QED BY <1>4, <1>5, <1>9 DEF c
-----------------------------------------------------------------------------
(* The rows the office's edits write. *)

\* A kept add-on has its price, a new one the plan's.
LEMMA HoldingIs ==
  ASSUME NEW row \in ClientRow, NEW p \in PlanRow \cup {None}, NEW keys \in SUBSET Features,
         MayHold(row, p, keys)
  PROVE  Holding(row, p, keys) \in [Features -> Nat \cup {None, Unpriced}]
<1>1. row.addons \in [Features -> Nat \cup {None, Unpriced}]
  BY DEF ClientRow
<1>2. p # None => p.prices \in [Features -> Nat \cup {None}]
  BY DEF PlanRow, Prices
<1>3. ASSUME NEW k \in Features, k \in keys, k \in Bought(row)
      PROVE  AddonUnit(k, row, p) \in Nat \cup {None, Unpriced}
  BY <1>1, <1>2, <1>3 DEF AddonUnit, Or
<1>4. ASSUME NEW k \in Features, k \in keys, k \notin Bought(row)
      PROVE  p.prices[k] \in Nat
  BY <1>2, <1>4 DEF MayHold
<1> QED BY <1>3, <1>4 DEF Holding

\* Agreeing a plan's terms writes the terms and the setup charge only.
LEMMA AgreedIs ==
  ASSUME NEW row \in ClientRow, NEW p \in PlanRow \cup {None}
  PROVE  /\ Agreed(row, p) \in ClientRow
         /\ Agreed(row, p).fee = row.fee /\ Agreed(row, p).paid = row.paid
<1>1. CASE p = None
  BY <1>1 DEF Agreed
<1>2. CASE p # None
  <2>1. TermsFromPlan(p) \in Terms /\ p.setup \in Nat
    BY <1>2 DEF TermsFromPlan, PlanRow, Terms
  <2>2. Agreed(row, p) = [row EXCEPT !.terms = TermsFromPlan(p), !.setup = p.setup]
    BY <1>2 DEF Agreed
  <2> QED BY <2>1, <2>2 DEF ClientRow
<1> QED BY <1>1, <1>2

\* Where an edit moves a client, and the plan it is priced on then.
LEMMA PlanAt ==
  ASSUME RegistryTyped, NEW row \in ClientRow, NEW body \in EditBody,
         body.plan \in Assignable(row.plan)
  PROVE  LET to == Given(body.plan, row.plan)
         IN /\ to \in Plans \cup {None}
            /\ (IF to = None THEN None ELSE plan[to]) \in PlanRow \cup {None}
<1>1. Given(body.plan, row.plan) \in Plans \cup {None}
  BY DEF Given, Assignable, ClientRow
<1> QED BY <1>1 DEF RegistryTyped

LEMMA EditedCompanyIs ==
  ASSUME RegistryTyped, NEW row \in ClientRow, NEW body \in EditBody,
         body.plan \in Assignable(row.plan),
         LET to == Given(body.plan, row.plan)
         IN body.addons # Kept => MayHold(row, IF to = None THEN None ELSE plan[to], body.addons)
  PROVE  /\ EditedCompany(row, body) \in ClientRow
         /\ EditedCompany(row, body).fee = Given(body.fee, row.fee)
<1> DEFINE to == Given(body.plan, row.plan)
           p  == IF to = None THEN None ELSE plan[to]
           paid == Given(body.paid, row.paid)
           status == Given(body.status, row.status)
           moved == [row EXCEPT !.plan = to, !.paid = paid, !.status = status]
           priced == IF to = row.plan \/ to = None THEN moved ELSE Agreed(moved, p)
           licensed == Given(body.licensed, priced.licensed)
           fee == Given(body.fee, priced.fee)
           addons == IF body.addons = Kept THEN priced.addons ELSE Holding(row, p, body.addons)
           new == [priced EXCEPT !.licensed = licensed, !.fee = fee, !.addons = addons]
<1>1. to \in Plans \cup {None} /\ p \in PlanRow \cup {None}
  BY PlanAt
<1>2. paid \in Day \cup {None} /\ status \in {"active", "suspended"}
  BY DEF Given, EditBody, ClientRow, Day
<1>3. EditedCompany(row, body) = new
  BY DEF EditedCompany
<1>4. ASSUME body.addons # Kept
      PROVE  Holding(row, p, body.addons) \in [Features -> Nat \cup {None, Unpriced}]
  BY <1>1, <1>4, HoldingIs DEF EditBody
<1> HIDE DEF to, p, paid, status
<1>5. moved \in ClientRow /\ moved.fee = row.fee
  BY <1>1, <1>2 DEF ClientRow
<1> HIDE DEF moved
<1>6. priced \in ClientRow /\ priced.fee = row.fee
  BY <1>1, <1>5, AgreedIs
<1> HIDE DEF priced
<1>7. /\ licensed \in Nat /\ fee \in FeeStates /\ fee = Given(body.fee, row.fee)
      /\ addons \in [Features -> Nat \cup {None, Unpriced}]
  BY <1>4, <1>6 DEF Given, EditBody, ClientRow
<1> HIDE DEF licensed, fee, addons
<1>8. new \in ClientRow /\ new.fee = fee
  BY <1>6, <1>7 DEF ClientRow
<1> QED BY <1>3, <1>7, <1>8

LEMMA EditedClientIs ==
  ASSUME RegistryTyped, NEW row \in ClientRow, NEW body \in EditBody,
         body.plan \in Assignable(row.plan),
         LET to == Given(body.plan, row.plan)
         IN body.addons # Kept => MayHold(row, IF to = None THEN None ELSE plan[to], body.addons)
  PROVE  /\ EditedClient(row, body) \in ClientRow
         /\ EditedClient(row, body).fee = Given(body.fee, row.fee)
<1> DEFINE to == Given(body.plan, row.plan)
           p  == IF to = None THEN None ELSE plan[to]
           status == Given(body.status, row.status)
           fee == Given(body.fee, row.fee)
           moved == [row EXCEPT !.plan = to, !.status = status, !.fee = fee]
           priced == IF body.setup # Kept /\ row.terms = None THEN Agreed(moved, p) ELSE moved
           setup == Given(body.setup, priced.setup)
           licensed == Given(body.licensed, priced.licensed)
           addons == IF body.addons = Kept THEN priced.addons ELSE Holding(row, p, body.addons)
           new == [priced EXCEPT !.setup = setup, !.licensed = licensed, !.addons = addons]
<1>1. to \in Plans \cup {None} /\ p \in PlanRow \cup {None}
  BY PlanAt
<1>2. status \in {"active", "suspended"} /\ fee \in FeeStates
  BY DEF Given, EditBody, ClientRow
<1>3. EditedClient(row, body) = new
  BY DEF EditedClient
<1>4. ASSUME body.addons # Kept
      PROVE  Holding(row, p, body.addons) \in [Features -> Nat \cup {None, Unpriced}]
  BY <1>1, <1>4, HoldingIs DEF EditBody
<1> HIDE DEF to, p, status, fee
<1>5. moved \in ClientRow /\ moved.fee = fee
  BY <1>1, <1>2 DEF ClientRow
<1> HIDE DEF moved
<1>6. priced \in ClientRow /\ priced.fee = fee
  BY <1>1, <1>5, AgreedIs
<1> HIDE DEF priced
<1>7. /\ setup \in Nat \cup {None} /\ licensed \in Nat
      /\ addons \in [Features -> Nat \cup {None, Unpriced}]
  BY <1>4, <1>6 DEF Given, EditBody, ClientRow
<1> HIDE DEF setup, licensed, addons
<1>8. new \in ClientRow /\ new.fee = fee
  BY <1>6, <1>7 DEF ClientRow
<1> QED BY <1>3, <1>8 DEF fee
-----------------------------------------------------------------------------
(* What each step keeps. *)

LEMMA SpendKeeps ==
  ASSUME left \in Budget, NEW what, Spend(what),
         what \in {"office", "plans", "clients", "bills", "desk", "crashes"}
  PROVE  left' \in Budget /\ (what = "office" => left'.office < left.office)
<1>1. left[what] \in Nat /\ left[what] - 1 \in Nat /\ left' = [left EXCEPT ![what] = left[what] - 1]
  BY DEF Spend, Budget
<1> QED BY <1>1 DEF Budget

LEMMA QuotesStay ==
  ASSUME QuotesTyped, quote' = quote
  PROVE  QuotesTyped'
<1> QED BY DEF QuotesTyped, Live, Handable

LEMMA BooksStay ==
  ASSUME IInv, UNCHANGED <<client, invoice, byHand>>
  PROVE  BooksInv' /\ client' \in [Clients -> ClientRow \cup {None}]
<1> QED BY DEF IInv, BooksInv, RegistryTyped

\* A client's row written by the office keeps the books while it keeps the state of the
\* setup charge, or the office answers for it from now on.
LEMMA ClientWritten ==
  ASSUME IInv, NEW c \in Clients, NEW row \in ClientRow, client[c] # None,
         client' = [client EXCEPT ![c] = row], invoice' = invoice,
         byHand \subseteq byHand', c \in byHand' \/ row.fee = client[c].fee
  PROVE  BooksInv' /\ client' \in [Clients -> ClientRow \cup {None}]
<1> USE DEF IInv, BooksInv, RegistryTyped
<1>1. /\ client' \in [Clients -> ClientRow \cup {None}] /\ client'[c] = row
      /\ \A d \in Clients : d # c => client'[d] = client[d]
      /\ row # None
  BY OfficeAssumption
<1>2. Owned(invoice', client')
  BY <1>1 DEF BooksAgree, Owned
<1>3. PaidOnce(invoice') /\ ProRatedOnce(invoice')
  BY DEF BooksAgree, PaidOnce, ProRatedOnce
<1>4. ASSUME NEW d \in Clients \ byHand', client'[d] # None
      PROVE  OneCarrier(invoice', d, client'[d].fee)
  BY <1>1, <1>4 DEF BooksAgree
<1>5. Shaped(invoice')
  BY DEF Shaped
<1> QED BY <1>1, <1>2, <1>3, <1>4, <1>5 DEF BooksAgree

\* A client that comes or goes has no invoice.
LEMMA ClientComesOrGoes ==
  ASSUME IInv, NEW c \in Clients, InvoicesOf(c) = {}, NEW row \in ClientRow \cup {None},
         row # None => row.fee = "not_invoiced",
         client' = [client EXCEPT ![c] = row], invoice' = invoice,
         byHand \ {c} \subseteq byHand'
  PROVE  BooksInv' /\ client' \in [Clients -> ClientRow \cup {None}]
<1> USE DEF IInv, BooksInv, RegistryTyped
<1>1. /\ client' \in [Clients -> ClientRow \cup {None}] /\ client'[c] = row
      /\ \A d \in Clients : d # c => client'[d] = client[d]
  OBVIOUS
<1>2. \A i \in DOMAIN invoice : invoice[i].client # c
  BY DEF InvoicesOf
<1>3. Owned(invoice', client')
  BY <1>1, <1>2 DEF BooksAgree, Owned
<1>4. PaidOnce(invoice') /\ ProRatedOnce(invoice')
  BY DEF BooksAgree, PaidOnce, ProRatedOnce
<1>5. Carriers(invoice', c) = {}
  BY <1>2 DEF Carriers
<1>6. ASSUME NEW d \in Clients \ byHand', client'[d] # None
      PROVE  OneCarrier(invoice', d, client'[d].fee)
  <2>1. CASE d = c
    BY <1>1, <1>5, <1>6, <2>1 DEF OneCarrier
  <2>2. CASE d # c
    BY <1>1, <1>6, <2>2 DEF BooksAgree
  <2> QED BY <2>1, <2>2
<1>7. Shaped(invoice')
  BY DEF Shaped
<1> QED BY <1>1, <1>3, <1>4, <1>6, <1>7 DEF BooksAgree

LEMMA RaiseInvoiceKeeps ==
  ASSUME IInv, NEW c \in Clients, NEW body, RaiseInvoice(c, body), Beside
  PROVE  IInv'
<1>1. PICK inv \in NewInvoices(c, body) :
        invoice' = Append(invoice, inv) /\ client' = FeeInvoiced(c, inv)
  BY DEF RaiseInvoice
<1>2. /\ client[c] # None /\ Spend("bills") /\ UNCHANGED <<plan, today, byHand, quote>>
  BY DEF RaiseInvoice, Beside
<1>3. BooksInv' /\ client' \in [Clients -> ClientRow \cup {None}]
  BY <1>1, <1>2, RaiseKeeps DEF BooksInv
<1> QED BY <1>2, <1>3, SpendKeeps, QuotesStay DEF IInv, RegistryTyped

LEMMA RaiseCutShortKeeps ==
  ASSUME IInv, NEW c \in Clients, NEW body, RaiseCutShort(c, body), UNCHANGED quote
  PROVE  IInv'
<1>1. PICK inv \in NewInvoices(c, body) : invoice' = Append(invoice, inv)
  BY DEF RaiseCutShort
<1>2. /\ client[c] # None /\ Spend("crashes") /\ UNCHANGED <<plan, client, today>>
      /\ byHand' = byHand \cup {c}
  BY DEF RaiseCutShort
<1>3. BooksInv'
  BY <1>1, <1>2, RaiseKeeps DEF BooksInv
<1> QED BY <1>2, <1>3, SpendKeeps, QuotesStay DEF IInv, RegistryTyped

LEMMA PayKeeps ==
  ASSUME IInv, NEW i \in DOMAIN invoice, Pay(i), Beside
  PROVE  IInv'
<1>1. /\ Payable(invoice[i])
      /\ invoice' = [invoice EXCEPT ![i] = SettledInvoice(@)]
      /\ client' = [client EXCEPT ![invoice[i].client] =
                      SettledClient(@, invoice[i], BillingPeriodOf(invoice[i].client))]
      /\ UNCHANGED <<plan, today, byHand, left, quote>>
  BY DEF Pay, Beside
<1>2. BooksInv' /\ client' \in [Clients -> ClientRow \cup {None}]
  BY <1>1, SettleKeeps DEF IInv, BooksInv, RegistryTyped
<1> QED BY <1>1, <1>2, QuotesStay DEF IInv, RegistryTyped
\* The charge goes back to not invoiced exactly when its last carrier is cancelled.
LEMMA CancelKeeps ==
  ASSUME IInv, NEW i \in DOMAIN invoice, Cancel(i), Beside
  PROVE  IInv'
<1> DEFINE c   == invoice[i].client
           new == [invoice[i] EXCEPT !.status = "cancelled"]
           fee == IF Releases(i) THEN "not_invoiced" ELSE client[c].fee
           to  == [invoice EXCEPT ![i] = new]
<1> USE DEF IInv, BooksInv, RegistryTyped
<1>1. /\ invoice[i].status # "paid" /\ invoice' = to /\ client' = [client EXCEPT ![c].fee = fee]
      /\ Spend("bills") /\ UNCHANGED <<plan, today, byHand, quote>>
  BY DEF Cancel, Beside
<1>2. InvoiceFields \subseteq DOMAIN invoice[i]
  BY DEF Shaped
<1>3. /\ InvoiceFields \subseteq DOMAIN new
      /\ new.client = c /\ new.fee = invoice[i].fee /\ new.period = invoice[i].period
      /\ new.status = "cancelled" /\ new.payments = invoice[i].payments
  BY <1>2 DEF InvoiceFields
<1>4. invoice[i].payments = 0
  BY <1>1 DEF BooksAgree, PaidOnce
<1>5. c \in Clients => client[c] \in ClientRow /\ client[c] # None /\ fee \in FeeStates
  BY OfficeAssumption DEF BooksAgree, Owned, ClientRow, FeeStates
<1>6. DOMAIN to = DOMAIN invoice /\ to[i] = new /\ \A j \in DOMAIN invoice : j # i => to[j] = invoice[j]
  OBVIOUS
<1>7. Carriers(invoice, c) = CarryFee(Standing(c))
  BY DEF Carriers, CarryFee, Standing, InvoicesOf
<1>8. /\ Carriers(to, c) = Carriers(invoice, c) \ {i}
      /\ CarryFee(Standing(c) \ {i}) = Carriers(invoice, c) \ {i}
  BY <1>3, <1>6, <1>7 DEF Carriers, CarryFee
<1> HIDE DEF new, fee, to
<1>9. /\ client' \in [Clients -> ClientRow \cup {None}]
      /\ \A d \in Clients : d # c => client'[d] = client[d]
      /\ c \in Clients => client'[c] \in ClientRow /\ client'[c].fee = fee
  <2>1. CASE c \in Clients
    BY <1>1, <1>5, <2>1, FeeWritten
  <2>2. CASE c \notin Clients
    <3>1. client' = client
      BY <1>1, <2>2
    <3> QED BY <2>2, <3>1
  <2> QED BY <2>1, <2>2
<1>10. \A d \in Clients : client'[d] = None <=> client[d] = None
  BY <1>5, <1>9, OfficeAssumption
<1>11. ASSUME c \in Clients \ byHand PROVE OneCarrier(to, c, client'[c].fee)
  <2>1. OneCarrier(invoice, c, client[c].fee) /\ client'[c].fee = fee
    BY <1>5, <1>9, <1>11 DEF BooksAgree
  <2>2. \A j \in Carriers(invoice, c) : j = i \/ to[j] = invoice[j]
    BY <1>6 DEF Carriers
  <2>3. CASE Releases(i)
    <3>1. Carriers(to, c) = {} /\ fee = "not_invoiced"
      BY <1>8, <2>3 DEF Releases, fee
    <3> QED BY <2>1, <3>1 DEF OneCarrier
  <2>4. CASE ~Releases(i)
    <3>1. fee = client[c].fee
      BY <2>4 DEF fee
    <3>2. i \notin Carriers(invoice, c)
      <4>1. SUFFICES ASSUME i \in Carriers(invoice, c) PROVE FALSE
        OBVIOUS
      <4>2. Carriers(invoice, c) = {i} /\ Or(invoice[i].fee, 0) > 0
        BY <2>1, <4>1 DEF OneCarrier, Carriers
      <4>3. client[c].fee = "invoiced"
        BY <1>1, <2>1, <4>2 DEF OneCarrier
      <4> QED BY <1>8, <2>4, <4>2, <4>3 DEF Releases
    <3>3. Carriers(to, c) = Carriers(invoice, c)
      BY <1>8, <3>2
    <3>4. \A j \in Carriers(invoice, c) : to[j] = invoice[j]
      BY <2>2, <3>2
    <3> QED BY <2>1, <3>1, <3>3, <3>4 DEF OneCarrier
  <2> QED BY <2>3, <2>4
<1>12. Shaped(to) /\ BooksAgree(to, client', byHand)
  BY <1>3, <1>4, <1>9, <1>10, <1>11, RowWritten DEF to
<1> QED BY <1>1, <1>9, <1>12, SpendKeeps, QuotesStay

\* Overdue is another name for waiting.
LEMMA TickKeeps ==
  ASSUME IInv, Tick, Beside
  PROVE  IInv'
<1> USE DEF IInv, BooksInv, RegistryTyped
<1>1. invoice' = MarkOverdue /\ UNCHANGED <<plan, client, today, byHand, left, quote>>
  BY DEF Tick, Beside
<1>2. /\ DOMAIN invoice' = DOMAIN invoice
      /\ invoice' = [i \in DOMAIN invoice' |-> invoice'[i]]
  BY <1>1 DEF MarkOverdue
<1>3. ASSUME NEW i \in DOMAIN invoice
      PROVE  /\ InvoiceFields \subseteq DOMAIN invoice'[i]
             /\ invoice'[i].client = invoice[i].client /\ invoice'[i].fee = invoice[i].fee
             /\ invoice'[i].period = invoice[i].period /\ invoice'[i].payments = invoice[i].payments
             /\ \/ invoice'[i].status = invoice[i].status
                \/ invoice[i].status = "pending" /\ invoice'[i].status = "overdue"
  <2>1. InvoiceFields \subseteq DOMAIN invoice[i]
    BY DEF Shaped
  <2>2. invoice'[i] = invoice[i]
        \/ (invoice[i].status = "pending" /\ invoice'[i] = [invoice[i] EXCEPT !.status = "overdue"])
    BY <1>1 DEF MarkOverdue
  <2> QED BY <2>1, <2>2 DEF InvoiceFields
<1>4. Shaped(invoice')
  BY <1>2, <1>3, Rewritten DEF Shaped
<1>5. Owned(invoice', client') /\ PaidOnce(invoice')
  BY <1>1, <1>2, <1>3 DEF BooksAgree, Owned, PaidOnce
<1>6. ProRatedOnce(invoice')
  BY <1>2, <1>3 DEF BooksAgree, ProRatedOnce
<1>7. ASSUME NEW d \in Clients \ byHand', client'[d] # None
      PROVE  OneCarrier(invoice', d, client'[d].fee)
  <2>1. OneCarrier(invoice, d, client[d].fee)
    BY <1>1, <1>7 DEF BooksAgree
  <2>2. Carriers(invoice', d) = Carriers(invoice, d)
    BY <1>2, <1>3 DEF Carriers
  <2>3. \A i \in Carriers(invoice, d) : invoice'[i].status = "paid" <=> invoice[i].status = "paid"
    BY <1>3 DEF Carriers
  <2> QED BY <1>1, <2>1, <2>2, <2>3 DEF OneCarrier
<1>8. BooksInv'
  BY <1>4, <1>5, <1>6, <1>7 DEF BooksAgree
<1> QED BY <1>1, <1>8, QuotesStay

\* One visit of the sweep: an invoice raised or found, then settled or left.
LEMMA SweepKeeps ==
  ASSUME IInv, NEW s \in Sweepers, SweepClient(s), Beside
  PROVE  IInv'
<1> USE DEF IInv, BooksInv, RegistryTyped
<1>1. UNCHANGED <<plan, today, byHand, left, quote>>
  BY DEF SweepClient, Beside
<1>2. ASSUME NEW c, NEW targets, NEW raised, NEW billed \in [Clients -> ClientRow \cup {None}],
             Shaped(raised), BooksAgree(raised, billed, byHand),
             \A i \in targets : i \in DOMAIN raised /\ raised[i].client = c,
             Collects(s, c, targets, raised, billed)
      PROVE  BooksInv' /\ client' \in [Clients -> ClientRow \cup {None}]
  <2>1. CASE \E i \in targets :
               /\ Payable(raised[i])
               /\ invoice' = [raised EXCEPT ![i] = SettledInvoice(@)]
               /\ client' = [billed EXCEPT ![c] = SettledClient(@, raised[i], BillingPeriodOf(c))]
    <3>1. PICK i \in targets :
               /\ Payable(raised[i])
               /\ invoice' = [raised EXCEPT ![i] = SettledInvoice(@)]
               /\ client' = [billed EXCEPT ![c] = SettledClient(@, raised[i], BillingPeriodOf(c))]
      BY <2>1
    <3>2. i \in DOMAIN raised /\ raised[i].client = c
      BY <1>2
    <3> QED BY <1>1, <1>2, <3>1, <3>2, SettleKeeps
  <2>2. CASE invoice' = raised /\ client' = billed
    BY <1>1, <1>2, <2>2
  <2> QED BY <1>2, <2>1, <2>2 DEF Collects
<1> DEFINE row == Head(sweep[s].todo)
           c   == row.c
           due == Billable(c, plan[row.plan]) /\ IsDue(row.paid)
           new == IF due /\ Awaiting(c) = {} THEN NewInvoices(c, Renewal(row.paid)) ELSE {}
           newest == {i \in Awaiting(c) : due /\ \A j \in Awaiting(c) : j <= i}
<1>3. \/ Collects(s, c, newest, invoice, client)
      \/ \E inv \in new : Collects(s, c, {Len(invoice) + 1}, Append(invoice, inv), FeeInvoiced(c, inv))
  BY Zenon DEF SweepClient
<1>4. CASE Collects(s, c, newest, invoice, client)
  <2>1. \A i \in newest : i \in DOMAIN invoice /\ invoice[i].client = c
    BY DEF Awaiting, InvoicesOf
  <2> QED BY <1>1, <1>2, <1>4, <2>1, QuotesStay
<1>5. ASSUME NEW inv \in new,
             Collects(s, c, {Len(invoice) + 1}, Append(invoice, inv), FeeInvoiced(c, inv))
      PROVE  IInv'
  <2>1. inv \in NewInvoices(c, Renewal(row.paid)) /\ client[c] # None
    BY <1>5 DEF Billable
  <2>2. /\ FeeInvoiced(c, inv) \in [Clients -> ClientRow \cup {None}]
        /\ Shaped(Append(invoice, inv))
        /\ BooksAgree(Append(invoice, inv), FeeInvoiced(c, inv), byHand)
    BY <2>1, RaiseKeeps
  <2>3. /\ Len(invoice) + 1 \in DOMAIN Append(invoice, inv)
        /\ Append(invoice, inv)[Len(invoice) + 1].client = c
    BY <2>1, Appended, NewInvoiceIs DEF Shaped, Raisable
  <2> DEFINE raised  == Append(invoice, inv)
             billed  == FeeInvoiced(c, inv)
             targets == {Len(invoice) + 1}
  <2>4. \A i \in targets : i \in DOMAIN raised /\ raised[i].client = c
    BY <2>3
  <2>5. Collects(s, c, targets, raised, billed)
    BY <1>5
  <2> HIDE DEF new, c, raised, billed, targets
  <2>6. BooksInv' /\ client' \in [Clients -> ClientRow \cup {None}]
    BY <1>2, <2>2, <2>4, <2>5, Zenon DEF raised, billed
  <2> QED BY <1>1, <2>6, QuotesStay
<1> QED BY <1>3, <1>4, <1>5
\* Plans are written and the clock moves without touching client or invoice.
LEMMA CalmKeeps ==
  ASSUME IInv, UNCHANGED <<client, invoice, byHand, quote>>,
         \/ \E p \in Plans, row \in PlanEdits : WritePlan(p, row)
         \/ \E p \in Plans : DeletePlan(p)
         \/ RenewCheck
         \/ NewDay
  PROVE  IInv'
<1> USE DEF IInv, RegistryTyped
<1>1. BooksInv' /\ client' \in [Clients -> ClientRow \cup {None}] /\ QuotesTyped'
  BY BooksStay, QuotesStay
<1>2. CASE \E p \in Plans, row \in PlanEdits : WritePlan(p, row)
  <2>1. left' \in Budget
    BY <1>2, SpendKeeps DEF WritePlan
  <2> QED BY <1>1, <1>2, <2>1, OfficeAssumption DEF WritePlan
<1>3. CASE \E p \in Plans : DeletePlan(p)
  <2>1. left' \in Budget
    BY <1>3, SpendKeeps DEF DeletePlan
  <2> QED BY <1>1, <1>3, <2>1 DEF DeletePlan
<1>4. CASE RenewCheck
  <2>1. left' \in Budget
    BY <1>4, SpendKeeps DEF RenewCheck
  <2> QED BY <1>1, <1>4, <2>1 DEF RenewCheck
<1>5. CASE NewDay
  BY <1>1, <1>5 DEF NewDay
<1> QED BY <1>2, <1>3, <1>4, <1>5

LEMMA EditKeeps ==
  ASSUME IInv, NEW c \in Clients, NEW body \in EditBody, NEW edited, client[c] # None,
         Edit(c, body, edited), quote' = quote,
         \/ edited = EditedCompany(client[c], body)
         \/ edited = EditedClient(client[c], body)
  PROVE  IInv'
<1>1. /\ Spend("office") /\ UNCHANGED <<plan, invoice, today>>
      /\ client' = [client EXCEPT ![c] = edited]
      /\ byHand' = IF body.fee = Kept THEN byHand ELSE byHand \cup {c}
      /\ body.plan \in Assignable(client[c].plan)
      /\ LET to == Given(body.plan, client[c].plan)
         IN body.addons # Kept => MayHold(client[c], IF to = None THEN None ELSE plan[to], body.addons)
  BY DEF Edit
<1>2. client[c] \in ClientRow /\ RegistryTyped
  BY DEF IInv, RegistryTyped
<1>3. edited \in ClientRow /\ edited.fee = Given(body.fee, client[c].fee)
  BY <1>1, <1>2, EditedCompanyIs, EditedClientIs
<1>4. BooksInv' /\ client' \in [Clients -> ClientRow \cup {None}]
  BY <1>1, <1>3, ClientWritten DEF Given
<1> QED BY <1>1, <1>4, SpendKeeps, QuotesStay DEF IInv, RegistryTyped

LEMMA RowEditKeeps ==
  ASSUME IInv, NEW c \in Clients, quote' = quote,
         \/ Reprice(c) \/ SetAutoRenew(c) \/ \E n \in 0 .. MaxStores : StoresChange(c, n)
  PROVE  IInv'
<1> USE DEF IInv, RegistryTyped
<1>1. CASE Reprice(c)
  <2>1. /\ client[c] \in ClientRow /\ client[c] # None /\ PlanOf(c) \in PlanRow \cup {None}
        /\ client' = [client EXCEPT ![c] = Agreed(client[c], PlanOf(c))]
        /\ Spend("plans") /\ UNCHANGED <<plan, invoice, today, byHand>>
    BY <1>1 DEF Reprice, PlanOf, ClientRow
  <2>2. BooksInv' /\ client' \in [Clients -> ClientRow \cup {None}]
    BY <2>1, AgreedIs, ClientWritten
  <2> QED BY <2>1, <2>2, SpendKeeps, QuotesStay
<1>2. CASE SetAutoRenew(c)
  <2> DEFINE new == [client[c] EXCEPT !.auto = ~client[c].auto]
  <2>1. /\ client[c] \in ClientRow /\ client[c] # None
        /\ client' = [client EXCEPT ![c] = new]
        /\ Spend("office") /\ UNCHANGED <<plan, invoice, today, byHand>>
    BY <1>2 DEF SetAutoRenew
  <2>2. new \in ClientRow /\ new.fee = client[c].fee
    BY <2>1 DEF ClientRow
  <2> HIDE DEF new
  <2>3. BooksInv' /\ client' \in [Clients -> ClientRow \cup {None}]
    BY <2>1, <2>2, ClientWritten
  <2> QED BY <2>1, <2>3, SpendKeeps, QuotesStay
<1>3. CASE \E n \in 0 .. MaxStores : StoresChange(c, n)
  <2>1. PICK n \in 0 .. MaxStores : StoresChange(c, n)
    BY <1>3
  <2> DEFINE new == [client[c] EXCEPT !.stores = n]
  <2>2. /\ client[c] \in ClientRow /\ client[c] # None
        /\ client' = [client EXCEPT ![c] = new]
        /\ Spend("office") /\ UNCHANGED <<plan, invoice, today, byHand>>
    BY <2>1 DEF StoresChange
  <2>3. new \in ClientRow /\ new.fee = client[c].fee
    BY <2>2 DEF ClientRow
  <2> HIDE DEF new
  <2>4. BooksInv' /\ client' \in [Clients -> ClientRow \cup {None}]
    BY <2>2, <2>3, ClientWritten
  <2> QED BY <2>2, <2>4, SpendKeeps, QuotesStay
<1> QED BY <1>1, <1>2, <1>3

LEMMA BlankIs ==
  /\ BlankClient \in ClientRow /\ BlankClient.fee = "not_invoiced"
  /\ BlankClient.addons \in [Features -> Nat \cup {None, Unpriced}]
<1>1. 0 \in 0 .. MaxStores
  BY OfficeAssumption
<1> QED BY <1>1 DEF BlankClient, ClientRow, FeeStates

LEMMA CreateCompanyKeeps ==
  ASSUME IInv, NEW c \in Clients, NEW body \in NewClientBody, CreateCompany(c, body), quote' = quote
  PROVE  IInv'
<1> USE DEF IInv, RegistryTyped
<1> DEFINE p    == IF body.plan = None THEN None ELSE plan[body.plan]
           base == [BlankClient EXCEPT !.plan = body.plan, !.paid = body.paid, !.licensed = body.licensed]
           row  == Agreed(base, p)
           held == Holding(BlankClient, p, body.addons)
           setup == Given(body.setup, row.setup)
           full == [row EXCEPT !.addons = held, !.setup = setup]
           new  == IF MayHold(BlankClient, p, body.addons) THEN full ELSE row
<1>1. /\ client[c] = None /\ Spend("clients") /\ UNCHANGED <<plan, invoice, today>>
      /\ client' = [client EXCEPT ![c] = new]
      /\ byHand' = byHand \ {c}
  BY DEF CreateCompany
<1>2. p \in PlanRow \cup {None}
  BY DEF NewClientBody
<1>3. base \in ClientRow /\ base.fee = "not_invoiced"
  BY BlankIs DEF NewClientBody, ClientRow
<1>4. MayHold(BlankClient, p, body.addons) => held \in [Features -> Nat \cup {None, Unpriced}]
  BY <1>2, BlankIs, HoldingIs DEF NewClientBody
<1> HIDE DEF p, base, held
<1>5. row \in ClientRow /\ row.fee = "not_invoiced"
  BY <1>2, <1>3, AgreedIs
<1>6. setup \in Nat \cup {None}
  BY <1>5 DEF Given, NewClientBody, ClientRow
<1> HIDE DEF row, setup
<1>7. MayHold(BlankClient, p, body.addons) => full \in ClientRow /\ full.fee = "not_invoiced"
  BY <1>4, <1>5, <1>6 DEF ClientRow
<1>8. new \in ClientRow /\ new.fee = "not_invoiced"
  BY <1>5, <1>7
<1>9. InvoicesOf(c) = {}
  BY <1>1 DEF BooksInv, BooksAgree, Owned, InvoicesOf
<1> HIDE DEF new
<1>10. BooksInv' /\ client' \in [Clients -> ClientRow \cup {None}]
  BY <1>1, <1>8, <1>9, ClientComesOrGoes
<1> QED BY <1>1, <1>10, SpendKeeps, QuotesStay
\* A closed company leaves its quote on the desk, unlinked.
LEMMA CloseCompanyKeeps ==
  ASSUME IInv, NEW c \in Clients, CloseCompany(c)
  PROVE  IInv'
<1> USE DEF IInv, RegistryTyped
<1>1. /\ InvoicesOf(c) = {} /\ Spend("clients") /\ UNCHANGED <<plan, invoice, today, byHand>>
      /\ client' = [client EXCEPT ![c] = None]
      /\ quote' = Unlinked(c)
  BY DEF CloseCompany, DeleteCompany, Deletable
<1>2. BooksInv' /\ client' \in [Clients -> ClientRow \cup {None}]
  <2>1. None \in ClientRow \cup {None}
    OBVIOUS
  <2> QED BY <1>1, <2>1, ClientComesOrGoes
<1>3. QuotesTyped'
  <2>1. /\ quote' = [q \in Quotes |-> quote'[q]]
        /\ \A q \in Quotes : quote'[q] = quote[q] \/ (Live(q) /\ quote'[q] = [quote[q] EXCEPT !.company = None])
    BY <1>1 DEF Unlinked
  <2>2. ASSUME NEW q \in Quotes, Live(q)' PROVE Handable(quote'[q])
    <3>1. CASE quote'[q] = quote[q]
      BY <2>2, <3>1 DEF QuotesTyped, Live, Handable
    <3>2. CASE Live(q) /\ quote'[q] = [quote[q] EXCEPT !.company = None]
      <4>1. Handable(quote[q])
        BY <3>2 DEF QuotesTyped
      <4> QED BY <3>2, <4>1 DEF Handable
    <3> QED BY <2>1, <3>1, <3>2
  <2> QED BY <2>1, <2>2 DEF QuotesTyped, Handable
<1> QED BY <1>1, <1>2, <1>3, SpendKeeps

-----------------------------------------------------------------------------
(* The quote desk. *)

BodyRates ==
  [store : Nat \cup {None}, till : Nat \cup {None}, setup : Nat \cup {None},
   addons : Prices \cup {Kept}]

\* Whatever a request states of the rates, the row keeps rates.
LEMMA PricingIs ==
  ASSUME NEW row, row.rates \in Rates, NEW body, body.rates \in BodyRates
  PROVE  QuotePricingFrom(body, row).rates \in Rates
<1> QED BY DEF QuotePricingFrom, Rates, BodyRates, Or, Given

\* The forms and the requests state rates.
LEMMA BodiesState ==
  /\ \A body \in Configs \cup Corrections : body.rates \in BodyRates
  /\ Untouched.rates \in BodyRates
  /\ \A row : SendForm(row).rates \in BodyRates
  /\ \A row : row.rates \in Rates => EditForm(row).rates \in BodyRates
<1>1. \A body \in Configs \cup Corrections : body.rates \in BodyRates
  BY QuoteAssumption DEF ConfigBody, BodyRates
<1>2. Untouched.rates \in BodyRates
  BY DEF Untouched, BodyRates
<1>3. \A row : SendForm(row).rates = Untouched.rates
  BY DEF SendForm, Untouched
<1>4. \A row : EditForm(row).rates = row.rates
  BY DEF EditForm, SendForm, Untouched
<1>5. Rates \subseteq BodyRates
  BY DEF Rates, BodyRates
<1> QED BY <1>1, <1>2, <1>3, <1>4, <1>5

\* A configuration's figures on a row: fit for a client, the link as it was.
LEMMA RepricedIs ==
  ASSUME NEW row, DOMAIN row = DOMAIN BlankQuote, NEW config,
         {"stores", "tills", "addons", "split", "rates"} \subseteq DOMAIN config,
         config.rates \in Rates, Valid(config), NEW kept, kept.rates \in Rates
  PROVE  /\ Handable(Repriced(row, config, kept))
         /\ Repriced(row, config, kept).company = row.company
<1> DEFINE c == ResolveQuoteConfig(config)
           monthly == PriceQuote(config).monthly
           setup == PriceQuote(config).setup
           new == [row EXCEPT !.stores = c.stores, !.tills = c.tills, !.addons = c.addons,
                              !.split = c.split, !.basis = kept.basis, !.rates = kept.rates,
                              !.monthly = monthly, !.setup = setup]
<1>1. Repriced(row, config, kept) = new
  BY DEF Repriced
<1>2. c.rates = config.rates
  BY DEF ResolveQuoteConfig
<1>3. c.addons \subseteq Features
  BY DEF Valid, ValidQuoteConfig
<1>4. setup = Or(c.rates.setup, ListSetup)
  BY DEF PriceQuote
<1>5. setup \in Nat
  BY <1>2, <1>4, PriceAssumption DEF Or, Rates
<1> HIDE DEF c, monthly, setup
<1>6. {"rates", "setup", "addons", "company"} \subseteq DOMAIN row
  BY DEF BlankQuote
<1>7. /\ DOMAIN new = DOMAIN row /\ new.rates = kept.rates /\ new.setup = setup
      /\ new.addons = c.addons /\ new.company = row.company
  BY <1>6
<1> QED BY <1>1, <1>3, <1>5, <1>7 DEF Handable

LEMMA ConfigIs ==
  ASSUME NEW body, NEW row, NEW pricing
  PROVE  /\ ConfigFrom(body, row, pricing).rates = pricing.rates
         /\ {"stores", "tills", "addons", "split", "rates"}
              \subseteq DOMAIN ConfigFrom(body, row, pricing)
<1> QED BY DEF ConfigFrom

LEMMA ListIs ==
  /\ ListPricing.rates \in Rates /\ Handable(BlankQuote)
  /\ BlankQuote.rates \in Rates
<1> QED BY DEF ListPricing, ListRates, Rates, Prices, Handable, BlankQuote
\* No quote changes the client it is linked to.
LinksStay ==
  \A q \in Quotes :
    Live(q) /\ quote'[q] \notin {None, Gone} => quote'[q].company = quote[q].company

LEMMA QuoteWritten ==
  ASSUME QuotesTyped, NEW q \in Quotes, NEW new, quote' = [quote EXCEPT ![q] = new],
         new \notin {None, Gone} => Handable(new),
         Live(q) /\ new \notin {None, Gone} => new.company = quote[q].company
  PROVE  QuotesTyped' /\ LinksStay
<1>1. /\ quote' = [r \in Quotes |-> quote'[r]] /\ quote'[q] = new
      /\ \A r \in Quotes : r # q => quote'[r] = quote[r]
  BY DEF QuotesTyped
<1>2. ASSUME NEW r \in Quotes, quote'[r] \notin {None, Gone} PROVE Handable(quote'[r])
  BY <1>1, <1>2 DEF QuotesTyped, Live
<1> QED BY <1>1, <1>2 DEF QuotesTyped, Live, LinksStay, Handable

LEMMA FieldWritten ==
  ASSUME QuotesTyped, NEW q \in Quotes, NEW value, NEW field \in {"emailed", "status"},
         IF Live(q) THEN quote' = [quote EXCEPT ![q] = [quote[q] EXCEPT ![field] = value]]
         ELSE quote' = quote
  PROVE  QuotesTyped' /\ LinksStay
<1>1. CASE Live(q)
  <2>1. Handable(quote[q])
    BY <1>1 DEF QuotesTyped
  <2> DEFINE new == [quote[q] EXCEPT ![field] = value]
  <2>2. {"rates", "setup", "addons", "company"} \subseteq DOMAIN quote[q]
    BY <2>1 DEF Handable, BlankQuote
  <2>3. Handable(new) /\ new.company = quote[q].company
    BY <2>1, <2>2 DEF Handable
  <2>4. quote' = [quote EXCEPT ![q] = new]
    BY <1>1
  <2> HIDE DEF new
  <2> QED BY <2>3, <2>4, QuoteWritten
<1>2. CASE ~Live(q)
  BY <1>2, QuotesStay DEF LinksStay
<1> QED BY <1>1, <1>2

LEMMA DeskWrites ==
  ASSUME IInv, NEW q \in Quotes,
         \/ \E body \in Configs : Draft(q, body) \/ QuoteRequest(q, body)
         \/ Live(q) /\ \E body \in Corrections \cup {EditForm(quote[q])} : EditQuote(q, body)
         \/ Live(q) /\ \E body \in Corrections \cup {SendForm(quote[q]), Untouched} : Send(q, body)
  PROVE  QuotesTyped' /\ LinksStay
<1> USE DEF IInv
<1>1. ASSUME NEW body \in Configs, Draft(q, body) PROVE QuotesTyped' /\ LinksStay
  <2> DEFINE pricing == QuotePricingFrom(body, BlankQuote)
             config  == ConfigFrom(body, BlankQuote, pricing)
             new     == Repriced(BlankQuote, config, pricing)
  <2>1. ~Live(q) /\ Valid(config) /\ quote' = [quote EXCEPT ![q] = new]
    BY <1>1 DEF Draft, NextId, Live
  <2>2. pricing.rates \in Rates
    BY PricingIs, BodiesState, ListIs
  <2> HIDE DEF pricing
  <2>3. config.rates \in Rates /\ {"stores", "tills", "addons", "split", "rates"} \subseteq DOMAIN config
    BY <2>2, ConfigIs
  <2> HIDE DEF config
  <2>4. Handable(new)
    BY <2>1, <2>2, <2>3, RepricedIs
  <2> QED BY <2>1, <2>4, QuoteWritten
<1>2. ASSUME NEW body \in Configs, QuoteRequest(q, body) PROVE QuotesTyped' /\ LinksStay
  <2> DEFINE config == [ConfigFrom(body, BlankQuote, ListPricing) EXCEPT !.split = <<>>]
             base   == [BlankQuote EXCEPT !.source = "website"]
             new    == Repriced(base, config, ListPricing)
  <2>1. ~Live(q) /\ Valid(config) /\ quote' = [quote EXCEPT ![q] = new]
    BY <1>2 DEF QuoteRequest, NextId, Live
  <2>2. config.rates \in Rates /\ {"stores", "tills", "addons", "split", "rates"} \subseteq DOMAIN config
    BY ConfigIs, ListIs
  <2>3. DOMAIN base = DOMAIN BlankQuote
    OBVIOUS
  <2> HIDE DEF config, base
  <2>4. Handable(new)
    BY <2>1, <2>2, <2>3, ListIs, RepricedIs
  <2> QED BY <2>1, <2>4, QuoteWritten
<1>3. ASSUME Live(q), NEW body \in Corrections \cup {EditForm(quote[q])}, EditQuote(q, body)
      PROVE  QuotesTyped' /\ LinksStay
  <2> DEFINE pricing == QuotePricingFrom(body, quote[q])
             config  == ConfigFrom(body, quote[q], pricing)
             new     == Repriced(quote[q], config, ListPricing)
  <2>1. Valid(config) /\ quote' = [quote EXCEPT ![q] = new]
    BY <1>3 DEF EditQuote
  <2>2. Handable(quote[q])
    BY <1>3 DEF QuotesTyped
  <2>3. pricing.rates \in Rates
    BY <2>2, PricingIs, BodiesState DEF Handable
  <2> HIDE DEF pricing
  <2>4. config.rates \in Rates /\ {"stores", "tills", "addons", "split", "rates"} \subseteq DOMAIN config
    BY <2>3, ConfigIs
  <2> HIDE DEF config
  <2>5. Handable(new) /\ new.company = quote[q].company
    BY <2>1, <2>2, <2>4, ListIs, RepricedIs DEF Handable
  <2> QED BY <2>1, <2>5, QuoteWritten
<1>4. ASSUME Live(q), NEW body \in Corrections \cup {SendForm(quote[q]), Untouched}, Send(q, body)
      PROVE  QuotesTyped' /\ LinksStay
  <2> DEFINE config == ConfigFrom(body, quote[q], ListPricing)
             kept   == QuotePricingFrom(body, quote[q])
             new    == Repriced(quote[q], config, kept)
  <2>1. quote' = quote \/ (Valid(config) /\ quote' = [quote EXCEPT ![q] = new])
    BY <1>4 DEF Send
  <2>2. Handable(quote[q])
    BY <1>4 DEF QuotesTyped
  <2>3. kept.rates \in Rates
    BY <2>2, PricingIs, BodiesState DEF Handable
  <2>4. config.rates \in Rates /\ {"stores", "tills", "addons", "split", "rates"} \subseteq DOMAIN config
    BY ConfigIs, ListIs
  <2> HIDE DEF config, kept
  <2>5. Valid(config) => Handable(new) /\ new.company = quote[q].company
    BY <2>2, <2>3, <2>4, RepricedIs DEF Handable
  <2> QED BY <2>1, <2>5, QuoteWritten, QuotesStay DEF LinksStay
<1> QED BY <1>1, <1>2, <1>3, <1>4

LEMMA DeskMarks ==
  ASSUME IInv, NEW q \in Quotes,
         \/ RequestMailed(q) \/ Sent(q)
         \/ \E outcome \in {"accepted", "declined"} : Settle(q, outcome)
         \/ DeleteQuote(q)
  PROVE  QuotesTyped' /\ LinksStay
<1> USE DEF IInv
<1>1. CASE RequestMailed(q)
  <2>1. PICK ok \in BOOLEAN :
          quote' = IF Live(q) THEN [quote EXCEPT ![q].emailed = IF ok THEN "yes" ELSE "failed"] ELSE quote
    BY <1>1 DEF RequestMailed
  <2> QED BY <2>1, FieldWritten
<1>2. CASE Sent(q)
  <2>1. \/ quote' = quote
        \/ Live(q) /\ quote' = [quote EXCEPT ![q].status = "quoted"]
    BY <1>2 DEF Sent
  <2> QED BY <2>1, FieldWritten, QuotesStay DEF LinksStay
<1>3. ASSUME NEW outcome, Settle(q, outcome) PROVE QuotesTyped' /\ LinksStay
  BY <1>3, FieldWritten DEF Settle, Open
<1>4. CASE DeleteQuote(q)
  BY <1>4, QuoteWritten DEF DeleteQuote
<1> QED BY <1>1, <1>2, <1>3, <1>4
\* The links as the property has them: made where there was none, to a client that is
\* new, and gone only with the client.
LinkStep ==
  \A q \in Quotes :
    (Live(q) /\ quote'[q] \notin {None, Gone} /\ quote'[q].company # quote[q].company) =>
      IF quote[q].company = None THEN client[quote'[q].company] = None
      ELSE quote'[q].company = None /\ client'[quote[q].company] = None

\* An accepted quotation becomes a client on its own figures.
LEMMA CreateFromQuoteKeeps ==
  ASSUME IInv, NEW q \in Quotes, NEW c \in Clients, NEW planId \in Plans \cup {None},
         NEW licensed \in 1 .. MaxTills, CreateFromQuote(q, c, planId, licensed)
  PROVE  IInv' /\ LinkStep
<1> DEFINE p      == IF planId = None THEN None ELSE plan[planId]
           terms  == QuoteTerms(quote[q], p)
           setup  == quote[q].setup
           addons == [k \in Features |-> IF k \in quote[q].addons
                                         THEN QuoteAddonRate(quote[q].rates, k) ELSE None]
           new    == [BlankClient EXCEPT !.plan = planId, !.licensed = licensed, !.terms = terms,
                                         !.setup = setup, !.addons = addons]
<1> USE DEF IInv, RegistryTyped
<1>1. /\ Live(q) /\ quote[q].company = None
      /\ client[c] = None /\ Spend("desk") /\ UNCHANGED <<plan, invoice, today>>
      /\ client' = [client EXCEPT ![c] = new]
      /\ quote' = [quote EXCEPT ![q].company = c]
      /\ byHand' = byHand \ {c}
  BY DEF CreateFromQuote, Desk, Convertible
<1>2. Handable(quote[q])
  BY <1>1 DEF QuotesTyped
<1>3. p \in PlanRow \cup {None} /\ licensed \in Nat
  OBVIOUS
<1>4. terms \in Terms
  <2>1. /\ Or(quote[q].rates.store, ListStore) \in Nat
        /\ Or(quote[q].rates.till, ListTill) \in Nat
    BY <1>2, PriceAssumption DEF Or, Handable, Rates
  <2>2. (IF p = None THEN "monthly" ELSE p.period) \in Periods
    BY <1>3 DEF PlanRow, Periods
  <2> HIDE DEF p
  <2> QED BY <2>1, <2>2 DEF QuoteTerms, Terms, Modes
<1>5. setup \in Nat
  BY <1>2 DEF Handable
<1>6. addons \in [Features -> Nat \cup {None, Unpriced}]
  <2>1. \A k \in Features : QuoteAddonRate(quote[q].rates, k) \in Nat
    BY <1>2, PriceAssumption DEF QuoteAddonRate, Or, Handable, Rates, Prices
  <2> QED BY <2>1
<1> HIDE DEF p, terms, setup, addons
<1>7. new \in ClientRow /\ new.fee = "not_invoiced"
  BY <1>3, <1>4, <1>5, <1>6, BlankIs DEF ClientRow
<1>8. InvoicesOf(c) = {}
  BY <1>1 DEF BooksInv, BooksAgree, Owned, InvoicesOf
<1> HIDE DEF new
<1>9. BooksInv' /\ client' \in [Clients -> ClientRow \cup {None}]
  BY <1>1, <1>7, <1>8, ClientComesOrGoes
<1>10. /\ quote' = [r \in Quotes |-> quote'[r]]
       /\ \A r \in Quotes : r # q => quote'[r] = quote[r]
       /\ DOMAIN quote'[q] = DOMAIN quote[q] /\ quote'[q].company = c
       /\ quote'[q].rates = quote[q].rates /\ quote'[q].setup = quote[q].setup
       /\ quote'[q].addons = quote[q].addons
  <2>1. {"rates", "setup", "addons", "company"} \subseteq DOMAIN quote[q]
    BY <1>2 DEF Handable, BlankQuote
  <2>2. quote'[q] = [quote[q] EXCEPT !.company = c]
    BY <1>1 DEF QuotesTyped
  <2> QED BY <1>1, <2>1, <2>2 DEF QuotesTyped
<1>11. QuotesTyped'
  BY <1>2, <1>10 DEF QuotesTyped, Live, Handable
<1>12. LinkStep
  BY <1>1, <1>10 DEF LinkStep
<1> QED BY <1>1, <1>9, <1>11, <1>12, SpendKeeps

LEMMA DeskKeeps ==
  ASSUME IInv, NEW q \in Quotes, DeskOperation(q)
  PROVE  IInv' /\ LinkStep
<1> USE DEF IInv, RegistryTyped
<1>1. CASE \E c \in Clients, p \in Plans \cup {None}, n \in 1 .. MaxTills : CreateFromQuote(q, c, p, n)
  BY <1>1, CreateFromQuoteKeeps
<1>2. CASE \/ \E body \in Configs : Draft(q, body) \/ QuoteRequest(q, body)
           \/ Live(q) /\ \E body \in Corrections \cup {EditForm(quote[q])} : EditQuote(q, body)
           \/ Live(q) /\ \E body \in Corrections \cup {SendForm(quote[q]), Untouched} : Send(q, body)
  <2>1. QuotesTyped' /\ LinksStay
    BY <1>2, DeskWrites
  <2>2. Desk /\ Registry
    BY <1>2 DEF Draft, QuoteRequest, EditQuote, Send
  <2>3. UNCHANGED <<plan, client, invoice, today, byHand>> /\ left' \in Budget
    BY <2>2, SpendKeeps DEF Desk, Registry
  <2> QED BY <2>1, <2>3, BooksStay DEF LinkStep, LinksStay
<1>3. CASE \/ RequestMailed(q) \/ Sent(q)
           \/ \E outcome \in {"accepted", "declined"} : Settle(q, outcome)
           \/ DeleteQuote(q)
  <2>1. QuotesTyped' /\ LinksStay
    BY <1>3, DeskMarks
  <2>2. UNCHANGED billing \/ (Desk /\ Registry)
    BY <1>3 DEF RequestMailed, Sent, Settle, DeleteQuote
  <2>3. UNCHANGED <<plan, client, invoice, today, byHand>> /\ left' \in Budget
    BY <2>2, SpendKeeps DEF Desk, Registry, billing
  <2> QED BY <2>1, <2>3, BooksStay DEF LinkStep, LinksStay
<1> QED BY <1>1, <1>2, <1>3 DEF DeskOperation

LEMMA RestartKeeps ==
  ASSUME IInv, Restart
  PROVE  IInv'
<1>1. Spend("crashes") /\ UNCHANGED <<plan, client, invoice, today, byHand, quote>>
  BY DEF Restart
<1> QED BY <1>1, SpendKeeps, QuotesStay, BooksStay DEF IInv, RegistryTyped

-----------------------------------------------------------------------------
(* The invariant. *)

LEMMA InitIInv == Init => IInv
<1> SUFFICES ASSUME Init PROVE IInv
  OBVIOUS
<1>1. PICK s \in Scenarios :
        /\ plan = s.plan /\ client = s.client /\ invoice = s.invoice /\ left = s.left
        /\ today = 1 /\ byHand = s.hand
  BY DEF Init, BillingInit
<1>2. RegistryTyped
  BY <1>1, ScenarioAssumption DEF RegistryTyped
<1>3. QuotesTyped
  BY DEF Init, QuotesTyped, Live
<1>4. Shaped(invoice)
  <2>1. invoice \in Seq(InvoiceRow)
    BY <1>1, ScenarioAssumption
  <2>2. \A i \in DOMAIN invoice : invoice[i] \in InvoiceRow
    BY <2>1
  <2>3. \A r \in InvoiceRow : InvoiceFields \subseteq DOMAIN r
    BY DEF InvoiceRow, InvoiceFields
  <2> QED BY <2>1, <2>2, <2>3, OwnRange DEF Shaped
<1>5. BooksAgree(invoice, client, byHand)
  BY <1>1, ScenarioAssumption
<1> QED BY <1>2, <1>3, <1>4, <1>5 DEF IInv, BooksInv

LEMMA NextIInv ==
  ASSUME IInv, [Next]_vars
  PROVE  IInv'
<1>1. CASE UNCHANGED vars
  BY <1>1, BooksStay, QuotesStay DEF vars, billing, IInv, RegistryTyped
<1>2. CASE \E c \in Clients, body \in InvoiceBodies : RaiseInvoice(c, body) /\ Beside
  BY <1>2, RaiseInvoiceKeeps
<1>3. CASE \E i \in DOMAIN invoice : Cancel(i) /\ Beside
  BY <1>3, CancelKeeps
<1>4. CASE \E i \in DOMAIN invoice : Pay(i) /\ Beside
  BY <1>4, PayKeeps
<1>5. CASE Tick /\ Beside
  BY <1>5, TickKeeps
<1>6. CASE \E s \in Sweepers : SweepClient(s) /\ Beside
  BY <1>6, SweepKeeps
<1>7. CASE \/ RenewCheck /\ Beside
           \/ \E p \in Plans, row \in PlanEdits : WritePlan(p, row) /\ Beside
           \/ \E p \in Plans : DeletePlan(p) /\ Beside
           \/ NewDay /\ Beside
  <2>1. UNCHANGED <<client, invoice, byHand, quote>>
    BY <1>7 DEF RenewCheck, WritePlan, DeletePlan, NewDay, Beside
  <2> QED BY <1>7, <2>1, CalmKeeps
<1>8. ASSUME NEW c \in Clients, EditCompany(c) \/ EditClient(c), Beside PROVE IInv'
  <2>1. /\ client[c] # None
        /\ \E body \in EditBody : \/ Edit(c, body, EditedCompany(client[c], body))
                                  \/ Edit(c, body, EditedClient(client[c], body))
    BY <1>8, OfficeAssumption DEF EditCompany, EditClient
  <2> QED BY <1>8, <2>1, EditKeeps DEF Beside
<1>9. ASSUME NEW c \in Clients, Beside,
             \/ Reprice(c) \/ SetAutoRenew(c) \/ \E n \in 0 .. MaxStores : StoresChange(c, n)
      PROVE IInv'
  BY <1>9, RowEditKeeps DEF Beside
<1>10. CASE \E c \in Clients, body \in NewClients : CreateCompany(c, body) /\ Beside
  BY <1>10, CreateCompanyKeeps, OfficeAssumption DEF Beside
<1>11. CASE \E q \in Quotes : DeskOperation(q)
  BY <1>11, DeskKeeps
<1>12. CASE \E c \in Clients : CloseCompany(c)
  BY <1>12, CloseCompanyKeeps
<1>13. CASE CutShort
  BY <1>13, RaiseCutShortKeeps DEF CutShort
<1>14. CASE Restart
  BY <1>14, RestartKeeps
<1> QED BY <1>1, <1>2, <1>3, <1>4, <1>5, <1>6, <1>7, <1>8, <1>9, <1>10, <1>11, <1>12, <1>13, <1>14 DEF Next

\* The registry's rows stay rows of their tables, and the books agree with the clients,
\* whatever the office, the sweep, the quote desk and restarts do in whatever order.
THEOREM Invariance == Spec => []IInv
<1>1. Spec => [][Next]_vars /\ Init
  BY PTL DEF Spec
<1> QED BY <1>1, InitIInv, NextIInv, PTL

\* Nothing is charged twice: the setup charge is on one standing invoice at most, whose
\* state it follows, and the days of a paid period are pro-rated once.
THEOREM NothingTwice == Spec => []ChargedOnce
<1>1. IInv => ChargedOnce
  <2> SUFFICES ASSUME IInv PROVE ChargedOnce
    OBVIOUS
  <2> USE DEF IInv, BooksInv, BooksAgree
  <2>1. ProRataOnce
    BY DEF ProRataOnce, ProRatedOnce
  <2>2. ASSUME NEW c \in Clients \ byHand, client[c] # None
        PROVE  LET carry == CarryFee(Standing(c)) IN
               /\ Cardinality(carry) <= 1
               /\ client[c].fee = "not_invoiced" <=> carry = {}
               /\ client[c].fee = "paid" <=> \E i \in carry : invoice[i].status = "paid"
    <3>1. CarryFee(Standing(c)) = Carriers(invoice, c)
      BY DEF Carriers, CarryFee, Standing, InvoicesOf
    <3>2. OneCarrier(invoice, c, client[c].fee)
      BY <2>2
    <3>3. ASSUME NEW i \in Carriers(invoice, c) PROVE Carriers(invoice, c) = {i}
      BY <3>2, <3>3 DEF OneCarrier
    <3>4. Cardinality(Carriers(invoice, c)) <= 1
      <4>1. CASE Carriers(invoice, c) = {}
        BY <4>1, FS_EmptySet
      <4>2. CASE Carriers(invoice, c) # {}
        <5>1. PICK i : Carriers(invoice, c) = {i}
          BY <3>3, <4>2
        <5>2. Cardinality({i}) = 1
          BY FS_Singleton
        <5> QED BY <5>1, <5>2
      <4> QED BY <4>1, <4>2
    <3> QED BY <3>1, <3>2, <3>4 DEF OneCarrier
  <2> QED BY <2>1, <2>2 DEF ChargedOnce, FeeOnOneInvoice
<1> QED BY <1>1, Invariance, PTL
-----------------------------------------------------------------------------
(* Paid periods. *)

PaidStays ==
  \A c \in Clients : client[c] # None /\ client'[c] # None => client'[c].paid = client[c].paid

\* A paid period moves as the property has it.
PeriodStep ==
  \A c \in Clients :
    (client[c] # None /\ client'[c] # None /\ client'[c].paid # client[c].paid) =>
      \/ left'.office < left.office
      \/ \E i \in NowPaid :
           /\ NowPaid = {i} /\ invoice'[i].client = c
           /\ invoice'[i].purpose \in {"initial", "renewal"}
           /\ invoice'[i].payments = 1

LEMMA RowStays ==
  ASSUME client \in [Clients -> ClientRow \cup {None}], NEW c, NEW row,
         client' = [client EXCEPT ![c] = row],
         c \in Clients => client[c] = None \/ row = None \/ row.paid = client[c].paid
  PROVE  PaidStays
<1> QED BY DEF PaidStays

\* Settling an invoice of the table, or one raised with it, is the step's one settlement.
LEMMA SettlingMoves ==
  ASSUME today \in Nat, client \in [Clients -> ClientRow \cup {None}],
         NEW raised, Shaped(raised), PaidOnce(raised), DOMAIN invoice \subseteq DOMAIN raised,
         \A j \in DOMAIN invoice : raised[j] = invoice[j],
         \A j \in DOMAIN raised \ DOMAIN invoice : raised[j].status # "paid",
         NEW billed \in [Clients -> ClientRow \cup {None}],
         \A d \in Clients : (client[d] = None <=> billed[d] = None)
                            /\ (client[d] # None => billed[d].paid = client[d].paid),
         NEW i \in DOMAIN raised, Payable(raised[i]), NEW period, NEW c, c = raised[i].client,
         invoice' = [raised EXCEPT ![i] = SettledInvoice(@)],
         client' = [billed EXCEPT ![c] = SettledClient(@, raised[i], period)]
  PROVE  PeriodStep
<1> DEFINE new == SettledInvoice(raised[i])
           row == SettledClient(billed[c], raised[i], period)
<1>1. /\ InvoiceFields \subseteq DOMAIN raised[i]
      /\ raised[i].status \notin {"paid", "cancelled"} /\ raised[i].payments = 0
  BY DEF Shaped, Payable, PaidOnce
<1>2. /\ new.status = "paid" /\ new.client = c /\ new.purpose = raised[i].purpose
      /\ new.payments = 1
  BY <1>1 DEF SettledInvoice, InvoiceFields
<1>3. /\ DOMAIN invoice' = DOMAIN raised /\ invoice'[i] = new
      /\ \A j \in DOMAIN raised : j # i => invoice'[j] = raised[j]
  BY DEF Shaped
<1> HIDE DEF new
<1>4. NowPaid = {i}
  BY <1>1, <1>2, <1>3 DEF NowPaid
<1>5. SUFFICES ASSUME NEW d \in Clients, client[d] # None, client'[d] # None,
                      client'[d].paid # client[d].paid
               PROVE  /\ invoice'[i].client = d
                      /\ invoice'[i].purpose \in {"initial", "renewal"}
                      /\ invoice'[i].payments = 1
  BY <1>4 DEF PeriodStep
<1>6. d = c
  BY <1>5
<1>7. billed[d] \in ClientRow /\ client'[d] = row
  BY <1>5, <1>6
<1>8. Advances(raised[i])
  BY <1>5, <1>6, <1>7, SettledRow
<1> QED BY <1>2, <1>3, <1>6, <1>8 DEF Advances

LEMMA PaySettles ==
  ASSUME IInv, NEW i \in DOMAIN invoice, Pay(i)
  PROVE  PeriodStep
<1>1. /\ Payable(invoice[i])
      /\ invoice' = [invoice EXCEPT ![i] = SettledInvoice(@)]
      /\ client' = [client EXCEPT ![invoice[i].client] =
                      SettledClient(@, invoice[i], BillingPeriodOf(invoice[i].client))]
  BY DEF Pay
<1> QED BY <1>1, SettlingMoves DEF IInv, BooksInv, RegistryTyped, BooksAgree

LEMMA SweepSettles ==
  ASSUME IInv, NEW s \in Sweepers, SweepClient(s)
  PROVE  PeriodStep
<1> USE DEF IInv, BooksInv, RegistryTyped
<1>1. ASSUME NEW c, NEW targets, NEW raised, NEW billed \in [Clients -> ClientRow \cup {None}],
             Shaped(raised), PaidOnce(raised), DOMAIN invoice \subseteq DOMAIN raised,
             \A j \in DOMAIN invoice : raised[j] = invoice[j],
             \A j \in DOMAIN raised \ DOMAIN invoice : raised[j].status # "paid",
             \A d \in Clients : (client[d] = None <=> billed[d] = None)
                                /\ (client[d] # None => billed[d].paid = client[d].paid),
             \A i \in targets : i \in DOMAIN raised /\ raised[i].client = c,
             Collects(s, c, targets, raised, billed)
      PROVE  PeriodStep
  <2>1. CASE client' = billed
    BY <1>1, <2>1 DEF PeriodStep
  <2>2. CASE \E i \in targets :
               /\ Payable(raised[i])
               /\ invoice' = [raised EXCEPT ![i] = SettledInvoice(@)]
               /\ client' = [billed EXCEPT ![c] = SettledClient(@, raised[i], BillingPeriodOf(c))]
    <3>1. PICK i \in targets :
               /\ Payable(raised[i])
               /\ invoice' = [raised EXCEPT ![i] = SettledInvoice(@)]
               /\ client' = [billed EXCEPT ![c] = SettledClient(@, raised[i], BillingPeriodOf(c))]
      BY <2>2
    <3>2. i \in DOMAIN raised /\ raised[i].client = c
      BY <1>1
    <3> QED BY <1>1, <3>1, <3>2, SettlingMoves
  <2> QED BY <1>1, <2>1, <2>2 DEF Collects
<1> DEFINE row == Head(sweep[s].todo)
           c   == row.c
           due == Billable(c, plan[row.plan]) /\ IsDue(row.paid)
           new == IF due /\ Awaiting(c) = {} THEN NewInvoices(c, Renewal(row.paid)) ELSE {}
           newest == {i \in Awaiting(c) : due /\ \A j \in Awaiting(c) : j <= i}
<1>2. \/ Collects(s, c, newest, invoice, client)
      \/ \E inv \in new : Collects(s, c, {Len(invoice) + 1}, Append(invoice, inv), FeeInvoiced(c, inv))
  BY Zenon DEF SweepClient
<1>3. CASE Collects(s, c, newest, invoice, client)
  <2>1. \A i \in newest : i \in DOMAIN invoice /\ invoice[i].client = c
    BY DEF Awaiting, InvoicesOf
  <2> HIDE DEF newest, c
  <2> QED BY <1>1, <1>3, <2>1 DEF BooksAgree
<1>4. ASSUME NEW inv \in new,
             Collects(s, c, {Len(invoice) + 1}, Append(invoice, inv), FeeInvoiced(c, inv))
      PROVE  PeriodStep
  <2> DEFINE raised  == Append(invoice, inv)
             billed  == FeeInvoiced(c, inv)
             targets == {Len(invoice) + 1}
  <2>1. inv \in NewInvoices(c, Renewal(row.paid)) /\ client[c] # None
    BY <1>4 DEF Billable
  <2>2. billed \in [Clients -> ClientRow \cup {None}] /\ Shaped(raised) /\ PaidOnce(raised)
    BY <2>1, RaiseKeeps DEF BooksAgree
  <2>3. /\ DOMAIN raised = DOMAIN invoice \cup {Len(invoice) + 1}
        /\ \A j \in DOMAIN invoice : raised[j] = invoice[j]
        /\ raised[Len(invoice) + 1] = inv /\ inv.client = c /\ inv.status = "pending"
    BY <2>1, Appended, NewInvoiceIs DEF Shaped, Raisable
  <2>4. \A d \in Clients : (client[d] = None <=> billed[d] = None)
                           /\ (client[d] # None => billed[d].paid = client[d].paid)
    <3>1. ASSUME NEW d \in Clients, client[d] # None
          PROVE  billed[d] # None /\ billed[d].paid = client[d].paid
      <4> DEFINE fee == IF Or(inv.fee, 0) > 0 THEN "invoiced" ELSE client[c].fee
      <4>1. client[d] \in ClientRow /\ (fee \in FeeStates \/ c # d)
        BY <3>1 DEF ClientRow, FeeStates
      <4>2. billed = [client EXCEPT ![c].fee = fee]
        BY DEF FeeInvoiced
      <4> HIDE DEF fee, billed, c
      <4>3. CASE d # c
        BY <3>1, <4>2, <4>3
      <4>4. CASE d = c
        <5>1. billed[d] = [client[d] EXCEPT !.fee = fee]
          BY <4>2, <4>4
        <5>2. [client[d] EXCEPT !.fee = fee] \in ClientRow
              /\ [client[d] EXCEPT !.fee = fee].paid = client[d].paid
          BY <4>1, <4>4 DEF ClientRow
        <5> QED BY <5>1, <5>2, OfficeAssumption
      <4> QED BY <4>3, <4>4
    <3>2. ASSUME NEW d \in Clients, client[d] = None PROVE billed[d] = None
      BY <2>1, <3>2 DEF FeeInvoiced
    <3> QED BY <3>1, <3>2
  <2>5. Collects(s, c, targets, raised, billed)
    BY <1>4
  <2>6. \A i \in targets : i \in DOMAIN raised /\ raised[i].client = c
    BY <2>3
  <2>7. /\ DOMAIN invoice \subseteq DOMAIN raised
        /\ \A j \in DOMAIN raised \ DOMAIN invoice : raised[j].status # "paid"
    BY <2>3
  <2> HIDE DEF new, c, raised, billed, targets
  <2>8. \A j \in DOMAIN invoice : raised[j] = invoice[j]
    BY <2>3
  <2> QED BY <1>1, <2>2, <2>4, <2>5, <2>6, <2>7, <2>8
<1> QED BY <1>2, <1>3, <1>4
LEMMA NextSettles ==
  ASSUME IInv, [Next]_vars
  PROVE  PeriodStep
<1> USE DEF IInv, RegistryTyped
<1>1. PaidStays => PeriodStep
  BY DEF PaidStays, PeriodStep
<1>2. client' = client => PaidStays
  BY DEF PaidStays
<1>3. CASE UNCHANGED vars
  BY <1>1, <1>2, <1>3 DEF vars, billing
<1>4. ASSUME NEW c \in Clients, NEW body, RaiseInvoice(c, body) PROVE PaidStays
  <2>1. PICK inv : client' = FeeInvoiced(c, inv)
    BY <1>4 DEF RaiseInvoice
  <2> DEFINE fee == IF Or(inv.fee, 0) > 0 THEN "invoiced" ELSE client[c].fee
  <2>2. client[c] \in ClientRow /\ fee \in FeeStates
    BY <1>4 DEF RaiseInvoice, ClientRow, FeeStates
  <2>3. client' = [client EXCEPT ![c] = [client[c] EXCEPT !.fee = fee]]
    BY <2>1 DEF FeeInvoiced
  <2> HIDE DEF fee
  <2>4. [client[c] EXCEPT !.fee = fee].paid = client[c].paid
    BY <2>2 DEF ClientRow
  <2> QED BY <2>3, <2>4, RowStays
<1>5. ASSUME NEW i \in DOMAIN invoice, Cancel(i) PROVE PaidStays
  <2> DEFINE c   == invoice[i].client
             fee == IF Releases(i) THEN "not_invoiced" ELSE client[c].fee
  <2>1. client' = [client EXCEPT ![c] = [client[c] EXCEPT !.fee = fee]]
    BY <1>5 DEF Cancel
  <2> HIDE DEF fee, c
  <2>2. client[c] \in ClientRow => [client[c] EXCEPT !.fee = fee].paid = client[c].paid
    BY DEF ClientRow
  <2> QED BY <2>1, <2>2, RowStays
<1>6. ASSUME NEW i \in DOMAIN invoice, Pay(i) PROVE PeriodStep
  BY <1>6, PaySettles
<1>7. ASSUME NEW s \in Sweepers, SweepClient(s) PROVE PeriodStep
  BY <1>7, SweepSettles
<1>8. ASSUME NEW c \in Clients, EditCompany(c) \/ EditClient(c) PROVE PeriodStep
  <2>1. Spend("office")
    BY <1>8 DEF EditCompany, EditClient, Edit
  <2> QED BY <2>1, SpendKeeps DEF PeriodStep
<1>9. ASSUME NEW c \in Clients, Reprice(c) PROVE PaidStays
  <2>1. /\ client[c] \in ClientRow /\ PlanOf(c) \in PlanRow \cup {None}
        /\ client' = [client EXCEPT ![c] = Agreed(client[c], PlanOf(c))]
    BY <1>9 DEF Reprice, PlanOf, ClientRow
  <2> QED BY <2>1, AgreedIs, RowStays
<1>10. ASSUME NEW c \in Clients, SetAutoRenew(c) \/ \E n \in 0 .. MaxStores : StoresChange(c, n)
       PROVE  PeriodStep
  <2>1. Spend("office")
    BY <1>10 DEF SetAutoRenew, StoresChange
  <2> QED BY <2>1, SpendKeeps DEF PeriodStep
<1>11. ASSUME NEW c \in Clients, NEW body, CreateCompany(c, body) PROVE PaidStays
  <2>1. PICK row : client' = [client EXCEPT ![c] = row]
    BY <1>11 DEF CreateCompany
  <2>2. client[c] = None
    BY <1>11 DEF CreateCompany
  <2> QED BY <2>1, <2>2, RowStays
<1>12. ASSUME NEW q \in Quotes, DeskOperation(q) PROVE PaidStays
  <2>1. CASE \E c \in Clients, p \in Plans \cup {None}, n \in 1 .. MaxTills : CreateFromQuote(q, c, p, n)
    <3>1. PICK c \in Clients, p \in Plans \cup {None}, n \in 1 .. MaxTills : CreateFromQuote(q, c, p, n)
      BY <2>1
    <3>2. client[c] = None /\ \E row : client' = [client EXCEPT ![c] = row]
      BY <3>1 DEF CreateFromQuote
    <3> QED BY <3>2, RowStays
  <2>2. CASE \/ \E body \in Configs : Draft(q, body) \/ QuoteRequest(q, body)
             \/ RequestMailed(q) \/ Sent(q)
             \/ \E body : EditQuote(q, body) \/ Send(q, body)
             \/ \E outcome : Settle(q, outcome)
             \/ DeleteQuote(q)
    <3>1. client' = client
      BY <2>2 DEF Draft, QuoteRequest, RequestMailed, Sent, EditQuote, Send, Settle, DeleteQuote,
                  Registry, billing
    <3> QED BY <1>2, <3>1
  <2> QED BY <1>12, <2>1, <2>2 DEF DeskOperation
<1>13. ASSUME NEW c \in Clients, CloseCompany(c) PROVE PaidStays
  BY <1>13, RowStays DEF CloseCompany, DeleteCompany
<1>14. CASE \/ Tick \/ RenewCheck \/ NewDay \/ CutShort \/ Restart
            \/ \E p \in Plans, row \in PlanEdits : WritePlan(p, row)
            \/ \E p \in Plans : DeletePlan(p)
  <2>1. client' = client
    BY <1>14 DEF Tick, RenewCheck, NewDay, CutShort, RaiseCutShort, Restart, WritePlan, DeletePlan
  <2> QED BY <1>1, <1>2, <2>1
<1> QED BY <1>1, <1>3, <1>4, <1>5, <1>6, <1>7, <1>8, <1>9, <1>10, <1>11, <1>12, <1>13, <1>14 DEF Next

\* A paid period moves by the office's own hand, or by exactly one payment of one
\* subscription invoice of that client, whichever request or sweep settles it.
THEOREM PeriodsAreSettled == Spec => PeriodsSettled
<1>1. IInv /\ [Next]_vars => [PeriodStep]_billing
  BY NextSettles
<1>2. [PeriodStep]_billing <=>
        [\A c \in Clients :
           (client[c] # None /\ client'[c] # None /\ client'[c].paid # client[c].paid) =>
             \/ left'.office < left.office
             \/ \E i \in NowPaid :
                  /\ NowPaid = {i} /\ invoice'[i].client = c
                  /\ invoice'[i].purpose \in {"initial", "renewal"}
                  /\ invoice'[i].payments = 1]_billing
  BY DEF PeriodStep
<1>3. Spec => [][Next]_vars
  BY PTL DEF Spec
<1> QED BY <1>1, <1>2, <1>3, Invariance, PTL DEF PeriodsSettled

-----------------------------------------------------------------------------
(* Links. *)

LEMMA NextLinks ==
  ASSUME IInv, [Next]_vars
  PROVE  LinkStep
<1>1. quote' = quote => LinkStep
  BY DEF LinkStep
<1>2. CASE \E q \in Quotes : DeskOperation(q)
  BY <1>2, DeskKeeps
<1>3. CASE \E c \in Clients : CloseCompany(c)
  <2>1. PICK c \in Clients : CloseCompany(c)
    BY <1>3
  <2>2. client'[c] = None /\ quote' = Unlinked(c)
    BY <2>1 DEF CloseCompany, DeleteCompany, IInv, RegistryTyped
  <2>3. ASSUME NEW q \in Quotes, Live(q), quote'[q].company # quote[q].company
        PROVE  quote[q].company = c /\ quote'[q].company = None
    <3>1. "company" \in DOMAIN quote[q]
      BY <2>3 DEF IInv, QuotesTyped, Handable, BlankQuote
    <3> QED BY <2>2, <2>3, <3>1 DEF Unlinked
  <2> QED BY <2>2, <2>3 DEF LinkStep
<1>4. CASE CutShort \/ Restart \/ UNCHANGED vars
  BY <1>1, <1>4 DEF CutShort, Restart, vars
<1>5. CASE quote' = quote
  BY <1>1, <1>5
<1> QED BY <1>2, <1>3, <1>4, <1>5 DEF Next, Beside

\* One quote, one client: a link is made where there was none, to a client created with
\* it, and leaves only with that client.
THEOREM OneClientPerQuote == Spec => LinkedOnce
<1>1. IInv /\ [Next]_vars => [LinkStep]_vars
  BY NextLinks
<1>2. Spec => [][Next]_vars
  BY PTL DEF Spec
<1> QED BY <1>1, <1>2, Invariance, PTL DEF LinkedOnce, LinkStep

-----------------------------------------------------------------------------
(* An even split. *)

LEMMA Division ==
  ASSUME NEW total \in Nat, NEW stores \in Nat \ {0}
  PROVE  /\ total \div stores \in Nat /\ total % stores \in Nat /\ total % stores < stores
         /\ total = stores * (total \div stores) + (total % stores)
BY SMT

\* The tills of the first n branches.
LEMMA EvenSplitUpTo ==
  ASSUME NEW total \in Nat, NEW stores \in Nat \ {0}, NEW n \in 0 .. stores
  PROVE  SumFunctionOnSet(EvenSplit(total, stores), 1 .. n)
           = n * (total \div stores) + IF n <= total % stores THEN n ELSE total % stores
<1> DEFINE split == EvenSplit(total, stores)
           q == total \div stores
           r == total % stores
           first(m) == SumFunctionOnSet(split, 1 .. m)
           bad == {m \in 0 .. stores : first(m) # m * q + IF m <= r THEN m ELSE r}
<1>1. q \in Nat /\ r \in Nat
  BY Division
<1>2. \A i \in 1 .. stores : split[i] = q + (IF i <= r THEN 1 ELSE 0) /\ split[i] \in Nat
  BY <1>1 DEF EvenSplit
<1> HIDE DEF split, q, r
<1>3. ASSUME bad # {} PROVE FALSE
  <2>1. bad \in SUBSET Nat
    OBVIOUS
  <2>2. PICK m \in bad : \A k \in bad : m <= k
    BY <1>3, <2>1, LeastMember
  <2>3. m \in 0 .. stores /\ first(m) # m * q + IF m <= r THEN m ELSE r
    OBVIOUS
  <2>4. CASE m = 0
    <3>1. 1 .. 0 = {}
      OBVIOUS
    <3>2. first(0) = 0
      BY <3>1, SumOfNone
    <3> HIDE DEF first
    <3> QED BY <1>1, <2>3, <2>4, <3>2
  <2>5. CASE m > 0
    <3>1. m - 1 \in 0 .. stores /\ m - 1 \notin bad
      <4>1. m - 1 \in 0 .. stores /\ ~(m <= m - 1)
        BY <2>3, <2>5
      <4> HIDE DEF bad
      <4> QED BY <2>2, <4>1
    <3>2. first(m - 1) = (m - 1) * q + IF m - 1 <= r THEN m - 1 ELSE r
      BY <3>1
    <3>3. m \in Nat \ {0} /\ m \in 1 .. stores /\ \A i \in 1 .. m : split[i] \in Nat
      BY <1>2, <2>3, <2>5
    <3>4. first(m) = first(m - 1) + split[m]
      BY <3>3, SumUpTo
    <3>5. split[m] = q + (IF m <= r THEN 1 ELSE 0)
      BY <1>2, <3>3
    <3>6. (m - 1) * q + q = m * q /\ m * q \in Nat /\ (m - 1) * q \in Nat
      BY <1>1, <3>3, Z3
    <3> HIDE DEF first
    <3> DEFINE a == m * q
               b == (m - 1) * q
    <3>7. a = b + q /\ a \in Nat /\ b \in Nat
      BY <1>1, <3>6
    <3>8. /\ first(m) # a + IF m <= r THEN m ELSE r
          /\ first(m - 1) = b + IF m - 1 <= r THEN m - 1 ELSE r
      BY <2>3, <3>2
    <3> HIDE DEF a, b
    <3> QED BY <1>1, <3>3, <3>4, <3>5, <3>7, <3>8
  <2> QED BY <2>3, <2>4, <2>5
<1>4. bad = {}
  BY <1>3, Zenon
<1>5. n \notin bad
  <2> HIDE DEF bad
  <2> QED BY <1>4
<1>6. first(n) = n * q + IF n <= r THEN n ELSE r
  BY <1>5
<1> QED BY <1>6 DEF split, q, r

\* Every branch gets a till where there are enough, and all are placed.
LEMMA EvenSplitFits ==
  ASSUME NEW total \in Nat, NEW stores \in Nat \ {0}, total >= stores
  PROVE  /\ EvenSplit(total, stores) \in Seq(Nat) /\ Len(EvenSplit(total, stores)) = stores
         /\ \A i \in DOMAIN EvenSplit(total, stores) : EvenSplit(total, stores)[i] >= 1
         /\ SumOf(EvenSplit(total, stores)) = total
<1> DEFINE split == EvenSplit(total, stores)
           q == total \div stores
           r == total % stores
<1>1. q \in Nat /\ r \in Nat /\ r < stores /\ total = stores * q + r
  BY Division
<1>2. q >= 1
  BY <1>1, Z3
<1>3. split = [i \in 1 .. stores |-> q + IF i <= r THEN 1 ELSE 0]
  BY DEF EvenSplit
<1>4. SumFunctionOnSet(split, 1 .. stores) = stores * q + IF stores <= r THEN stores ELSE r
  <2>1. stores \in 0 .. stores
    OBVIOUS
  <2> QED BY <2>1, EvenSplitUpTo
<1>5. SumFunctionOnSet(split, 1 .. stores) = total
  BY <1>1, <1>4
<1> HIDE DEF q, r
<1>6. split \in Seq(Nat) /\ Len(split) = stores /\ \A i \in 1 .. stores : split[i] >= 1
  BY <1>1, <1>2, <1>3
<1>7. DOMAIN split = 1 .. stores
  BY <1>6
<1> HIDE DEF split
<1>8. SumOf(split) = SumFunctionOnSet(split, 1 .. Len(split))
  BY <1>6, SumOfSeq
<1> QED BY <1>5, <1>6, <1>7, <1>8 DEF split

-----------------------------------------------------------------------------
(* What a subscription costs. *)

LEMMA Times ==
  ASSUME NEW a \in Nat, NEW b \in Nat
  PROVE  a * b \in Nat
BY SMT

\* A formula has a figure; a deal of the office's own, one above nothing or none.
LEMMA RecurringIs ==
  ASSUME NEW terms \in Terms, NEW licensed \in Nat, NEW stores \in Nat
  PROVE  /\ terms.mode # "custom" => RecurringAmount(terms, licensed, stores) \in Nat
         /\ terms.mode = "custom" => RecurringAmount(terms, licensed, stores) \in Nat \cup {None}
<1>1. terms.store \in Nat /\ terms.till \in Nat /\ terms.custom \in Nat
  BY DEF Terms
<1>2. AtLeast(0, licensed - stores) \in Nat
  BY DEF AtLeast
<1>3. /\ stores * terms.store \in Nat /\ AtLeast(0, licensed - stores) * terms.till \in Nat
      /\ licensed * terms.till \in Nat
  BY <1>1, <1>2, Times
<1>4. CASE terms.mode = "custom"
  BY <1>1, <1>4 DEF RecurringAmount
<1>5. CASE terms.mode = "per_store"
  BY <1>3, <1>5 DEF RecurringAmount
<1>6. CASE terms.mode = "per_terminal"
  BY <1>3, <1>6 DEF RecurringAmount
<1> QED BY <1>4, <1>5, <1>6 DEF Terms, Modes

\* What is read of a subscription: figures, and the recurring one is that of its terms with
\* its add-ons.
LEMMA QuotedIs ==
  ASSUME NEW sub \in ClientRow, NEW p \in PlanRow \cup {None}
  PROVE  LET quoted == QuoteForSubscription(sub, p)
             base   == RecurringAmount(quoted.terms, quoted.licensed, quoted.stores)
         IN /\ quoted.terms \in Terms \cup {None}
            /\ quoted.licensed \in Nat /\ quoted.stores \in Nat
            /\ quoted.addons \in [Features -> Nat] /\ quoted.setupDue \in Nat
            /\ quoted.recurring # None =>
                 /\ quoted.terms # None /\ quoted.recurring \in Nat /\ base \in Nat
                 /\ quoted.recurring = IF quoted.terms.mode = "custom" THEN base
                                       ELSE base + SumOf(quoted.addons)
<1> DEFINE terms  == Or(sub.terms, TermsFromPlan(p))
           addons == AddonLines(sub, p, sub.stores)
           base   == IF terms = None THEN None ELSE RecurringAmount(terms, sub.licensed, sub.stores)
           due    == IF sub.fee = "not_invoiced" THEN AgreedSetupFee(p, sub) ELSE 0
           recurring == IF terms = None \/ base = None \/ terms.mode = "custom" THEN base
                        ELSE base + SumOf(addons)
           quoted == QuoteForSubscription(sub, p)
<1>1. /\ quoted.terms = terms /\ quoted.licensed = sub.licensed /\ quoted.stores = sub.stores
      /\ quoted.addons = addons /\ quoted.recurring = recurring /\ quoted.setupDue = due
  BY DEF QuoteForSubscription
<1>2. sub.licensed \in Nat /\ sub.stores \in Nat
  BY DEF ClientRow
<1>3. terms \in Terms \cup {None}
  <2>1. sub.terms \in Terms \cup {None}
    BY DEF ClientRow
  <2>2. TermsFromPlan(p) \in Terms \cup {None}
    BY DEF TermsFromPlan, PlanRow, Terms
  <2> QED BY <2>1, <2>2 DEF Or
<1>4. addons \in [Features -> Nat]
  <2>1. ASSUME NEW k \in Features PROVE AddonQuantity(k, sub.stores) \in Nat
    BY <1>2 DEF AddonQuantity, AtLeast
  <2>2. ASSUME NEW k \in Bought(sub) PROVE AddonUnit(k, sub, p) \in Nat
    <3>1. k \in Features /\ sub.addons[k] # None /\ sub.addons[k] \in Nat \cup {None, Unpriced}
      BY DEF Bought, ClientRow
    <3>2. p # None => p.prices[k] \in Nat \cup {None}
      BY <3>1 DEF PlanRow, Prices
    <3> QED BY <3>1, <3>2 DEF AddonUnit, Or
  <2>3. ASSUME NEW k \in Features
        PROVE  (IF k \in Bought(sub) THEN AddonUnit(k, sub, p) * AddonQuantity(k, sub.stores) ELSE 0) \in Nat
    <3>1. CASE k \in Bought(sub)
      BY <2>1, <2>2, <3>1, Times
    <3> QED BY <3>1
  <2> QED BY <2>3 DEF AddonLines
<1>5. due \in Nat
  <2>1. sub.setup \in Nat \cup {None} /\ (p # None => p.setup \in Nat)
    BY DEF ClientRow, PlanRow
  <2> QED BY <2>1 DEF AgreedSetupFee, Or
<1>6. SumOf(addons) \in Nat
  <2>1. DOMAIN addons = Features /\ \A k \in Features : addons[k] \in Nat
    BY <1>4
  <2> HIDE DEF addons
  <2> QED BY <2>1, PriceAssumption, SumOfIs, SumIsNat
<1>7. terms # None => base \in Nat \cup {None} /\ (terms.mode # "custom" => base \in Nat)
  BY <1>2, <1>3, RecurringIs
<1> HIDE DEF terms, addons, quoted, due
<1>8. recurring # None =>
        /\ terms # None /\ recurring \in Nat /\ base \in Nat
        /\ recurring = IF terms.mode = "custom" THEN base ELSE base + SumOf(addons)
  BY <1>6, <1>7, PriceAssumption
<1>9. recurring # None => base = RecurringAmount(terms, sub.licensed, sub.stores)
  BY <1>8
<1> HIDE DEF recurring, base
<1>10. LET b == RecurringAmount(quoted.terms, quoted.licensed, quoted.stores)
       IN /\ quoted.terms \in Terms \cup {None}
          /\ quoted.licensed \in Nat /\ quoted.stores \in Nat
          /\ quoted.addons \in [Features -> Nat] /\ quoted.setupDue \in Nat
          /\ quoted.recurring # None =>
               /\ quoted.terms # None /\ quoted.recurring \in Nat /\ b \in Nat
               /\ quoted.recurring = IF quoted.terms.mode = "custom" THEN b
                                     ELSE b + SumOf(quoted.addons)
  BY <1>1, <1>2, <1>3, <1>4, <1>5, <1>8, <1>9
<1> QED BY <1>10 DEF quoted

-----------------------------------------------------------------------------
(* The lines of a document. *)

\* The sum of the add-ons a document names.
AddonsTotal(inv) == SumOf(AddonAmounts(inv))
PricedLines(inv) == FeeLine(inv) \o QuantityLines(inv)

\* What the lines leave unexplained is a line of its own: a document adds up when it asks
\* for what it itemises at least.
LEMMA ResidualAdds ==
  ASSUME NEW inv, inv.amount \in Nat, PricedLines(inv) \in Seq(Nat), AddonsTotal(inv) \in Nat,
         SumOf(PricedLines(inv)) + AddonsTotal(inv) <= inv.amount
  PROVE  AddsUp(inv)
<1> DEFINE priced   == PricedLines(inv)
           addons   == AddonAmounts(inv)
           residual == inv.amount - (SumOf(priced) + SumOf(addons))
           shown    == residual > 0 \/ (priced = <<>> /\ DOMAIN addons = {})
           more     == IF residual > 0 THEN residual ELSE inv.amount
           rest     == Line(shown, more)
           lines    == InvoiceLineItems(inv)
<1>1. lines.priced = priced /\ lines.addons = addons /\ lines.rest = rest
  BY DEF InvoiceLineItems, PricedLines
<1>2. SumOf(priced) \in Nat /\ SumOf(addons) \in Nat
  BY SumOfSeq DEF AddonsTotal
<1>3. residual \in Nat /\ more \in Nat /\ shown \in BOOLEAN
  BY <1>2 DEF AddonsTotal
<1>4. SumOf(rest) = IF shown THEN more ELSE 0
  <2> HIDE DEF shown, more
  <2> QED BY <1>3, SumOfLine
<1>5. priced = <<>> => SumOf(priced) = 0
  <2>1. DOMAIN <<>> = {}
    OBVIOUS
  <2>2. SumOf(<<>>) = 0
    BY <2>1, SumOfIs, SumOfNone
  <2> QED BY <2>2
<1>6. DOMAIN addons = {} => SumOf(addons) = 0
  <2> HIDE DEF addons
  <2> QED BY SumOfIs, SumOfNone
<1>7. SumOf(priced) + SumOf(addons) + SumOf(rest) = inv.amount
  <2> HIDE DEF priced, addons, rest
  <2>1. CASE residual > 0
    BY <1>2, <1>4, <2>1
  <2>2. CASE residual = 0 /\ shown
    <3>1. priced = <<>> /\ DOMAIN addons = {} /\ more = inv.amount
      BY <2>2
    <3>2. SumOf(priced) = 0 /\ SumOf(addons) = 0 /\ SumOf(rest) = inv.amount
      BY <1>4, <1>5, <1>6, <2>2, <3>1
    <3> QED BY <3>2
  <2>3. CASE residual = 0 /\ ~shown
    BY <1>2, <1>4, <2>3
  <2> QED BY <1>3, <2>1, <2>2, <2>3
<1> HIDE DEF priced, addons, rest, lines
<1>8. SumOf(lines.priced) + SumOf(lines.addons) + SumOf(lines.rest) = inv.amount
  BY <1>1, <1>7
<1> QED BY <1>8 DEF AddsUp, lines

LEMMA NoLines ==
  <<>> \in Seq(Nat) /\ SumOf(<<>>) = 0
<1>1. DOMAIN <<>> = {} /\ <<>> \in Seq(Nat)
  OBVIOUS
<1>2. SumOf(<<>>) = SumFunctionOnSet(<<>>, {})
  BY <1>1, SumOfIs
<1> QED BY <1>1, <1>2, SumOfNone

LEMMA FeeLineIs ==
  ASSUME NEW inv, inv.fee \in Nat \cup {None}
  PROVE  FeeLine(inv) \in Seq(Nat) /\ SumOf(FeeLine(inv)) = Or(inv.fee, 0)
<1> DEFINE shown == Or(inv.fee, 0) > 0
<1>1. shown \in BOOLEAN /\ (shown => inv.fee \in Nat /\ Or(inv.fee, 0) = inv.fee)
      /\ (~shown => Or(inv.fee, 0) = 0)
  BY PriceAssumption DEF Or
<1>2. FeeLine(inv) = Line(shown, inv.fee)
  BY DEF FeeLine
<1> HIDE DEF shown
<1>3. /\ Line(shown, inv.fee) \in Seq(Nat)
      /\ SumOf(Line(shown, inv.fee)) = IF shown THEN inv.fee ELSE 0
  BY <1>1, SumOfLine
<1> QED BY <1>1, <1>2, <1>3

\* The quantities an invoice itemises, in the three ways it is priced.
LEMMA QuantitiesAre ==
  ASSUME NEW inv
  PROVE  /\ inv.stores = None /\ inv.tills = None =>
              QuantityLines(inv) \in Seq(Nat) /\ SumOf(QuantityLines(inv)) = 0
         /\ inv.stores = None /\ inv.tills \in Nat /\ inv.tillPrice \in Nat =>
              /\ QuantityLines(inv) \in Seq(Nat)
              /\ SumOf(QuantityLines(inv)) = inv.tills * inv.tillPrice
         /\ (/\ inv.stores \in Nat /\ inv.storePrice \in Nat
             /\ inv.tills \in Nat /\ inv.tillPrice \in Nat) =>
              /\ QuantityLines(inv) \in Seq(Nat)
              /\ SumOf(QuantityLines(inv)) = inv.stores * inv.storePrice
                                             + AtLeast(0, inv.tills - inv.stores) * inv.tillPrice
<1>1. CASE inv.stores = None /\ inv.tills = None
  <2>1. QuantityLines(inv) = <<>>
    BY <1>1 DEF QuantityLines, Line
  <2> QED BY <1>1, <2>1, NoLines, PriceAssumption
<1>2. CASE inv.stores = None /\ inv.tills \in Nat /\ inv.tillPrice \in Nat
  <2> DEFINE amount == inv.tills * inv.tillPrice
  <2>1. QuantityLines(inv) = Line(TRUE, amount)
    BY <1>2, PriceAssumption DEF QuantityLines, Line
  <2>2. amount \in Nat
    BY <1>2, Times
  <2> HIDE DEF amount
  <2>3. Line(TRUE, amount) \in Seq(Nat) /\ SumOf(Line(TRUE, amount)) = amount
    BY <2>2, SumOfLine
  <2> QED BY <1>2, <2>1, <2>3, PriceAssumption DEF amount
<1>3. CASE inv.stores \in Nat /\ inv.storePrice \in Nat /\ inv.tills \in Nat /\ inv.tillPrice \in Nat
  <2> DEFINE additional == AtLeast(0, inv.tills - inv.stores)
             first  == inv.stores * inv.storePrice
             second == additional * inv.tillPrice
             ones   == Line(inv.stores > 0, first)
             others == Line(additional > 0, second)
  <2>1. additional \in Nat
    BY <1>3 DEF AtLeast
  <2>2. QuantityLines(inv) = ones \o others
    BY <1>3, PriceAssumption DEF QuantityLines, Line
  <2>3. first \in Nat /\ second \in Nat
    <3> HIDE DEF additional
    <3> QED BY <1>3, <2>1, Times
  <2>4. (inv.stores = 0 => first = 0) /\ (additional = 0 => second = 0)
    <3> HIDE DEF additional
    <3> QED BY <1>3, <2>1
  <2> HIDE DEF first, second, additional
  <2>5. /\ ones \in Seq(Nat) /\ SumOf(ones) = IF inv.stores > 0 THEN first ELSE 0
        /\ others \in Seq(Nat) /\ SumOf(others) = IF additional > 0 THEN second ELSE 0
    <3>1. (inv.stores > 0) \in BOOLEAN /\ (additional > 0) \in BOOLEAN
      OBVIOUS
    <3> QED BY <2>3, <3>1, SumOfLine
  <2>6. SumOf(ones) = first /\ SumOf(others) = second
    <3> HIDE DEF ones, others
    <3> QED BY <1>3, <2>1, <2>4, <2>5
  <2> HIDE DEF ones, others
  <2>7. ones \o others \in Seq(Nat) /\ SumOf(ones \o others) = first + second
    BY <2>5, <2>6, SumOfBoth
  <2>8. QuantityLines(inv) \in Seq(Nat) /\ SumOf(QuantityLines(inv)) = first + second
    BY <2>2, <2>7
  <2> QED BY <1>3, <2>8, PriceAssumption DEF first, second, additional
<1> QED BY <1>1, <1>2, <1>3

\* The add-ons a document names cost no more than those charged, and nothing where a flat
\* amount covers them.
LEMMA AddonsAre ==
  ASSUME NEW inv, inv.addons \in [Features -> Nat]
  PROVE  /\ AddonsTotal(inv) \in Nat /\ SumOf(inv.addons) \in Nat
         /\ AddonsTotal(inv) <= SumOf(inv.addons)
         /\ inv.tills = None /\ inv.tillPrice = None => AddonsTotal(inv) = 0
<1> DEFINE K == {k \in Features : inv.addons[k] > 0}
           f == AddonAmounts(inv)
           h == inv.addons
<1>1. DOMAIN f = K /\ DOMAIN h = Features /\ K \subseteq Features
  BY DEF AddonAmounts
<1>2. \A x \in Features : h[x] \in Nat
  OBVIOUS
<1>3. \A x \in K : f[x] \in Nat /\ f[x] <= h[x]
  BY DEF AddonAmounts
<1>4. IsFiniteSet(K) /\ IsFiniteSet(Features)
  BY PriceAssumption, FS_Subset
<1>5. inv.tills = None /\ inv.tillPrice = None => \A x \in K : f[x] = 0
  BY DEF AddonAmounts
<1> HIDE DEF K, f, h
<1>6. SumOf(f) = SumFunctionOnSet(f, K) /\ SumOf(h) = SumFunctionOnSet(h, Features)
  BY <1>1, SumOfIs
<1>7. SumFunctionOnSet(f, K) \in Nat /\ SumFunctionOnSet(h, Features) \in Nat
  BY <1>2, <1>3, <1>4, SumIsNat
<1>8. SumFunctionOnSet(f, K) <= SumFunctionOnSet(h, Features)
  BY <1>1, <1>2, <1>3, <1>4, SumAtMost
<1>9. inv.tills = None /\ inv.tillPrice = None => SumFunctionOnSet(f, K) = 0
  BY <1>4, <1>5, SumOfZeros
<1> QED BY <1>6, <1>7, <1>8, <1>9 DEF AddonsTotal, f, h

\* A document that asks for its charge, its quantities and its add-ons at least adds up.
LEMMA CoversLines ==
  ASSUME NEW inv, inv.amount \in Nat, inv.fee \in Nat \cup {None}, inv.addons \in [Features -> Nat],
         QuantityLines(inv) \in Seq(Nat),
         Or(inv.fee, 0) + SumOf(QuantityLines(inv)) + AddonsTotal(inv) <= inv.amount
  PROVE  AddsUp(inv)
<1>1. /\ PricedLines(inv) \in Seq(Nat)
      /\ SumOf(PricedLines(inv)) = SumOf(FeeLine(inv)) + SumOf(QuantityLines(inv))
  <2>1. FeeLine(inv) \in Seq(Nat)
    BY FeeLineIs
  <2> QED BY <2>1, SumOfBoth DEF PricedLines
<1>2. SumOf(FeeLine(inv)) = Or(inv.fee, 0)
  BY FeeLineIs
<1>3. AddonsTotal(inv) \in Nat
  BY AddonsAre
<1>4. SumOf(PricedLines(inv)) + AddonsTotal(inv) <= inv.amount
  BY <1>1, <1>2
<1> QED BY <1>1, <1>3, <1>4, ResidualAdds

-----------------------------------------------------------------------------
(* The rows that are raised add up. *)

\* A row of the table whose document adds up, dated when it is paid.
Sound(inv) ==
  inv \in InvoiceRow /\ AddsUp(inv) /\ (inv.status = "paid" => inv.paidOn # None)

SoundRows(is) == \A i \in DOMAIN is : Sound(is[i])

\* Of finitely many dated numbers one is the latest.
LEMMA Latest ==
  ASSUME NEW n \in Nat, NEW S \in SUBSET (1 .. n), S # {}, NEW d, \A i \in S : d[i] \in Nat
  PROVE  \E i \in S : \A j \in S : d[j] < d[i] \/ (d[j] = d[i] /\ j <= i)
<1> DEFINE upTo(m) == {i \in S : i <= m}
           last(m) == \E i \in upTo(m) : \A j \in upTo(m) : d[j] < d[i] \/ (d[j] = d[i] /\ j <= i)
           bad == {m \in 0 .. n : upTo(m) # {} /\ ~last(m)}
<1>0. \A i \in S : i \in Nat /\ 1 <= i /\ i <= n
  OBVIOUS
<1>1. ASSUME bad # {} PROVE FALSE
  <2>1. bad \in SUBSET Nat
    OBVIOUS
  <2>2. PICK m \in bad : \A k \in bad : m <= k
    BY <1>1, <2>1, LeastMember
  <2>3. m \in 0 .. n /\ upTo(m) # {} /\ ~last(m)
    OBVIOUS
  <2>4. m > 0
    <3>1. \A i \in upTo(m) : i \in Nat /\ 1 <= i /\ i <= m
      BY <1>0
    <3> HIDE DEF upTo
    <3> QED BY <2>3, <3>1
  <2>5. m - 1 \in 0 .. n /\ m - 1 \notin bad
    <3>1. m - 1 \in 0 .. n /\ ~(m <= m - 1)
      BY <2>3, <2>4
    <3> HIDE DEF bad
    <3> QED BY <2>2, <3>1
  <2>6. upTo(m - 1) = {} \/ last(m - 1)
    BY <2>5
  <2>7. upTo(m) = upTo(m - 1) \cup (IF m \in S THEN {m} ELSE {})
    <3>1. ASSUME NEW i \in S PROVE i <= m <=> (i <= m - 1 \/ i = m)
      BY <1>0, <2>3
    <3> QED BY <2>3, <3>1
  <2>8. m \in S
    BY <2>3, <2>6, <2>7
  <2>9. \A i \in upTo(m - 1) : i < m /\ i \in S
    BY <2>3
  <2> HIDE DEF upTo
  <2>10. CASE upTo(m - 1) = {}
    BY <2>3, <2>7, <2>8, <2>10
  <2>11. CASE last(m - 1)
    <3>1. PICK i \in upTo(m - 1) : \A j \in upTo(m - 1) : d[j] < d[i] \/ (d[j] = d[i] /\ j <= i)
      BY <2>11
    <3>2. CASE d[m] < d[i]
      BY <2>3, <2>7, <2>8, <2>9, <3>1, <3>2
    <3>3. CASE ~(d[m] < d[i])
      <4>1. ASSUME NEW j \in upTo(m - 1) PROVE d[j] \in Nat /\ d[j] <= d[m] /\ j <= m
        <5>1. j \in S /\ i \in S /\ j < m /\ j \in Nat
          BY <1>0, <2>9
        <5>2. d[j] \in Nat /\ d[i] \in Nat /\ d[m] \in Nat /\ d[j] <= d[i]
          BY <2>8, <3>1, <5>1
        <5> QED BY <2>3, <3>3, <5>1, <5>2
      <4> QED BY <2>3, <2>7, <2>8, <4>1
    <3> QED BY <3>2, <3>3
  <2> QED BY <2>6, <2>10, <2>11
<1>2. bad = {}
  BY <1>1, Zenon
<1>3. n \notin bad /\ n \in 0 .. n
  <2> HIDE DEF bad
  <2> QED BY <1>2
<1>4. upTo(n) = S
  BY <1>0
<1> QED BY <1>3, <1>4

\* What was paid last was paid.
LEMMA LastSettledIs ==
  ASSUME invoice \in Seq(Range(invoice)), SoundRows(invoice), NEW c, Settled(c) # {}
  PROVE  LastSettled(c) \in Settled(c)
<1> DEFINE d == [i \in DOMAIN invoice |-> invoice[i].paidOn]
           S == Settled(c)
<1>1. Len(invoice) \in Nat /\ DOMAIN invoice = 1 .. Len(invoice)
  OBVIOUS
<1>2. S \in SUBSET (1 .. Len(invoice)) /\ \A i \in S : invoice[i].status = "paid" /\ d[i] = invoice[i].paidOn
  BY <1>1 DEF Settled, InvoicesOf
<1>3. \A i \in S : d[i] \in Nat
  BY <1>1, <1>2 DEF SoundRows, Sound, InvoiceRow, Day
<1> HIDE DEF S, d
<1>4. \E i \in S : \A j \in S : d[j] < d[i] \/ (d[j] = d[i] /\ j <= i)
  BY <1>1, <1>2, <1>3, Latest DEF S
<1>5. \E i \in S : \A j \in S : \/ invoice[j].paidOn < invoice[i].paidOn
                                \/ (invoice[j].paidOn = invoice[i].paidOn /\ j <= i)
  BY <1>2, <1>4
<1> QED BY <1>5 DEF LastSettled, S

\* The increase for the days left is a whole amount, or none is charged.
LEMMA ProRataIs ==
  ASSUME NEW quoted, quoted.terms \in Terms \cup {None}, quoted.licensed \in Nat, quoted.stores \in Nat,
         NEW tills \in Nat \cup {None}, NEW stores \in Nat \cup {None},
         NEW paid \in Nat \cup {None}, NEW day \in Nat
  PROVE  ProRataForIncrease(quoted, tills, stores, paid, day) \in Nat \cup {None}
<1> DEFINE days == PeriodDays(quoted.terms.period)
           ahead == paid - day
           more == IncreaseOf(quoted, tills, stores)
           none == \/ quoted.terms = None \/ quoted.terms.mode = "custom"
                   \/ tills = None \/ paid = None
                   \/ days = 0 \/ ahead <= 0 \/ more = 0
<1>1. ProRataForIncrease(quoted, tills, stores, paid, day) = IF none THEN None ELSE Rounded(more * ahead, days)
  BY DEF ProRataForIncrease
<1>2. ASSUME ~none PROVE Rounded(more * ahead, days) \in Nat
  <2>1. quoted.terms \in Terms /\ quoted.terms.mode # "custom" /\ tills \in Nat /\ paid \in Nat
    BY <1>2
  <2>2. days \in Nat \ {0} /\ ahead \in Nat
    <3>1. days # 0 /\ ~(ahead <= 0)
      BY <1>2
    <3>2. days \in Nat
      BY <2>1, PriceAssumption DEF PeriodDays, Terms, Periods
    <3> QED BY <2>1, <3>1, <3>2
  <2>3. more \in Nat
    <3> DEFINE now == RecurringAmount(quoted.terms, quoted.licensed, quoted.stores)
               old == RecurringAmount(quoted.terms, tills, Or(stores, 0))
    <3>1. Or(stores, 0) \in Nat
      BY DEF Or
    <3>2. now \in Nat /\ old \in Nat
      BY <2>1, <3>1, RecurringIs
    <3>3. more = IF quoted.terms.mode = "per_store" /\ quoted.terms.store = 0 THEN 0
                 ELSE AtLeast(0, now - old)
      BY DEF IncreaseOf
    <3> HIDE DEF now, old
    <3>4. AtLeast(0, now - old) \in Nat
      BY <3>2 DEF AtLeast
    <3> QED BY <3>3, <3>4
  <2> HIDE DEF more, ahead, days
  <2>4. more * ahead \in Nat
    BY <2>2, <2>3, Times
  <2> DEFINE a == more * ahead
  <2> HIDE DEF a
  <2>5. 2 * a + days \in Nat /\ 2 * days \in Nat \ {0}
    BY <2>2, <2>4 DEF a
  <2>6. (2 * a + days) \div (2 * days) \in Nat
    BY <2>5, Division
  <2> QED BY <2>6 DEF Rounded, a
<1> HIDE DEF none
<1> QED BY <1>1, <1>2

\* What the handlers read of a client that is there.
LEMMA QuoteRead ==
  ASSUME RegistryTyped, NEW c \in Clients, client[c] # None
  PROVE  /\ client[c] \in ClientRow /\ PlanOf(c) \in PlanRow \cup {None}
         /\ client[c].paid \in Day \cup {None}
         /\ \A body : FeeRiding(c, body) \in Nat
<1>1. client[c] \in ClientRow
  BY DEF RegistryTyped
<1>2. PlanOf(c) \in PlanRow \cup {None}
  BY <1>1 DEF PlanOf, RegistryTyped, ClientRow
<1>3. QuoteOf(c).setupDue \in Nat
  <2> DEFINE quoted == QuoteForSubscription(client[c], PlanOf(c))
  <2>1. quoted.setupDue \in Nat
    BY <1>1, <1>2, QuotedIs
  <2> QED BY <2>1 DEF QuoteOf
<1>4. client[c].paid \in Day \cup {None}
  BY <1>1 DEF ClientRow
<1>5. \A body : FeeRiding(c, body) \in Nat
  BY <1>3 DEF FeeRiding
<1> QED BY <1>1, <1>2, <1>4, <1>5

\* The row every kind begins with.
LEMMA InvoiceWithTyped ==
  ASSUME today \in Nat, NEW c \in Clients, NEW body \in InvoiceBody, NEW fee \in Nat
  PROVE  LET base == InvoiceWith(c, body, fee)
         IN /\ base \in InvoiceRow
            /\ base.amount = fee /\ Or(base.fee, 0) = fee /\ base.fee \in Nat \cup {None}
            /\ base.tills = None /\ base.tillPrice = None /\ base.stores = None
            /\ base.addons = [k \in Features |-> 0] /\ base.status = "pending"
<1> DEFINE base    == InvoiceWith(c, body, fee)
           purpose == PurposeOf(body)
           due     == Or(body.due, today + DueDays)
           charge  == IF fee > 0 THEN fee ELSE None
           row == [client |-> c, purpose |-> purpose, amount |-> fee, fee |-> charge,
                   tills |-> None, tillPrice |-> None, stores |-> None, storePrice |-> None,
                   addons |-> [k \in Features |-> 0], period |-> None, status |-> "pending",
                   due |-> due, paidOn |-> None, payments |-> 0]
<1>1. base = row
  BY DEF InvoiceWith
<1>2. purpose \in Purposes
  BY DEF PurposeOf, Or, InvoiceBody, Purposes
<1>3. due \in Nat
  BY OfficeAssumption DEF Or, InvoiceBody, Day
<1>4. charge \in Nat \cup {None} /\ Or(charge, 0) = fee
  BY PriceAssumption DEF Or
<1> HIDE DEF purpose, due, charge
<1>5. row \in InvoiceRow
  BY <1>2, <1>3, <1>4 DEF InvoiceRow, Day
<1>6. /\ row.amount = fee /\ row.fee = charge
      /\ row.tills = None /\ row.tillPrice = None /\ row.stores = None
      /\ row.addons = [k \in Features |-> 0] /\ row.status = "pending"
  OBVIOUS
<1> HIDE DEF base, row
<1> QED BY <1>1, <1>4, <1>5, <1>6 DEF base

\* An amount without quantities or add-ons, of the setup charge and something more.
LEMMA FlatSound ==
  ASSUME NEW inv \in InvoiceRow, inv.status = "pending",
         inv.tills = None, inv.tillPrice = None, inv.stores = None,
         Or(inv.fee, 0) <= inv.amount
  PROVE  Sound(inv)
<1>1. /\ inv.amount \in Nat /\ inv.fee \in Nat \cup {None} /\ inv.addons \in [Features -> Nat]
  BY DEF InvoiceRow
<1>2. QuantityLines(inv) \in Seq(Nat) /\ SumOf(QuantityLines(inv)) = 0
  BY QuantitiesAre
<1>3. AddonsTotal(inv) = 0
  BY <1>1, AddonsAre
<1>4. Or(inv.fee, 0) \in Nat
  BY <1>1 DEF Or
<1>5. Or(inv.fee, 0) + SumOf(QuantityLines(inv)) + AddonsTotal(inv) <= inv.amount
  BY <1>1, <1>2, <1>3, <1>4
<1>6. AddsUp(inv)
  BY <1>1, <1>2, <1>5, CoversLines
<1> QED BY <1>6 DEF Sound

\* Every kind of invoice asks for what it itemises.
LEMMA NewInvoiceSound ==
  ASSUME RegistryTyped, invoice \in Seq(Range(invoice)), SoundRows(invoice),
         NEW c \in Clients, client[c] # None, NEW body \in InvoiceBody,
         NEW inv \in NewInvoices(c, body)
  PROVE  Sound(inv)
<1> DEFINE fee  == FeeRiding(c, body)
           base == InvoiceWith(c, body, fee)
           quoted == QuoteOf(c)
<1>1. today \in Nat /\ fee \in Nat /\ client[c].paid \in Nat \cup {None}
  BY QuoteRead DEF RegistryTyped, Day
<1>2. /\ base \in InvoiceRow
      /\ base.amount = fee /\ Or(base.fee, 0) = fee
      /\ base.tills = None /\ base.tillPrice = None /\ base.stores = None
      /\ base.addons = [k \in Features |-> 0] /\ base.status = "pending"
  <2> HIDE DEF fee
  <2> QED BY <1>1, InvoiceWithTyped
<1>3. LET total == RecurringAmount(quoted.terms, quoted.licensed, quoted.stores)
      IN /\ quoted.terms \in Terms \cup {None}
         /\ quoted.licensed \in Nat /\ quoted.stores \in Nat
         /\ quoted.addons \in [Features -> Nat] /\ quoted.setupDue \in Nat
         /\ quoted.recurring # None =>
              /\ quoted.terms # None /\ quoted.recurring \in Nat /\ total \in Nat
              /\ quoted.recurring = IF quoted.terms.mode = "custom" THEN total
                                    ELSE total + SumOf(quoted.addons)
  BY QuoteRead, QuotedIs DEF QuoteOf
<1> HIDE DEF fee, base, quoted
\* Another amount, and a period, on the row.
<1>4. ASSUME NEW more \in Nat, NEW period \in Nat \cup {None}
      PROVE  Sound([base EXCEPT !.amount = fee + more, !.period = period])
  <2> DEFINE row == [base EXCEPT !.amount = fee + more, !.period = period]
  <2>1. fee + more \in Nat /\ fee <= fee + more
    BY <1>1
  <2>2. row \in InvoiceRow
    BY <1>2, <2>1 DEF InvoiceRow, Day
  <2>3. /\ row.status = "pending" /\ row.tills = None /\ row.tillPrice = None /\ row.stores = None
        /\ row.amount = fee + more /\ row.fee = base.fee
    BY <1>2 DEF InvoiceRow
  <2> HIDE DEF row
  <2>4. Sound(row)
    BY <1>2, <2>1, <2>2, <2>3, FlatSound
  <2> QED BY <2>4 DEF row
<1>5. ASSUME inv \in StatedInvoices(c, body), body.amount # None PROVE Sound(inv)
  <2>1. body.amount \in Nat
    BY <1>5 DEF InvoiceBody
  <2>2. inv = [base EXCEPT !.amount = base.amount + body.amount]
    BY <1>5 DEF StatedInvoices, base, fee
  <2>3. base.period = None
    BY DEF base, InvoiceWith
  <2>4. inv = [base EXCEPT !.amount = fee + body.amount, !.period = None]
    BY <1>2, <2>2, <2>3 DEF InvoiceRow
  <2> QED BY <1>4, <2>1, <2>4
<1>6. ASSUME inv \in OnboardingInvoices(c, body) PROVE Sound(inv)
  <2>1. inv = InvoiceWith(c, body, quoted.setupDue)
    BY <1>6 DEF OnboardingInvoices, quoted
  <2> DEFINE row == InvoiceWith(c, body, quoted.setupDue)
  <2>2. /\ row \in InvoiceRow /\ row.amount = quoted.setupDue /\ Or(row.fee, 0) = quoted.setupDue
        /\ row.tills = None /\ row.tillPrice = None /\ row.stores = None /\ row.status = "pending"
    BY <1>1, <1>3, InvoiceWithTyped
  <2> HIDE DEF row
  <2>3. Or(row.fee, 0) <= row.amount
    BY <1>3, <2>2
  <2>4. Sound(row)
    BY <2>2, <2>3, FlatSound
  <2> QED BY <2>1, <2>4 DEF row
<1>7. ASSUME inv \in ProRataInvoices(c, body) PROVE Sound(inv)
  <2> DEFINE charge == CurrentProRata(c, quoted)
  <2>1. charge # None /\ inv = [base EXCEPT !.amount = base.amount + charge, !.period = client[c].paid]
    BY <1>7 DEF ProRataInvoices, quoted, base, fee
  <2>2. PaidTerminalsFor(c) \in Nat \cup {None} /\ PaidStoresFor(c) \in Nat \cup {None}
    <3>1. CASE Settled(c) = {}
      BY <3>1 DEF PaidTerminalsFor, PaidStoresFor
    <3>2. CASE Settled(c) # {}
      <4>1. LastSettled(c) \in DOMAIN invoice
        BY <3>2, LastSettledIs DEF Settled, InvoicesOf
      <4>2. invoice[LastSettled(c)] \in InvoiceRow
        BY <4>1 DEF SoundRows, Sound
      <4> QED BY <3>2, <4>2 DEF PaidTerminalsFor, PaidStoresFor, InvoiceRow
    <3> QED BY <3>1, <3>2
  <2>3. charge \in Nat
    BY <1>1, <1>3, <2>1, <2>2, ProRataIs DEF CurrentProRata
  <2> HIDE DEF charge
  <2>4. inv = [base EXCEPT !.amount = fee + charge, !.period = client[c].paid]
    BY <1>2, <2>1
  <2> QED BY <1>1, <1>4, <2>3, <2>4
<1>8. ASSUME inv \in SubscriptionInvoices(c, body) PROVE Sound(inv)
  <2> DEFINE counted  == quoted.terms # None /\ quoted.terms.mode # "custom"
             perStore == quoted.terms # None /\ quoted.terms.mode = "per_store"
             total == RecurringAmount(quoted.terms, quoted.licensed, quoted.stores)
             tills == IF counted THEN quoted.licensed ELSE None
             till  == IF counted THEN quoted.terms.till ELSE None
             many  == IF perStore THEN quoted.stores ELSE None
             store == IF perStore THEN quoted.terms.store ELSE None
             row == [base EXCEPT !.amount = base.amount + quoted.recurring, !.tills = tills,
                                 !.tillPrice = till, !.stores = many, !.storePrice = store,
                                 !.addons = quoted.addons]
  <2>1. quoted.recurring # None /\ inv = row
    BY <1>8, Zenon DEF SubscriptionInvoices, quoted, base, fee
  <2>2. /\ quoted.terms \in Terms /\ quoted.recurring \in Nat /\ total \in Nat
        /\ quoted.recurring = IF quoted.terms.mode = "custom" THEN total
                              ELSE total + SumOf(quoted.addons)
    BY <1>3, <2>1
  <2>3. quoted.terms.till \in Nat /\ quoted.terms.store \in Nat
    BY <2>2 DEF Terms
  <2>4. /\ tills \in Nat \cup {None} /\ till \in Nat \cup {None}
        /\ many \in Nat \cup {None} /\ store \in Nat \cup {None}
    BY <1>3, <2>3
  <2>5. base.amount + quoted.recurring \in Nat
    BY <1>1, <1>2, <2>2
  <2>6. CASE quoted.terms.mode = "custom"
    <3>1. tills = None /\ till = None /\ many = None
      BY <2>6
    <3> HIDE DEF tills, till, many, store, total
    <3>2. row \in InvoiceRow
      BY <1>2, <1>3, <2>4, <2>5 DEF InvoiceRow
    <3>3. /\ row.status = "pending" /\ row.tills = None /\ row.tillPrice = None /\ row.stores = None
          /\ row.amount = base.amount + quoted.recurring /\ row.fee = base.fee
      BY <1>2, <3>1 DEF InvoiceRow
    <3> HIDE DEF row
    <3>4. Or(row.fee, 0) <= row.amount
      BY <1>1, <1>2, <2>2, <3>3
    <3> QED BY <2>1, <3>2, <3>3, <3>4, FlatSound
  <2>7. CASE quoted.terms.mode # "custom"
    <3>1. /\ tills = quoted.licensed /\ till = quoted.terms.till
          /\ quoted.terms.mode = "per_store" => many = quoted.stores /\ store = quoted.terms.store
          /\ quoted.terms.mode = "per_terminal" => many = None
          /\ quoted.terms.mode \in {"per_store", "per_terminal"}
          /\ quoted.recurring = total + SumOf(quoted.addons)
      <4>1. quoted.terms.mode \in {"per_store", "per_terminal"}
        BY <2>2, <2>7 DEF Terms, Modes
      <4>2. quoted.terms # None /\ counted
        BY <1>3, <2>1, <2>7
      <4>3. quoted.terms.mode = "per_store" => perStore
        BY <4>2
      <4>4. quoted.terms.mode = "per_terminal" => ~perStore
        OBVIOUS
      <4> HIDE DEF counted, perStore, total
      <4> QED BY <2>2, <2>7, <4>1, <4>2, <4>3, <4>4
    <3>2. /\ quoted.terms.mode = "per_store" =>
               total = quoted.stores * quoted.terms.store
                       + AtLeast(0, quoted.licensed - quoted.stores) * quoted.terms.till
          /\ quoted.terms.mode = "per_terminal" => total = quoted.licensed * quoted.terms.till
      BY DEF RecurringAmount
    <3> HIDE DEF tills, till, many, store, total
    <3>3. row \in InvoiceRow
      BY <1>2, <1>3, <2>4, <2>5 DEF InvoiceRow
    <3>4. /\ row.status = "pending" /\ row.tills = tills /\ row.tillPrice = till
          /\ row.stores = many /\ row.storePrice = store /\ row.addons = quoted.addons
          /\ row.amount = base.amount + quoted.recurring /\ row.fee = base.fee
      BY <1>2 DEF InvoiceRow
    <3> HIDE DEF row
    <3>5. QuantityLines(row) \in Seq(Nat) /\ SumOf(QuantityLines(row)) = total
      <4>1. CASE quoted.terms.mode = "per_store"
        BY <1>3, <2>3, <3>1, <3>2, <3>4, <4>1, QuantitiesAre
      <4>2. CASE quoted.terms.mode = "per_terminal"
        BY <1>3, <2>3, <3>1, <3>2, <3>4, <4>2, QuantitiesAre
      <4> QED BY <3>1, <4>1, <4>2
    <3>6. /\ AddonsTotal(row) \in Nat /\ SumOf(quoted.addons) \in Nat
          /\ AddonsTotal(row) <= SumOf(quoted.addons)
      BY <1>3, <3>4, AddonsAre
    <3>7. /\ row.amount \in Nat /\ row.fee \in Nat \cup {None} /\ row.addons \in [Features -> Nat]
      BY <3>3 DEF InvoiceRow
    <3>8. Or(row.fee, 0) = fee
      BY <1>2, <3>4
    <3>9. Or(row.fee, 0) + SumOf(QuantityLines(row)) + AddonsTotal(row) <= row.amount
      BY <1>1, <1>2, <2>2, <3>1, <3>4, <3>5, <3>6, <3>8
    <3>10. AddsUp(row)
      BY <3>5, <3>7, <3>9, CoversLines
    <3> QED BY <2>1, <3>3, <3>4, <3>10 DEF Sound
  <2> QED BY <2>6, <2>7
<1> QED BY <1>5, <1>6, <1>7, <1>8 DEF NewInvoices

-----------------------------------------------------------------------------
(* The invoices table through every step. *)

\* What a row asks for and itemises does not depend on how far it has come.
LEMMA Restated ==
  ASSUME NEW inv, Sound(inv), NEW status \in {"pending", "paid", "overdue", "cancelled"},
         NEW on \in Day \cup {None}, NEW n \in Nat, status = "paid" => on # None
  PROVE  Sound([inv EXCEPT !.status = status, !.paidOn = on, !.payments = n])
<1> DEFINE row == [inv EXCEPT !.status = status, !.paidOn = on, !.payments = n]
<1>1. inv \in InvoiceRow /\ AddsUp(inv)
  BY DEF Sound
<1>2. row \in InvoiceRow
  BY <1>1 DEF InvoiceRow
<1>3. /\ row.status = status /\ row.paidOn = on
      /\ row.amount = inv.amount /\ row.fee = inv.fee /\ row.tills = inv.tills
      /\ row.tillPrice = inv.tillPrice /\ row.stores = inv.stores
      /\ row.storePrice = inv.storePrice /\ row.addons = inv.addons
  BY <1>1 DEF InvoiceRow
<1> HIDE DEF row
<1>4. FeeLine(row) = FeeLine(inv)
  BY <1>3, Zenon DEF FeeLine
<1>5. QuantityLines(row) = QuantityLines(inv)
  BY <1>3, Zenon DEF QuantityLines
<1>6. AddonAmounts(row) = AddonAmounts(inv)
  BY <1>3, Zenon DEF AddonAmounts
<1>7. InvoiceLineItems(row) = InvoiceLineItems(inv)
  BY <1>3, <1>4, <1>5, <1>6, Zenon DEF InvoiceLineItems
<1>8. AddsUp(row)
  BY <1>1, <1>3, <1>7, Zenon DEF AddsUp
<1> QED BY <1>2, <1>3, <1>8 DEF Sound, row

LEMMA SettledSound ==
  ASSUME NEW inv, Sound(inv), today \in Nat
  PROVE  Sound(SettledInvoice(inv))
<1>1. inv \in InvoiceRow
  BY DEF Sound
<1>2. inv.payments + 1 \in Nat
  BY <1>1 DEF InvoiceRow
<1>3. today \in Day \cup {None} /\ today # None
  BY PriceAssumption DEF Day
<1>4. SettledInvoice(inv) = [inv EXCEPT !.status = "paid", !.paidOn = today, !.payments = inv.payments + 1]
  BY DEF SettledInvoice
<1>5. "paid" \in {"pending", "paid", "overdue", "cancelled"} /\ ("paid" = "paid" => today # None)
  BY <1>3
<1>6. Sound([inv EXCEPT !.status = "paid", !.paidOn = today, !.payments = inv.payments + 1])
  BY <1>2, <1>3, <1>5, Restated
<1> QED BY <1>4, <1>6, Zenon

\* Another state of a row that is not paid yet.
LEMMA MarkedSound ==
  ASSUME NEW inv, Sound(inv), NEW status \in {"overdue", "cancelled"}
  PROVE  Sound([inv EXCEPT !.status = status])
<1>1. inv \in InvoiceRow
  BY DEF Sound
<1>2. inv.paidOn \in Day \cup {None} /\ inv.payments \in Nat
  BY <1>1 DEF InvoiceRow
<1>3. [inv EXCEPT !.status = status]
        = [inv EXCEPT !.status = status, !.paidOn = inv.paidOn, !.payments = inv.payments]
  BY <1>1 DEF InvoiceRow
<1>4. /\ status \in {"pending", "paid", "overdue", "cancelled"}
      /\ status = "paid" => inv.paidOn # None
  OBVIOUS
<1>5. Sound([inv EXCEPT !.status = status, !.paidOn = inv.paidOn, !.payments = inv.payments])
  BY <1>2, <1>4, Restated
<1> QED BY <1>3, <1>5, Zenon

LEMMA AppendSound ==
  ASSUME Shaped(invoice), SoundRows(invoice), NEW inv, Sound(inv)
  PROVE  SoundRows(Append(invoice, inv))
<1>1. /\ DOMAIN Append(invoice, inv) = DOMAIN invoice \cup {Len(invoice) + 1}
      /\ \A i \in DOMAIN invoice : Append(invoice, inv)[i] = invoice[i]
      /\ Append(invoice, inv)[Len(invoice) + 1] = inv
  BY Appended DEF Shaped
<1> QED BY <1>1 DEF SoundRows

LEMMA WrittenSound ==
  ASSUME NEW is, SoundRows(is), NEW i \in DOMAIN is, NEW new, Sound(new)
  PROVE  SoundRows([is EXCEPT ![i] = new])
<1>1. ASSUME NEW j \in DOMAIN is PROVE [is EXCEPT ![i] = new][j] = IF j = i THEN new ELSE is[j]
  OBVIOUS
<1>2. DOMAIN [is EXCEPT ![i] = new] = DOMAIN is
  OBVIOUS
<1> DEFINE to == [is EXCEPT ![i] = new]
<1> HIDE DEF to
<1>3. SoundRows(to)
  BY <1>1, <1>2 DEF SoundRows, to
<1> QED BY <1>3 DEF to

\* A sweep on its way has clients to visit.
SweepsTyped ==
  /\ sweep = [s \in Sweepers |-> sweep[s]]
  /\ \A s \in Sweepers : sweep[s] # None => sweep[s] \in SweepRow /\ sweep[s].todo # <<>>

Visit == [c : Clients, plan : Plans, paid : Day \cup {None}]

LEMMA SweepRowIs ==
  ASSUME SweepsTyped, NEW s \in Sweepers, sweep[s] # None
  PROVE  /\ sweep[s].todo \in Seq(Visit) /\ Head(sweep[s].todo) \in Visit
         /\ Tail(sweep[s].todo) \in Seq(Visit)
<1>1. sweep[s] \in SweepRow /\ sweep[s].todo # <<>>
  BY DEF SweepsTyped
<1>2. sweep[s].todo \in Seq(Visit)
  BY <1>1 DEF SweepRow, Visit
<1> DEFINE todo == sweep[s].todo
<1> HIDE DEF todo
<1>3. todo \in Seq(Visit) /\ todo # <<>>
  BY <1>1, <1>2 DEF todo
<1>4. Head(todo) \in Visit /\ Tail(todo) \in Seq(Visit)
  BY <1>3
<1> QED BY <1>2, <1>4 DEF todo

LEMMA SweepSound ==
  ASSUME IInv, SoundRows(invoice), SweepsTyped, NEW s \in Sweepers, SweepClient(s)
  PROVE  SoundRows(invoice')
<1> USE DEF IInv, BooksInv, RegistryTyped
<1>1. ASSUME NEW c, NEW targets, NEW raised, NEW billed, SoundRows(raised),
             targets \subseteq DOMAIN raised, Collects(s, c, targets, raised, billed)
      PROVE  SoundRows(invoice')
  <2>1. CASE invoice' = raised
    BY <1>1, <2>1
  <2>2. CASE \E i \in targets : invoice' = [raised EXCEPT ![i] = SettledInvoice(raised[i])]
    <3>1. PICK i \in targets : invoice' = [raised EXCEPT ![i] = SettledInvoice(raised[i])]
      BY <2>2
    <3>2. i \in DOMAIN raised /\ Sound(raised[i])
      BY <1>1 DEF SoundRows
    <3>3. Sound(SettledInvoice(raised[i]))
      BY <3>2, SettledSound
    <3> QED BY <1>1, <3>1, <3>2, <3>3, WrittenSound
  <2> QED BY <1>1, <2>1, <2>2 DEF Collects
<1> DEFINE row == Head(sweep[s].todo)
           c   == row.c
           due == Billable(c, plan[row.plan]) /\ IsDue(row.paid)
           new == IF due /\ Awaiting(c) = {} THEN NewInvoices(c, Renewal(row.paid)) ELSE {}
           newest == {i \in Awaiting(c) : due /\ \A j \in Awaiting(c) : j <= i}
<1>2. \/ Collects(s, c, newest, invoice, client)
      \/ \E inv \in new : Collects(s, c, {Len(invoice) + 1}, Append(invoice, inv), FeeInvoiced(c, inv))
  BY Zenon DEF SweepClient
<1>3. CASE Collects(s, c, newest, invoice, client)
  <2>1. newest \subseteq DOMAIN invoice
    BY DEF Awaiting, InvoicesOf
  <2> QED BY <1>1, <1>3, <2>1
<1>4. ASSUME NEW inv \in new,
             Collects(s, c, {Len(invoice) + 1}, Append(invoice, inv), FeeInvoiced(c, inv))
      PROVE  SoundRows(invoice')
  <2>1. inv \in NewInvoices(c, Renewal(row.paid)) /\ client[c] # None
    BY <1>4 DEF Billable
  <2>2. sweep[s] # None
    BY DEF SweepClient
  <2>3. c \in Clients /\ row.paid \in Day \cup {None}
    BY <2>2, SweepRowIs DEF Visit
  <2>4. Renewal(row.paid) \in InvoiceBody
    BY <2>3 DEF Renewal, InvoiceBody, Purposes, Or, Day
  <2> HIDE DEF row, c, new
  <2>5. Sound(inv)
    BY <2>1, <2>3, <2>4, NewInvoiceSound DEF Shaped
  <2> DEFINE raised == Append(invoice, inv)
             target == {Len(invoice) + 1}
  <2>6. SoundRows(raised)
    BY <2>5, AppendSound
  <2>7. target \subseteq DOMAIN raised
    <3>1. DOMAIN raised = DOMAIN invoice \cup {Len(invoice) + 1}
      BY Appended DEF Shaped
    <3> QED BY <3>1
  <2>8. Collects(s, c, target, raised, FeeInvoiced(c, inv))
    BY <1>4
  <2> HIDE DEF raised, target
  <2> QED BY <1>1, <2>6, <2>7, <2>8, Zenon
<1> QED BY <1>2, <1>3, <1>4

\* A step writes no row that asks for other than what it itemises.
LEMMA RowsStaySound ==
  ASSUME IInv, SoundRows(invoice), SweepsTyped, [Next]_vars
  PROVE  SoundRows(invoice')
<1> USE DEF IInv, BooksInv, RegistryTyped
<1>1. ASSUME NEW c \in Clients, NEW body \in InvoiceBodies, RaiseInvoice(c, body) \/ RaiseCutShort(c, body)
      PROVE  SoundRows(invoice')
  <2>1. client[c] # None /\ \E inv \in NewInvoices(c, body) : invoice' = Append(invoice, inv)
    BY <1>1 DEF RaiseInvoice, RaiseCutShort
  <2>2. PICK inv \in NewInvoices(c, body) : invoice' = Append(invoice, inv)
    BY <2>1
  <2>3. body \in InvoiceBody
    BY OfficeAssumption
  <2>4. Sound(inv)
    BY <2>1, <2>3, NewInvoiceSound DEF Shaped
  <2> QED BY <2>2, <2>4, AppendSound
<1>2. ASSUME NEW i \in DOMAIN invoice, Cancel(i) PROVE SoundRows(invoice')
  <2>1. invoice' = [invoice EXCEPT ![i] = [invoice[i] EXCEPT !.status = "cancelled"]]
    BY <1>2 DEF Cancel
  <2>2. Sound([invoice[i] EXCEPT !.status = "cancelled"])
    BY MarkedSound DEF SoundRows
  <2> QED BY <2>1, <2>2, WrittenSound
<1>3. ASSUME NEW i \in DOMAIN invoice, Pay(i) PROVE SoundRows(invoice')
  <2>1. invoice' = [invoice EXCEPT ![i] = SettledInvoice(invoice[i])]
    BY <1>3 DEF Pay
  <2>2. Sound(SettledInvoice(invoice[i]))
    BY SettledSound DEF SoundRows
  <2> QED BY <2>1, <2>2, WrittenSound
<1>4. ASSUME Tick PROVE SoundRows(invoice')
  <2>1. /\ DOMAIN invoice' = DOMAIN invoice
        /\ \A i \in DOMAIN invoice : \/ invoice'[i] = invoice[i]
                                     \/ invoice'[i] = [invoice[i] EXCEPT !.status = "overdue"]
    BY <1>4 DEF Tick, MarkOverdue
  <2>2. \A i \in DOMAIN invoice : Sound(invoice[i]) /\ Sound([invoice[i] EXCEPT !.status = "overdue"])
    BY MarkedSound DEF SoundRows
  <2> QED BY <2>1, <2>2 DEF SoundRows
<1>5. ASSUME NEW s \in Sweepers, SweepClient(s) PROVE SoundRows(invoice')
  BY <1>5, SweepSound
<1>6. CASE invoice' = invoice
  BY <1>6
<1>7. ASSUME NEW q \in Quotes, DeskOperation(q) PROVE invoice' = invoice
  BY <1>7 DEF DeskOperation, Draft, QuoteRequest, RequestMailed, Sent, EditQuote, Send, Settle,
              DeleteQuote, CreateFromQuote, Desk, billing
<1>8. ASSUME NEW c \in Clients, EditCompany(c) \/ EditClient(c) PROVE invoice' = invoice
  BY <1>8 DEF EditCompany, EditClient, Edit
<1>9. ASSUME \/ RenewCheck \/ NewDay \/ Restart
             \/ \E p \in Plans, row \in PlanEdits : WritePlan(p, row)
             \/ \E p \in Plans : DeletePlan(p)
             \/ \E c \in Clients : Reprice(c) \/ SetAutoRenew(c) \/ CloseCompany(c)
             \/ \E c \in Clients, body \in NewClients : CreateCompany(c, body)
             \/ \E c \in Clients, n \in 0 .. MaxStores : StoresChange(c, n)
      PROVE  invoice' = invoice
  BY <1>9 DEF RenewCheck, NewDay, Restart, WritePlan, DeletePlan, Reprice, SetAutoRenew,
              CloseCompany, DeleteCompany, CreateCompany, StoresChange
<1>10. CASE UNCHANGED vars
  BY <1>6, <1>10 DEF vars, billing
<1>11. CASE Next
  BY <1>1, <1>2, <1>3, <1>4, <1>5, <1>6, <1>7, <1>8, <1>9, <1>11 DEF Next, CutShort
<1> QED BY <1>10, <1>11

-----------------------------------------------------------------------------
(* The sweeps, the clock and the clients in hand. *)

\* What a sweep lists is a visit of each active client with a plan.
LEMMA ListedIs ==
  ASSUME RegistryTyped
  PROVE  Listed \in Seq(Visit)
<1> DEFINE S  == {c \in Clients : client[c] # None /\ client[c].status = "active"
                                  /\ client[c].plan # None}
           cs == SetToSeq(S)
           n  == Cardinality(S)
<1>1. IsFiniteSet(S)
  BY OfficeAssumption, FS_Subset
<1>2. ASSUME NEW c \in S PROVE [c |-> c, plan |-> client[c].plan, paid |-> client[c].paid] \in Visit
  BY DEF RegistryTyped, ClientRow, Visit
<1>3. Listed = [i \in DOMAIN cs |-> [c |-> cs[i], plan |-> client[cs[i]].plan, paid |-> client[cs[i]].paid]]
  BY DEF Listed
<1> HIDE DEF S
<1>4. n \in Nat /\ ExistsBijection(1 .. n, S)
  BY <1>1, FS_CardinalityType
<1>5. \E f \in [1 .. n -> S] : IsInjective(f)
  BY <1>4 DEF ExistsBijection, Bijection, Injection
<1>6. cs \in [1 .. n -> S]
  BY <1>5 DEF SetToSeq
<1> HIDE DEF cs, n
<1>7. Listed = [i \in 1 .. n |-> [c |-> cs[i], plan |-> client[cs[i]].plan, paid |-> client[cs[i]].paid]]
  BY <1>3, <1>6
<1>8. \A i \in 1 .. n : [c |-> cs[i], plan |-> client[cs[i]].plan, paid |-> client[cs[i]].paid] \in Visit
  BY <1>2, <1>6
<1> QED BY <1>4, <1>7, <1>8

LEMMA SweepingIs ==
  ASSUME SweepsTyped, NEW s \in Sweepers, NEW todo \in Seq(Visit), NEW awaiting \in BOOLEAN,
         Sweeping(s, todo, awaiting)
  PROVE  SweepsTyped'
<1> DEFINE new == IF todo = <<>> THEN None ELSE [todo |-> todo, awaiting |-> awaiting]
<1>1. sweep' = [sweep EXCEPT ![s] = new]
  BY DEF Sweeping
<1>2. new # None => new \in SweepRow /\ new.todo # <<>>
  BY DEF SweepRow, Visit
<1> HIDE DEF new
<1>3. /\ sweep' = [t \in Sweepers |-> sweep'[t]] /\ sweep'[s] = new
      /\ \A t \in Sweepers : t # s => sweep'[t] = sweep[t]
  BY <1>1 DEF SweepsTyped
<1> QED BY <1>2, <1>3 DEF SweepsTyped

LEMMA SweepsStayTyped ==
  ASSUME RegistryTyped, SweepsTyped, [Next]_vars
  PROVE  SweepsTyped'
<1>1. CASE Tick \/ RenewCheck
  <2>1. \E s \in Sweepers : Sweeping(s, Listed, FALSE)
    BY <1>1 DEF Tick, TickStarts, RenewCheck, Sweepers
  <2> QED BY <2>1, ListedIs, SweepingIs
<1>2. ASSUME NEW s \in Sweepers, SweepClient(s) PROVE SweepsTyped'
  <2>1. sweep[s] # None /\ \E settles \in BOOLEAN : Sweeping(s, Tail(sweep[s].todo), settles)
    BY <1>2 DEF SweepClient, Collects, SweepMoves
  <2> QED BY <2>1, SweepRowIs, SweepingIs
<1>3. CASE Restart \/ CutShort
  <2>1. sweep' = [s \in Sweepers |-> None]
    BY <1>3 DEF Restart, CutShort, RaiseCutShort
  <2> QED BY <2>1 DEF SweepsTyped
<1>4. CASE sweep' = sweep
  BY <1>4 DEF SweepsTyped
<1>5. ASSUME NEW q \in Quotes, DeskOperation(q) PROVE sweep' = sweep
  BY <1>5 DEF DeskOperation, Draft, QuoteRequest, RequestMailed, Sent, EditQuote, Send, Settle,
              DeleteQuote, CreateFromQuote, Desk, billing
<1>6. ASSUME \/ \E c \in Clients : EditCompany(c) \/ EditClient(c)
             \/ \E c \in Clients, body \in InvoiceBodies : RaiseInvoice(c, body)
             \/ \E i \in DOMAIN invoice : Cancel(i) \/ Pay(i)
      PROVE  sweep' = sweep
  BY <1>6 DEF EditCompany, EditClient, Edit, RaiseInvoice, Cancel, Pay
<1>7. ASSUME \/ NewDay
             \/ \E p \in Plans, row \in PlanEdits : WritePlan(p, row)
             \/ \E p \in Plans : DeletePlan(p)
             \/ \E c \in Clients : Reprice(c) \/ SetAutoRenew(c) \/ CloseCompany(c)
             \/ \E c \in Clients, body \in NewClients : CreateCompany(c, body)
             \/ \E c \in Clients, n \in 0 .. MaxStores : StoresChange(c, n)
      PROVE  sweep' = sweep
  BY <1>7 DEF NewDay, WritePlan, DeletePlan, Reprice, SetAutoRenew,
              CloseCompany, DeleteCompany, CreateCompany, StoresChange
<1>8. CASE UNCHANGED vars
  BY <1>4, <1>8 DEF vars, billing
<1>9. CASE Next
  BY <1>1, <1>2, <1>3, <1>4, <1>5, <1>6, <1>7, <1>9 DEF Next
<1> QED BY <1>8, <1>9

LEMMA ClockAndHands ==
  ASSUME today \in 0 .. LastDay, byHand \subseteq Clients, [Next]_vars
  PROVE  (today \in 0 .. LastDay)' /\ (byHand \subseteq Clients)'
<1>1. CASE NewDay
  BY <1>1, OfficeAssumption DEF NewDay
<1>2. ASSUME NEW c \in Clients, EditCompany(c) \/ EditClient(c) PROVE today' = today /\ byHand' \subseteq Clients
  BY <1>2 DEF EditCompany, EditClient, Edit
<1>3. ASSUME NEW c \in Clients, \/ \E body \in InvoiceBodies : RaiseCutShort(c, body)
                                \/ \E body \in NewClients : CreateCompany(c, body)
      PROVE  today' = today /\ byHand' \subseteq Clients
  BY <1>3 DEF RaiseCutShort, CreateCompany
<1>4. ASSUME NEW q \in Quotes, DeskOperation(q) PROVE today' = today /\ byHand' \subseteq Clients
  BY <1>4 DEF DeskOperation, Draft, QuoteRequest, RequestMailed, Sent, EditQuote, Send, Settle,
              DeleteQuote, CreateFromQuote, Desk, Registry, billing
<1>5. ASSUME \/ \E c \in Clients, body \in InvoiceBodies : RaiseInvoice(c, body)
             \/ \E i \in DOMAIN invoice : Cancel(i) \/ Pay(i)
             \/ Tick \/ RenewCheck \/ Restart
             \/ \E s \in Sweepers : SweepClient(s)
             \/ \E p \in Plans, row \in PlanEdits : WritePlan(p, row)
             \/ \E p \in Plans : DeletePlan(p)
             \/ \E c \in Clients : Reprice(c) \/ SetAutoRenew(c) \/ CloseCompany(c)
             \/ \E c \in Clients, n \in 0 .. MaxStores : StoresChange(c, n)
      PROVE  today' = today /\ byHand' = byHand
  BY <1>5 DEF RaiseInvoice, Cancel, Pay, Tick, RenewCheck, Restart, SweepClient, WritePlan, DeletePlan,
              Reprice, SetAutoRenew, CloseCompany, DeleteCompany, StoresChange
<1>6. CASE UNCHANGED vars
  BY <1>6 DEF vars, billing
<1>7. CASE Next
  BY <1>1, <1>2, <1>3, <1>4, <1>5, <1>7 DEF Next, CutShort
<1> QED BY <1>6, <1>7

-----------------------------------------------------------------------------
(* The quotations' figures. *)

\* The tills cover the stores, and where the split is per store, they are its sum.
Estate(row) ==
  row.tills >= row.stores /\ (Len(row.split) = row.stores => SumOf(row.split) = row.tills)

QuotesFit == \A q \in Quotes : Live(q) => quote[q] \in QuoteRow /\ Estate(quote[q])

QuoteConfig ==
  [stores : Nat \ {0}, tills : Nat \ {0}, addons : SUBSET Features, split : Seq(Nat \ {0}),
   basis : {"store", "till"}, rates : Rates]

LEMMA SplitSum ==
  ASSUME NEW s \in Seq(Nat \ {0})
  PROVE  s \in Seq(Nat) /\ Len(s) \in Nat /\ SumOf(s) \in Nat
<1>1. s \in Seq(Nat) /\ Len(s) \in Nat
  OBVIOUS
<1> QED BY <1>1, SumOfSeq

\* An estate resolved: it has stores, tills for each, and they are those of its split.
LEMMA ResolvedIs ==
  ASSUME NEW config \in QuoteConfig, Valid(config)
  PROVE  LET c == ResolveQuoteConfig(config)
         IN /\ c.stores \in Nat \ {0} /\ c.tills \in Nat \ {0} /\ c.tills >= c.stores
            /\ c.addons \subseteq Features /\ c.split \in Seq(Nat \ {0})
            /\ c.basis \in {"store", "till"} /\ c.rates \in Rates
            /\ Len(c.split) = c.stores => SumOf(c.split) = c.tills
<1> DEFINE c == ResolveQuoteConfig(config)
<1>0. /\ config.stores \in Nat \ {0} /\ config.tills \in Nat \ {0}
      /\ config.addons \subseteq Features /\ config.split \in Seq(Nat \ {0})
      /\ config.basis \in {"store", "till"} /\ config.rates \in Rates
  BY DEF QuoteConfig
<1>1. c.tills >= c.stores
  BY DEF Valid, ValidQuoteConfig
<1>2. CASE config.split = <<>>
  <2>1. c = config
    BY <1>2 DEF ResolveQuoteConfig
  <2>2. Len(config.split) = 0
    BY <1>2
  <2> HIDE DEF c
  <2> QED BY <1>0, <1>1, <2>1, <2>2 DEF c
<1>3. CASE config.split # <<>>
  <2> DEFINE n == Len(config.split)
             sum == SumOf(config.split)
  <2>1. c = [config EXCEPT !.stores = n, !.tills = sum]
    BY <1>3 DEF ResolveQuoteConfig
  <2>2. n \in Nat /\ sum \in Nat
    BY <1>0, SplitSum
  <2>3. n # 0
    BY <1>0, <1>3
  <2>4. /\ c.stores = n /\ c.tills = sum /\ c.addons = config.addons /\ c.split = config.split
        /\ c.basis = config.basis /\ c.rates = config.rates
    BY <2>1 DEF QuoteConfig
  <2> HIDE DEF c, n, sum
  <2>5. c.stores \in Nat \ {0} /\ c.tills \in Nat \ {0}
    BY <1>1, <2>2, <2>3, <2>4
  <2>6. SumOf(c.split) = c.tills
    BY <2>4 DEF sum
  <2> QED BY <1>0, <1>1, <2>4, <2>5, <2>6 DEF c
<1> QED BY <1>2, <1>3

\* The price of an estate is whole.
LEMMA PriceIs ==
  ASSUME NEW config \in QuoteConfig, Valid(config)
  PROVE  PriceQuote(config).monthly \in Nat /\ PriceQuote(config).setup \in Nat
<1> DEFINE c     == ResolveQuoteConfig(config)
           store == Or(c.rates.store, ListStore)
           till  == Or(c.rates.till, ListTill)
           base  == IF c.basis = "till" THEN c.tills * till
                    ELSE c.stores * store + (c.tills - c.stores) * till
           extra == [key \in c.addons |-> QuoteAddonRate(c.rates, key) * AddonQuantity(key, c.stores)]
<1>1. /\ c.stores \in Nat \ {0} /\ c.tills \in Nat \ {0} /\ c.tills >= c.stores
      /\ c.addons \subseteq Features /\ c.basis \in {"store", "till"} /\ c.rates \in Rates
  BY ResolvedIs
<1>2. PriceQuote(config).monthly = base + SumOf(extra) /\ PriceQuote(config).setup = Or(c.rates.setup, ListSetup)
  BY DEF PriceQuote
<1> HIDE DEF c
<1>3. store \in Nat /\ till \in Nat /\ Or(c.rates.setup, ListSetup) \in Nat
  BY <1>1, PriceAssumption DEF Or, Rates
<1>4. base \in Nat
  <2>1. c.tills - c.stores \in Nat
    BY <1>1
  <2> DEFINE others == c.tills - c.stores
  <2> HIDE DEF store, till, others
  <2>2. c.tills * till \in Nat /\ c.stores * store \in Nat /\ others * till \in Nat
    BY <1>1, <1>3, <2>1, Times DEF others
  <2> QED BY <2>2 DEF others
<1>5. SumOf(extra) \in Nat
  <2>1. ASSUME NEW key \in c.addons PROVE extra[key] \in Nat
    <3>1. QuoteAddonRate(c.rates, key) \in Nat
      BY <1>1, PriceAssumption DEF QuoteAddonRate, Or, Rates, Prices
    <3>2. AddonQuantity(key, c.stores) \in Nat
      BY <1>1 DEF AddonQuantity, AtLeast
    <3> QED BY <3>1, <3>2, Times
  <2>2. DOMAIN extra = c.addons /\ IsFiniteSet(c.addons)
    BY <1>1, PriceAssumption, FS_Subset
  <2> HIDE DEF extra
  <2> QED BY <2>1, <2>2, SumOfIs, SumIsNat
<1> HIDE DEF base, extra
<1> QED BY <1>2, <1>3, <1>4, <1>5

\* A configuration's figures make a row of the desk.
LEMMA RepricedFits ==
  ASSUME NEW row \in QuoteRow, NEW config \in QuoteConfig, Valid(config),
         NEW kept, kept.basis \in {"store", "till"}, kept.rates \in Rates
  PROVE  Repriced(row, config, kept) \in QuoteRow /\ Estate(Repriced(row, config, kept))
<1> DEFINE c == ResolveQuoteConfig(config)
           monthly == PriceQuote(config).monthly
           setup == PriceQuote(config).setup
           new == [row EXCEPT !.stores = c.stores, !.tills = c.tills, !.addons = c.addons,
                              !.split = c.split, !.basis = kept.basis, !.rates = kept.rates,
                              !.monthly = monthly, !.setup = setup]
<1>1. Repriced(row, config, kept) = new
  BY DEF Repriced
<1>2. /\ c.stores \in Nat \ {0} /\ c.tills \in Nat \ {0} /\ c.tills >= c.stores
      /\ c.addons \subseteq Features /\ c.split \in Seq(Nat \ {0})
      /\ Len(c.split) = c.stores => SumOf(c.split) = c.tills
  BY ResolvedIs
<1>3. monthly \in Nat /\ setup \in Nat
  BY PriceIs
<1> HIDE DEF c, monthly, setup
<1>4. new \in QuoteRow
  BY <1>2, <1>3 DEF QuoteRow
<1>5. new.stores = c.stores /\ new.tills = c.tills /\ new.split = c.split
  BY DEF QuoteRow
<1> HIDE DEF new
<1>6. Estate(new)
  BY <1>2, <1>5 DEF Estate
<1> QED BY <1>1, <1>4, <1>6

LEMMA ListPrices ==
  /\ ListPricing.basis \in {"store", "till"} /\ ListPricing.rates \in Rates
  /\ BlankQuote \in QuoteRow
<1> QED BY DEF ListPricing, ListRates, Rates, Prices, BlankQuote, QuoteRow

LEMMA ConfigFits ==
  ASSUME NEW body \in ConfigBody, NEW row \in QuoteRow,
         NEW pricing, pricing.basis \in {"store", "till"}, pricing.rates \in Rates
  PROVE  ConfigFrom(body, row, pricing) \in QuoteConfig
<1>1. /\ Given(body.stores, row.stores) \in Nat \ {0} /\ Given(body.tills, row.tills) \in Nat \ {0}
      /\ Given(body.addons, row.addons) \in SUBSET Features /\ body.split \in Seq(Nat \ {0})
  BY DEF Given, ConfigBody, QuoteRow
<1> QED BY <1>1 DEF ConfigFrom, QuoteConfig

LEMMA PricingFits ==
  ASSUME NEW body \in ConfigBody, NEW row \in QuoteRow
  PROVE  /\ QuotePricingFrom(body, row).basis \in {"store", "till"}
         /\ QuotePricingFrom(body, row).rates \in Rates
<1>1. body.rates \in BodyRates /\ row.rates \in Rates
  BY DEF ConfigBody, BodyRates, QuoteRow
<1>2. QuotePricingFrom(body, row).rates \in Rates
  BY <1>1, PricingIs
<1>3. QuotePricingFrom(body, row).basis \in {"store", "till"}
  BY DEF QuotePricingFrom, Given, ConfigBody, QuoteRow
<1> QED BY <1>2, <1>3

\* The forms state estates with a till at least for each store.
LEMMA FormsFit ==
  ASSUME NEW row \in QuoteRow, Estate(row)
  PROVE  Untouched \in ConfigBody /\ SendForm(row) \in ConfigBody /\ EditForm(row) \in ConfigBody
<1>1. Untouched \in ConfigBody
  BY DEF Untouched, ConfigBody
<1>2. row.stores \in Nat \ {0} /\ row.tills \in Nat \ {0} /\ row.tills >= row.stores
  BY DEF QuoteRow, Estate
<1>3. TillsPerStore(row) \in Nat \ {0}
  <2>1. CASE row.tills % row.stores = 0
    <3> DEFINE n == row.tills \div row.stores
    <3>1. n \in Nat /\ row.tills = row.stores * n + (row.tills % row.stores)
      BY <1>2, Division
    <3> HIDE DEF n
    <3>2. n # 0
      BY <1>2, <2>1, <3>1
    <3> QED BY <2>1, <3>1, <3>2 DEF TillsPerStore, n
  <2>2. CASE row.tills % row.stores # 0
    BY <2>2 DEF TillsPerStore
  <2> QED BY <2>1, <2>2
<1> DEFINE tills == row.stores * TillsPerStore(row)
<1>4. tills \in Nat \ {0}
  <2> DEFINE a == row.stores
             b == TillsPerStore(row)
  <2>1. a \in Nat \ {0} /\ b \in Nat \ {0}
    BY <1>2, <1>3
  <2> HIDE DEF a, b
  <2>2. a * b \in Nat /\ a * b # 0
    BY <2>1
  <2> QED BY <2>2 DEF a, b
<1>5. row.addons \in SUBSET Features /\ row.split \in Seq(Nat \ {0}) /\ row.basis \in {"store", "till"}
  BY DEF QuoteRow
<1>6. row.rates \in [store : Nat \cup {None}, till : Nat \cup {None}, setup : Nat \cup {None},
                     addons : Prices \cup {Kept}]
  BY DEF QuoteRow, Rates
<1>7. SendForm(row) = [Untouched EXCEPT !.stores = row.stores, !.tills = tills, !.addons = row.addons,
                                        !.split = row.split]
  BY DEF SendForm
<1>8. EditForm(row) = [SendForm(row) EXCEPT !.basis = row.basis, !.rates = row.rates]
  BY DEF EditForm
<1> HIDE DEF tills
<1>9. SendForm(row) \in ConfigBody
  BY <1>1, <1>2, <1>4, <1>5, <1>7 DEF ConfigBody
<1>10. EditForm(row) \in ConfigBody
  BY <1>5, <1>6, <1>8, <1>9 DEF ConfigBody
<1> QED BY <1>1, <1>9, <1>10

LEMMA FitWritten ==
  ASSUME QuotesTyped, QuotesFit, NEW q \in Quotes, NEW new, quote' = [quote EXCEPT ![q] = new],
         new \notin {None, Gone} => new \in QuoteRow /\ Estate(new)
  PROVE  QuotesFit'
<1>1. /\ quote'[q] = new /\ \A r \in Quotes : r # q => quote'[r] = quote[r]
  BY DEF QuotesTyped
<1>2. ASSUME NEW r \in Quotes, quote'[r] \notin {None, Gone}
      PROVE  quote'[r] \in QuoteRow /\ Estate(quote'[r])
  BY <1>1, <1>2 DEF QuotesFit, Live
<1> QED BY <1>2 DEF QuotesFit, Live, Estate

\* A mark on a row leaves its estate.
LEMMA FitMarked ==
  ASSUME NEW row \in QuoteRow, Estate(row)
  PROVE  /\ \A v \in {"new", "quoted", "accepted", "declined"} :
              [row EXCEPT !.status = v] \in QuoteRow /\ Estate([row EXCEPT !.status = v])
         /\ \A v \in {"no", "failed", "yes"} :
              [row EXCEPT !.emailed = v] \in QuoteRow /\ Estate([row EXCEPT !.emailed = v])
         /\ \A v \in Clients \cup {None} :
              [row EXCEPT !.company = v] \in QuoteRow /\ Estate([row EXCEPT !.company = v])
<1>1. ASSUME NEW new, new.tills = row.tills, new.stores = row.stores, new.split = row.split
      PROVE  Estate(new)
  BY <1>1 DEF Estate
<1>2. ASSUME NEW v \in {"new", "quoted", "accepted", "declined"}
      PROVE  [row EXCEPT !.status = v] \in QuoteRow /\ Estate([row EXCEPT !.status = v])
  <2> DEFINE new == [row EXCEPT !.status = v]
  <2>1. new \in QuoteRow /\ new.tills = row.tills /\ new.stores = row.stores /\ new.split = row.split
    BY DEF QuoteRow
  <2> HIDE DEF new
  <2> QED BY <1>1, <2>1 DEF new
<1>3. ASSUME NEW v \in {"no", "failed", "yes"}
      PROVE  [row EXCEPT !.emailed = v] \in QuoteRow /\ Estate([row EXCEPT !.emailed = v])
  <2> DEFINE new == [row EXCEPT !.emailed = v]
  <2>1. new \in QuoteRow /\ new.tills = row.tills /\ new.stores = row.stores /\ new.split = row.split
    BY DEF QuoteRow
  <2> HIDE DEF new
  <2> QED BY <1>1, <2>1 DEF new
<1>4. ASSUME NEW v \in Clients \cup {None}
      PROVE  [row EXCEPT !.company = v] \in QuoteRow /\ Estate([row EXCEPT !.company = v])
  <2> DEFINE new == [row EXCEPT !.company = v]
  <2>1. new \in QuoteRow /\ new.tills = row.tills /\ new.stores = row.stores /\ new.split = row.split
    BY DEF QuoteRow
  <2> HIDE DEF new
  <2> QED BY <1>1, <2>1 DEF new
<1> QED BY <1>2, <1>3, <1>4

\* Whatever the desk writes of a quotation fits.
LEMMA DeskFits ==
  ASSUME QuotesTyped, QuotesFit, NEW q \in Quotes, DeskOperation(q)
  PROVE  QuotesFit'
<1>0. /\ BlankQuote \in QuoteRow /\ ListPricing.basis \in {"store", "till"} /\ ListPricing.rates \in Rates
      /\ Live(q) => quote[q] \in QuoteRow /\ Estate(quote[q])
      /\ Configs \cup Corrections \subseteq ConfigBody
  BY ListPrices, QuoteAssumption DEF QuotesFit
<1>1. ASSUME NEW body \in Configs, Draft(q, body) PROVE QuotesFit'
  <2> DEFINE pricing == QuotePricingFrom(body, BlankQuote)
             config  == ConfigFrom(body, BlankQuote, pricing)
             new     == Repriced(BlankQuote, config, pricing)
  <2>1. Valid(config) /\ quote' = [quote EXCEPT ![q] = new]
    BY <1>1 DEF Draft
  <2>2. pricing.basis \in {"store", "till"} /\ pricing.rates \in Rates
    BY <1>0, PricingFits
  <2> HIDE DEF pricing
  <2>3. config \in QuoteConfig
    BY <1>0, <2>2, ConfigFits
  <2> HIDE DEF config
  <2>4. new \in QuoteRow /\ Estate(new)
    BY <1>0, <2>1, <2>2, <2>3, RepricedFits
  <2> HIDE DEF new
  <2> QED BY <2>1, <2>4, FitWritten
<1>2. ASSUME NEW body \in Configs, QuoteRequest(q, body) PROVE QuotesFit'
  <2> DEFINE stated == ConfigFrom(body, BlankQuote, ListPricing)
             config == [stated EXCEPT !.split = <<>>]
             base   == [BlankQuote EXCEPT !.source = "website"]
             new    == Repriced(base, config, ListPricing)
  <2>1. Valid(config) /\ quote' = [quote EXCEPT ![q] = new]
    BY <1>2 DEF QuoteRequest
  <2>2. stated \in QuoteConfig
    BY <1>0, ConfigFits
  <2> HIDE DEF stated
  <2>e. <<>> \in Seq(Nat \ {0})
    OBVIOUS
  <2>3. config \in QuoteConfig
    BY <2>2, <2>e DEF QuoteConfig
  <2>4. base \in QuoteRow
    BY <1>0 DEF QuoteRow
  <2> HIDE DEF config, base
  <2>5. new \in QuoteRow /\ Estate(new)
    BY <1>0, <2>1, <2>3, <2>4, RepricedFits
  <2> HIDE DEF new
  <2> QED BY <2>1, <2>5, FitWritten
<1>3. ASSUME Live(q), NEW body \in Corrections \cup {EditForm(quote[q])}, EditQuote(q, body)
      PROVE  QuotesFit'
  <2> DEFINE pricing == QuotePricingFrom(body, quote[q])
             config  == ConfigFrom(body, quote[q], pricing)
             new     == Repriced(quote[q], config, ListPricing)
  <2>1. Valid(config) /\ quote' = [quote EXCEPT ![q] = new]
    BY <1>3 DEF EditQuote
  <2>2. body \in ConfigBody
    BY <1>0, <1>3, FormsFit
  <2>3. pricing.basis \in {"store", "till"} /\ pricing.rates \in Rates
    BY <1>0, <1>3, <2>2, PricingFits
  <2> HIDE DEF pricing
  <2>4. config \in QuoteConfig
    BY <1>0, <1>3, <2>2, <2>3, ConfigFits
  <2> HIDE DEF config
  <2>5. new \in QuoteRow /\ Estate(new)
    BY <1>0, <1>3, <2>1, <2>4, RepricedFits
  <2> HIDE DEF new
  <2> QED BY <2>1, <2>5, FitWritten
<1>4. ASSUME Live(q), NEW body \in Corrections \cup {SendForm(quote[q]), Untouched}, Send(q, body)
      PROVE  QuotesFit'
  <2> DEFINE config == ConfigFrom(body, quote[q], ListPricing)
             kept   == QuotePricingFrom(body, quote[q])
             new    == Repriced(quote[q], config, kept)
  <2>1. quote' = quote \/ (Valid(config) /\ quote' = [quote EXCEPT ![q] = new])
    BY <1>4 DEF Send
  <2>2. body \in ConfigBody
    BY <1>0, <1>4, FormsFit
  <2>3. kept.basis \in {"store", "till"} /\ kept.rates \in Rates
    BY <1>0, <1>4, <2>2, PricingFits
  <2>4. config \in QuoteConfig
    BY <1>0, <1>4, <2>2, ConfigFits
  <2> HIDE DEF config, kept
  <2>5. Valid(config) => new \in QuoteRow /\ Estate(new)
    BY <1>0, <1>4, <2>3, <2>4, RepricedFits
  <2> HIDE DEF new
  <2>6. CASE quote' = quote
    BY <2>6 DEF QuotesFit, Live, Estate
  <2> QED BY <2>1, <2>5, <2>6, FitWritten
<1>5. CASE quote' = quote
  BY <1>5 DEF QuotesFit, Live, Estate
<1>6. ASSUME RequestMailed(q) \/ Sent(q) \/ \E outcome \in {"accepted", "declined"} : Settle(q, outcome)
      PROVE  QuotesFit'
  <2>1. \/ quote' = quote
        \/ Live(q) /\ \E v \in {"failed", "yes"} : quote' = [quote EXCEPT ![q] = [quote[q] EXCEPT !.emailed = v]]
        \/ Live(q) /\ \E v \in {"quoted", "accepted", "declined"} :
                         quote' = [quote EXCEPT ![q] = [quote[q] EXCEPT !.status = v]]
    BY <1>6 DEF RequestMailed, Sent, Settle, Open
  <2>2. CASE Live(q) /\ \E v \in {"failed", "yes"} : quote' = [quote EXCEPT ![q] = [quote[q] EXCEPT !.emailed = v]]
    <3>1. PICK v \in {"failed", "yes"} : quote' = [quote EXCEPT ![q] = [quote[q] EXCEPT !.emailed = v]]
      BY <2>2
    <3> DEFINE new == [quote[q] EXCEPT !.emailed = v]
    <3>2. new \in QuoteRow /\ Estate(new)
      BY <1>0, <2>2, FitMarked
    <3> HIDE DEF new
    <3> QED BY <3>1, <3>2, FitWritten DEF new
  <2>3. CASE Live(q) /\ \E v \in {"quoted", "accepted", "declined"} :
                           quote' = [quote EXCEPT ![q] = [quote[q] EXCEPT !.status = v]]
    <3>1. PICK v \in {"quoted", "accepted", "declined"} :
             quote' = [quote EXCEPT ![q] = [quote[q] EXCEPT !.status = v]]
      BY <2>3
    <3> DEFINE new == [quote[q] EXCEPT !.status = v]
    <3>2. new \in QuoteRow /\ Estate(new)
      BY <1>0, <2>3, FitMarked
    <3> HIDE DEF new
    <3> QED BY <3>1, <3>2, FitWritten DEF new
  <2> QED BY <1>5, <2>1, <2>2, <2>3
<1>7. ASSUME DeleteQuote(q) PROVE QuotesFit'
  <2>1. quote' = [quote EXCEPT ![q] = Gone]
    BY <1>7 DEF DeleteQuote
  <2> QED BY <2>1, FitWritten
<1>8. ASSUME NEW c \in Clients, NEW p, NEW n, CreateFromQuote(q, c, p, n) PROVE QuotesFit'
  <2> DEFINE new == [quote[q] EXCEPT !.company = c]
  <2>1. Live(q) /\ quote' = [quote EXCEPT ![q] = new]
    BY <1>8 DEF CreateFromQuote
  <2>2. new \in QuoteRow /\ Estate(new)
    BY <1>0, <2>1, FitMarked
  <2> HIDE DEF new
  <2> QED BY <2>1, <2>2, FitWritten
<1> QED BY <1>1, <1>2, <1>3, <1>4, <1>6, <1>7, <1>8 DEF DeskOperation

LEMMA QuotesStayFit ==
  ASSUME QuotesTyped, QuotesFit, [Next]_vars
  PROVE  QuotesFit'
<1>1. ASSUME NEW q \in Quotes, DeskOperation(q) PROVE QuotesFit'
  BY <1>1, DeskFits
<1>2. ASSUME NEW c \in Clients, CloseCompany(c) PROVE QuotesFit'
  <2>1. \A q \in Quotes : quote'[q] = quote[q] \/ (Live(q) /\ quote'[q] = [quote[q] EXCEPT !.company = None])
    BY <1>2 DEF CloseCompany, Unlinked
  <2>2. ASSUME NEW q \in Quotes, quote'[q] \notin {None, Gone} PROVE quote'[q] \in QuoteRow /\ Estate(quote'[q])
    <3>1. CASE quote'[q] = quote[q]
      BY <2>2, <3>1 DEF QuotesFit, Live
    <3>2. CASE Live(q) /\ quote'[q] = [quote[q] EXCEPT !.company = None]
      <4>1. quote[q] \in QuoteRow /\ Estate(quote[q])
        BY <3>2 DEF QuotesFit
      <4> DEFINE new == [quote[q] EXCEPT !.company = None]
      <4>2. None \in Clients \cup {None}
        OBVIOUS
      <4>3. new \in QuoteRow /\ Estate(new)
        BY <4>1, <4>2, FitMarked
      <4> HIDE DEF new
      <4> QED BY <3>2, <4>3, Zenon DEF new
    <3> QED BY <2>1, <3>1, <3>2
  <2> QED BY <2>2 DEF QuotesFit, Live, Estate
<1>3. CASE quote' = quote
  BY <1>3 DEF QuotesFit, Live, Estate
<1>4. CASE UNCHANGED vars
  BY <1>3, <1>4 DEF vars
<1>5. CASE Next
  BY <1>1, <1>2, <1>3, <1>5 DEF Next, Beside, CutShort, Restart
<1> QED BY <1>4, <1>5

LEMMA MailStays ==
  ASSUME mail \subseteq Mail, [Next]_vars
  PROVE  mail' \subseteq Mail
<1>1. ASSUME NEW q \in Quotes, DeskOperation(q) PROVE mail' \subseteq Mail
  <2>1. [q |-> q, for |-> "request"] \in Mail /\ [q |-> q, for |-> "send"] \in Mail
    BY DEF Mail
  <2> QED BY <1>1, <2>1 DEF DeskOperation, Draft, QuoteRequest, RequestMailed, Sent, EditQuote, Send,
              Settle, DeleteQuote, CreateFromQuote
<1>2. CASE mail' \in {mail, {}}
  BY <1>2
<1>3. CASE UNCHANGED vars
  BY <1>2, <1>3 DEF vars
<1>4. CASE Next
  BY <1>1, <1>2, <1>4 DEF Next, Beside, CutShort, Restart, CloseCompany
<1> QED BY <1>3, <1>4

-----------------------------------------------------------------------------
\* The figures: documents that add up, sweeps that list clients, estates that fit.
FiguresInv ==
  /\ SoundRows(invoice) /\ SweepsTyped
  /\ today \in 0 .. LastDay /\ byHand \subseteq Clients
  /\ QuotesFit /\ mail \subseteq Mail

LEMMA InitFigures == Init => FiguresInv
<1> SUFFICES ASSUME Init PROVE FiguresInv
  OBVIOUS
<1>1. PICK s \in Scenarios :
        /\ invoice = s.invoice /\ byHand = s.hand /\ today = 1 /\ sweep = [w \in Sweepers |-> None]
  BY DEF Init, BillingInit
<1>2. SoundRows(invoice)
  <2>1. invoice \in Seq(InvoiceRow) /\ \A i \in DOMAIN invoice :
          AddsUp(invoice[i]) /\ (invoice[i].status = "paid" => invoice[i].paidOn # None)
    BY <1>1, ScenarioAssumption
  <2>2. \A i \in DOMAIN invoice : invoice[i] \in InvoiceRow
    BY <2>1
  <2> QED BY <2>1, <2>2 DEF SoundRows, Sound
<1>3. SweepsTyped
  BY <1>1 DEF SweepsTyped
<1>4. today \in 0 .. LastDay /\ byHand \subseteq Clients
  BY <1>1, OfficeAssumption, ScenarioAssumption
<1>5. QuotesFit /\ mail \subseteq Mail
  BY DEF Init, QuotesFit, Live
<1> QED BY <1>2, <1>3, <1>4, <1>5 DEF FiguresInv

\* The branches of an accepted quote, whatever total is bought.
LEMMA EstatesFit ==
  ASSUME QuotesFit
  PROVE  EstateFits
<1> SUFFICES ASSUME NEW q \in Quotes, NEW n \in 1 .. MaxTills, Live(q), n >= quote[q].stores
             PROVE  LET split == QuoteStoreSplit(quote[q], n)
                    IN /\ Len(split) = quote[q].stores
                       /\ \A i \in DOMAIN split : split[i] >= 1
                       /\ SumOf(split) = n
  BY DEF EstateFits
<1> DEFINE row == quote[q]
           split == QuoteStoreSplit(row, n)
<1>1. row \in QuoteRow /\ Estate(row) /\ n \in Nat
  BY DEF QuotesFit
<1>2. row.stores \in Nat \ {0} /\ row.split \in Seq(Nat \ {0})
  BY <1>1 DEF QuoteRow
<1>3. CASE n = row.tills /\ Len(row.split) = row.stores
  <2>1. split = row.split
    BY <1>3 DEF QuoteStoreSplit
  <2>2. SumOf(row.split) = n
    BY <1>1, <1>3 DEF Estate
  <2>3. \A i \in DOMAIN row.split : row.split[i] >= 1
    BY <1>2
  <2> HIDE DEF row, split
  <2>4. Len(split) = row.stores /\ (\A i \in DOMAIN split : split[i] >= 1) /\ SumOf(split) = n
    BY <1>3, <2>1, <2>2, <2>3
  <2> QED BY <2>4 DEF split, row
<1>4. CASE ~(n = row.tills /\ Len(row.split) = row.stores)
  <2>1. split = EvenSplit(n, row.stores)
    BY <1>4 DEF QuoteStoreSplit
  <2> HIDE DEF row, split
  <2>2. Len(split) = row.stores /\ (\A i \in DOMAIN split : split[i] >= 1) /\ SumOf(split) = n
    BY <1>1, <1>2, <2>1, EvenSplitFits DEF row
  <2> QED BY <2>2 DEF split, row
<1> QED BY <1>3, <1>4

\* Every document asks for what it itemises, in whichever way it was priced and whatever
\* became of it; the branches an accepted quotation creates are the stores it quoted, with a
\* till each, and hold whatever total is bought (invoiceLineItems and quoteStoreSplit).
THEOREM FiguresAddUp == Spec => []OfficeSound
<1>1. IInv /\ FiguresInv /\ [Next]_vars => IInv' /\ FiguresInv'
  <2> SUFFICES ASSUME IInv, FiguresInv, [Next]_vars PROVE IInv' /\ FiguresInv'
    OBVIOUS
  <2>1. IInv'
    BY NextIInv
  <2>2. SoundRows(invoice)'
    BY RowsStaySound DEF FiguresInv, SoundRows, Sound
  <2>3. SweepsTyped'
    BY SweepsStayTyped DEF FiguresInv, IInv
  <2>4. (today \in 0 .. LastDay)' /\ (byHand \subseteq Clients)'
    BY ClockAndHands DEF FiguresInv
  <2>5. QuotesFit' /\ (mail \subseteq Mail)'
    BY QuotesStayFit, MailStays DEF FiguresInv, IInv
  <2> QED BY <2>1, <2>2, <2>3, <2>4, <2>5 DEF FiguresInv
<1>2. IInv /\ FiguresInv => OfficeSound
  <2> SUFFICES ASSUME IInv, FiguresInv PROVE OfficeSound
    OBVIOUS
  <2>1. BillingTypeOK
    BY DEF IInv, RegistryTyped, FiguresInv, SoundRows, Sound, SweepsTyped, BillingTypeOK
  <2>2. TypeOK
    BY <2>1 DEF FiguresInv, QuotesFit, Live, TypeOK
  <2>3. LinesAddUp
    BY DEF FiguresInv, SoundRows, Sound, LinesAddUp
  <2>4. EstateFits
    BY EstatesFit DEF FiguresInv
  <2> QED BY <2>2, <2>3, <2>4 DEF OfficeSound
<1> QED BY <1>1, <1>2, InitIInv, InitFigures, PTL DEF Spec

=============================================================================
