----------------------------- MODULE SortingProofs -----------------------------
(***************************************************************************)
(* Lemmas about least and greatest numbers and about sorting, for the      *)
(* proofs about temporal validity and about calls.                         *)
(***************************************************************************)
EXTENDS Sorting, FiniteSetsExt, FiniteSetTheorems, TLAPS

\* Every nonempty set of natural numbers has a least element.
LEMMA LeastExists ==
    ASSUME NEW S \in SUBSET Nat, S # {}
    PROVE  \E x \in S : \A y \in S : x <= y
<1>1. PICK x \in S : \A y \in S : ~ (<<y, x>> \in OpToRel(<, Nat))
    BY NatLessThanWellFounded, WFMin
<1>2. \A y \in S : ~ (y < x)
    BY <1>1 DEF OpToRel
<1>. QED
    BY <1>2

\* So has every nonempty set of natural numbers up to n a greatest one.
LEMMA GreatestExists ==
    ASSUME NEW n \in Nat, NEW S \in SUBSET (0 .. n), S # {}
    PROVE  \E x \in S : \A y \in S : x >= y
<1>. DEFINE R == {z \in Nat : \A y \in S : y <= z}
<1>1. n \in R
    OBVIOUS
<1>2. PICK x \in R : \A y \in R : x <= y
    BY <1>1, LeastExists
<1>3. ASSUME x \notin S PROVE FALSE
    <2>1. \A y \in S : y < x
        BY <1>2, <1>3
    <2>2. x - 1 \in R
        <3>1. PICK y \in S : TRUE
            OBVIOUS
        <3>. QED
            BY <1>2, <2>1, <3>1
    <2>. QED
        BY <1>2, <2>2
<1>. QED
    BY <1>2, <1>3

\* Min and Max are what their names say.
LEMMA MinOf ==
    ASSUME NEW S \in SUBSET Nat, S # {}
    PROVE  Min(S) \in S /\ \A y \in S : Min(S) <= y
BY LeastExists DEF Min

LEMMA MaxOf ==
    ASSUME NEW n \in Nat, NEW S \in SUBSET (0 .. n), S # {}
    PROVE  Max(S) \in S /\ \A y \in S : Max(S) >= y
BY GreatestExists DEF Max

\* What n elements can be told apart by, they can be put in order by: the
\* element whose rank is the greatest comes last.
LEMMA RanksSort ==
    ASSUME NEW S, NEW N \in Nat, NEW rank \in [S -> 0 .. N - 1],
           \A x, y \in S : rank[x] = rank[y] => x = y
    PROVE  \E m \in Nat : \E s \in [1 .. m -> S] :
               /\ S = {s[i] : i \in 1 .. m}
               /\ \A i, j \in 1 .. m : i < j => rank[s[i]] < rank[s[j]]
<1>. DEFINE Below(n) == {x \in S : rank[x] < n}
            Sorts(m, s, n) ==
                /\ Below(n) = {s[i] : i \in 1 .. m}
                /\ \A i, j \in 1 .. m : i < j => rank[s[i]] < rank[s[j]]
            Q(n) == \E m \in Nat : \E s \in [1 .. m -> S] : Sorts(m, s, n)
<1>1. Q(0)
    <2>. DEFINE s == [i \in 1 .. 0 |-> CHOOSE x \in S : TRUE]
    <2>1. s \in [1 .. 0 -> S] /\ Below(0) = {}
        OBVIOUS
    <2>2. Sorts(0, s, 0)
        BY <2>1
    <2>. QED
        BY <2>1, <2>2
<1>2. ASSUME NEW n \in Nat, Q(n) PROVE Q(n + 1)
    <2>0. PICK m \in Nat : \E s \in [1 .. m -> S] : Sorts(m, s, n)
        BY <1>2
    <2>1. PICK s \in [1 .. m -> S] : Sorts(m, s, n)
        BY <2>0
    <2>2. CASE \E x \in S : rank[x] = n
        <3>1. PICK x \in S : rank[x] = n
            BY <2>2
        <3>2. Below(n + 1) = Below(n) \cup {x}
            <4>1. \A y \in S : rank[y] \in Int
                OBVIOUS
            <4>2. \A y \in S : rank[y] < n + 1 <=> rank[y] < n \/ rank[y] = n
                BY <4>1
            <4>. QED
                BY <3>1, <4>2
        <3>. DEFINE t == [i \in 1 .. m + 1 |-> IF i = m + 1 THEN x ELSE s[i]]
        <3>3. t \in [1 .. m + 1 -> S] /\ m + 1 \in Nat
            OBVIOUS
        <3>4. Below(n + 1) = {t[i] : i \in 1 .. m + 1}
            <4>1. {t[i] : i \in 1 .. m + 1} = {s[i] : i \in 1 .. m} \cup {x}
                OBVIOUS
            <4>. QED
                BY <2>1, <3>2, <4>1
        <3>5. ASSUME NEW i \in 1 .. m + 1, NEW j \in 1 .. m + 1, i < j
              PROVE  rank[t[i]] < rank[t[j]]
            <4>1. i \in 1 .. m /\ t[i] = s[i]
                BY <3>5
            <4>2. CASE j = m + 1
                <5>1. s[i] \in Below(n)
                    BY <2>1, <4>1
                <5>. QED
                    BY <3>1, <4>1, <4>2, <5>1
            <4>3. CASE j # m + 1
                <5>1. j \in 1 .. m /\ t[j] = s[j]
                    BY <4>3
                <5>. QED
                    BY <2>1, <3>5, <4>1, <5>1
            <4>. QED
                BY <4>2, <4>3
        <3>6. Sorts(m + 1, t, n + 1)
            BY <3>4, <3>5
        <3>. HIDE DEF t, Sorts
        <3>. QED
            BY <3>3, <3>6
    <2>3. CASE ~ \E x \in S : rank[x] = n
        <3>1. \A y \in S : rank[y] \in Int
            OBVIOUS
        <3>2. Below(n + 1) = Below(n)
            BY <2>3, <3>1
        <3>3. Sorts(m, s, n + 1)
            BY <2>1, <3>2
        <3>. QED
            BY <3>3
    <2>. QED
        BY <2>2, <2>3
<1>3. Q(N)
    <2>. SUFFICES ASSUME ~Q(N) PROVE FALSE
        OBVIOUS
    <2>. DEFINE bad == {n \in Nat : ~Q(n)}
    <2>. HIDE DEF Q
    <2>1. PICK n \in bad : \A k \in bad : n <= k
        BY LeastExists
    <2>2. n # 0 /\ n - 1 \in Nat
        BY <1>1, <2>1
    <2>3. Q(n - 1)
        BY <2>1, <2>2
    <2>4. Q((n - 1) + 1)
        BY <1>2, <2>2, <2>3
    <2>. QED
        BY <2>1, <2>4
<1>4. Below(N) = S
    OBVIOUS
<1>. QED
    BY <1>3, <1>4

\* A set whose elements have different ranks is finite, and there is a sequence
\* of as many elements as it has that orders it by rank.
LEMMA SortExists ==
    ASSUME NEW S, NEW N \in Nat, NEW rank \in [S -> 0 .. N - 1],
           \A x, y \in S : rank[x] = rank[y] => x = y
    PROVE  /\ IsFiniteSet(S)
           /\ \E s \in [1 .. Cardinality(S) -> S] :
                  /\ S = {s[i] : i \in DOMAIN s}
                  /\ \A i, j \in DOMAIN s : i < j => rank[s[i]] < rank[s[j]]
<1>0. PICK m \in Nat : \E s \in [1 .. m -> S] :
          /\ S = {s[i] : i \in 1 .. m}
          /\ \A i, j \in 1 .. m : i < j => rank[s[i]] < rank[s[j]]
    BY RanksSort
<1>1. PICK s \in [1 .. m -> S] :
          /\ S = {s[i] : i \in 1 .. m}
          /\ \A i, j \in 1 .. m : i < j => rank[s[i]] < rank[s[j]]
    BY <1>0
<1>2. \A i, j \in 1 .. m : s[i] = s[j] => i = j
    <2>1. ASSUME NEW i \in 1 .. m, NEW j \in 1 .. m, i < j, s[i] = s[j] PROVE FALSE
        <3>1. s[i] \in S
            OBVIOUS
        <3>2. rank[s[i]] \in Int
            BY <3>1
        <3>3. rank[s[i]] < rank[s[j]]
            BY <1>1, <2>1
        <3>. QED
            BY <2>1, <3>2, <3>3
    <2>. QED
        BY <2>1
<1>3. s \in Bijection(1 .. m, S)
    BY <1>1, <1>2 DEF Bijection, Injection, Surjection, IsInjective
<1>4. ExistsBijection(1 .. m, S)
    BY <1>3 DEF ExistsBijection
<1>5. Cardinality(S) = m
    BY <1>4, FS_CountingElements
<1>6. IsFiniteSet(S)
    BY <1>4, FS_NatBijection
<1>. QED
    BY <1>1, <1>5, <1>6
=============================================================================
