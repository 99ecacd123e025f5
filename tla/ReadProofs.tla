------------------------------- MODULE ReadProofs ------------------------------
(* Theorems about what readers get: QueryCache, for every number of nodes,   *)
(* readers, writers, versions and revisions and every TTL and load time, and *)
(* Reports, for every set of videos and sessions, every month, page size and *)
(* filter, and every number of imports and other writes.  The two modules    *)
(* share no name and no state.                                               *)
EXTENDS QueryCache, Reports, FiniteSetTheorems, TLAPS

-----------------------------------------------------------------------------
(* Sums over finite sets: what SumFunctionOnSet of the library computes.     *)

\* A set of numbers in which each has a smaller one is empty: induction without an
\* operator for the statement.
LEMMA NoLeast ==
    ASSUME NEW B \in SUBSET Nat, \A n \in B : \E m \in B : m < n
    PROVE  B = {}
<1>1. PICK R : R = OpToRel(<, Nat)
    OBVIOUS
<1>2. \A x, y \in Nat : <<y, x>> \in R <=> y < x
    BY <1>1 DEF OpToRel
<1>3. IsWellFoundedOn(R, Nat)
    BY <1>1, NatLessThanWellFounded
<1>4. B # {} => \E x \in B : \A y \in B : ~ (<<y, x>> \in R)
    BY <1>3, WFMin
<1> QED BY <1>2, <1>4

Pick(s) == CHOOSE x \in s : TRUE

LEMMA Picked == ASSUME NEW s, s # {} PROVE Pick(s) \in s
BY DEF Pick

\* h holds the sums of F over the subsets of S.
SumOf(F, h, s) == IF s = {} THEN 0 ELSE F[Pick(s)] + h[s \ {Pick(s)}]
Sums(F, S, h)  == h = [s \in SUBSET S |-> SumOf(F, h, s)]

LEMMA SumUnfolded ==
    ASSUME NEW F, NEW S
    PROVE  SumFunctionOnSet(F, S) = (CHOOSE h : Sums(F, S, h))[S]
BY DEF SumFunctionOnSet, FoldFunctionOnSet, MapThenFoldSet, Sums, SumOf, Pick

\* The subsets of at most n elements.
UpTo(S, n) == {s \in SUBSET S : Cardinality(s) <= n}
SumsUpTo(F, S, n, h) == h = [s \in UpTo(S, n) |-> SumOf(F, h, s)]

LEMMA SmallerSubset ==
    ASSUME NEW S, IsFiniteSet(S), NEW s \in SUBSET S, s # {}
    PROVE  /\ IsFiniteSet(s) /\ s \ {Pick(s)} \in SUBSET S
           /\ Cardinality(s) \in Nat \ {0} /\ Cardinality(s \ {Pick(s)}) = Cardinality(s) - 1
<1>1. IsFiniteSet(s)
    BY FS_Subset
<1>2. Cardinality(s) \in Nat /\ Cardinality(s) # 0
    BY <1>1, FS_CardinalityType, FS_EmptySet
<1>3. Cardinality(s \ {Pick(s)}) = Cardinality(s) - 1
    BY <1>1, Picked, FS_RemoveElement
<1> QED BY <1>1, <1>2, <1>3

LEMMA SumsExist ==
    ASSUME NEW S, IsFiniteSet(S), NEW F
    PROVE  \E h : Sums(F, S, h)
<1> DEFINE B == {n \in Nat : ~ \E h : SumsUpTo(F, S, n, h)}
<1>1. ASSUME NEW n \in B PROVE n # 0 /\ n - 1 \in B
    <2>1. n # 0
        <3> SUFFICES \E h : SumsUpTo(F, S, 0, h)
            OBVIOUS
        <3> DEFINE g == [s \in UpTo(S, 0) |-> 0]
        <3>1. \A s \in UpTo(S, 0) : s = {}
            <4> SUFFICES ASSUME NEW s \in UpTo(S, 0), s # {} PROVE FALSE
                OBVIOUS
            <4>1. s \in SUBSET S /\ Cardinality(s) <= 0
                BY DEF UpTo
            <4>2. Cardinality(s) \in Nat \ {0}
                BY <4>1, SmallerSubset
            <4> QED BY <4>1, <4>2
        <3>2. \A s \in UpTo(S, 0) : SumOf(F, g, s) = 0
            BY <3>1 DEF SumOf
        <3>3. g = [s \in UpTo(S, 0) |-> SumOf(F, g, s)]
            <4> HIDE DEF g
            <4>1. g = [s \in UpTo(S, 0) |-> 0]
                BY DEF g
            <4> QED BY <3>2, <4>1
        <3> HIDE DEF g
        <3>4. SumsUpTo(F, S, 0, g)
            BY <3>3 DEF SumsUpTo
        <3> QED BY <3>4
    <2>2. ASSUME NEW h, SumsUpTo(F, S, n - 1, h) PROVE FALSE
        <3> DEFINE g == [s \in UpTo(S, n) |-> SumOf(F, h, s)]
        <3>1. ASSUME NEW s \in UpTo(S, n) PROVE SumOf(F, g, s) = SumOf(F, h, s)
            <4> SUFFICES ASSUME s # {} PROVE g[s \ {Pick(s)}] = h[s \ {Pick(s)}]
                BY DEF SumOf
            <4> DEFINE t == s \ {Pick(s)}
            <4>1. s \in SUBSET S /\ Cardinality(s) <= n /\ n \in Nat
                BY DEF UpTo
            <4>2. t \in SUBSET S /\ Cardinality(t) = Cardinality(s) - 1 /\ Cardinality(s) \in Nat
                BY <4>1, SmallerSubset
            <4>3. Cardinality(t) <= n - 1 /\ Cardinality(t) <= n
                BY <4>1, <4>2
            <4>4. t \in UpTo(S, n) /\ t \in UpTo(S, n - 1)
                BY <4>2, <4>3 DEF UpTo
            <4> HIDE DEF t
            <4>5. g[t] = SumOf(F, h, t)
                BY <4>4
            <4>6. h[t] = SumOf(F, h, t)
                BY <2>2, <4>4 DEF SumsUpTo
            <4> QED BY <4>5, <4>6 DEF t
        <3>2. g = [s \in UpTo(S, n) |-> SumOf(F, g, s)]
            <4> HIDE DEF g
            <4>1. g = [s \in UpTo(S, n) |-> SumOf(F, h, s)]
                BY DEF g
            <4> QED BY <3>1, <4>1
        <3> HIDE DEF g
        <3>3. SumsUpTo(F, S, n, g)
            BY <3>2 DEF SumsUpTo
        <3> QED BY <3>3
    <2>3. n - 1 \in Nat
        BY <2>1
    <2> QED BY <2>1, <2>2, <2>3
<1>2. B = {}
    <2>1. \A n \in B : n - 1 \in B /\ n - 1 < n
        BY <1>1
    <2>2. B \in SUBSET Nat
        OBVIOUS
    <2> HIDE DEF B
    <2> QED BY <2>1, <2>2, NoLeast
<1>3. Cardinality(S) \in Nat
    BY FS_CardinalityType
<1>4. PICK h : SumsUpTo(F, S, Cardinality(S), h)
    BY <1>2, <1>3
<1>5. UpTo(S, Cardinality(S)) = SUBSET S
    BY FS_Subset DEF UpTo
<1> QED BY <1>4, <1>5 DEF SumsUpTo, Sums

LEMMA SumIsSums ==
    ASSUME NEW S, IsFiniteSet(S), NEW F
    PROVE  \E h : Sums(F, S, h) /\ SumFunctionOnSet(F, S) = h[S]
BY SumsExist, SumUnfolded

\* Sums over common subsets do not depend on what else there is.
LEMMA SumsAgree ==
    ASSUME NEW S, IsFiniteSet(S), NEW T \in SUBSET S, NEW F, NEW G,
           \A x \in T : F[x] = G[x],
           NEW h, Sums(F, S, h), NEW g, Sums(G, T, g)
    PROVE  h[T] = g[T]
<1> DEFINE B == {n \in Nat : \E s \in SUBSET T : Cardinality(s) = n /\ h[s] # g[s]}
<1>1. IsFiniteSet(T)
    BY FS_Subset
<1>2. \A s \in SUBSET T : h[s] = SumOf(F, h, s) /\ g[s] = SumOf(G, g, s)
    BY DEF Sums
<1>3. ASSUME NEW n \in B PROVE \E m \in B : m < n
    <2>1. PICK s \in SUBSET T : Cardinality(s) = n /\ h[s] # g[s]
        OBVIOUS
    <2>2. s # {}
        BY <1>2, <2>1 DEF SumOf
    <2> DEFINE t == s \ {Pick(s)}
    <2>3. t \in SUBSET T /\ Cardinality(t) = n - 1 /\ n - 1 \in Nat
        BY <1>1, <2>1, <2>2, SmallerSubset
    <2>4. F[Pick(s)] = G[Pick(s)]
        BY <2>1, <2>2, Picked
    <2>5. h[t] # g[t]
        BY <1>2, <2>1, <2>2, <2>4 DEF SumOf
    <2> HIDE DEF t
    <2>6. n - 1 \in B /\ n - 1 < n
        BY <2>3, <2>5
    <2> QED BY <2>6
<1>4. B = {}
    <2>1. B \in SUBSET Nat
        OBVIOUS
    <2> HIDE DEF B
    <2> QED BY <1>3, <2>1, NoLeast
<1>5. Cardinality(T) \in Nat
    BY <1>1, FS_CardinalityType
<1> QED BY <1>4, <1>5

LEMMA SumSame ==
    ASSUME NEW S, IsFiniteSet(S), NEW F, NEW G, \A x \in S : F[x] = G[x]
    PROVE  SumFunctionOnSet(F, S) = SumFunctionOnSet(G, S)
<1>1. PICK h : Sums(F, S, h) /\ SumFunctionOnSet(F, S) = h[S]
    BY SumIsSums
<1>2. PICK g : Sums(G, S, g) /\ SumFunctionOnSet(G, S) = g[S]
    BY SumIsSums
<1>3. S \in SUBSET S
    OBVIOUS
<1>4. h[S] = g[S]
    BY <1>1, <1>2, <1>3, SumsAgree
<1> QED BY <1>1, <1>2, <1>4

LEMMA SumOfNone ==
    ASSUME NEW F
    PROVE  SumFunctionOnSet(F, {}) = 0
<1>1. PICK h : Sums(F, {}, h) /\ SumFunctionOnSet(F, {}) = h[{}]
    BY SumIsSums, FS_EmptySet
<1> QED BY <1>1 DEF Sums, SumOf

LEMMA SumOfSome ==
    ASSUME NEW S, IsFiniteSet(S), S # {}, NEW F
    PROVE  SumFunctionOnSet(F, S) = F[Pick(S)] + SumFunctionOnSet(F, S \ {Pick(S)})
<1> DEFINE T == S \ {Pick(S)}
<1>1. PICK h : Sums(F, S, h) /\ SumFunctionOnSet(F, S) = h[S]
    BY SumIsSums
<1>2. T \in SUBSET S /\ IsFiniteSet(T)
    BY FS_Subset
<1>3. PICK g : Sums(F, T, g) /\ SumFunctionOnSet(F, T) = g[T]
    BY <1>2, SumIsSums
<1>4. h[T] = g[T]
    BY <1>1, <1>2, <1>3, SumsAgree
<1>5. h[S] = F[Pick(S)] + h[T]
    BY <1>1 DEF Sums, SumOf
<1> QED BY <1>1, <1>3, <1>4, <1>5

LEMMA SumIsInt ==
    ASSUME NEW S, IsFiniteSet(S), NEW F, \A x \in S : F[x] \in Int
    PROVE  SumFunctionOnSet(F, S) \in Int
<1> DEFINE B == {n \in Nat : \E s \in SUBSET S : Cardinality(s) = n /\ SumFunctionOnSet(F, s) \notin Int}
<1>1. ASSUME NEW n \in B PROVE \E m \in B : m < n
    <2>1. PICK s \in SUBSET S : Cardinality(s) = n /\ SumFunctionOnSet(F, s) \notin Int
        OBVIOUS
    <2>2. s # {}
        BY <2>1, SumOfNone
    <2> DEFINE t == s \ {Pick(s)}
    <2>3. t \in SUBSET S /\ Cardinality(t) = n - 1 /\ n - 1 \in Nat /\ IsFiniteSet(s)
        BY <2>1, <2>2, SmallerSubset
    <2>4. F[Pick(s)] \in Int
        BY <2>1, <2>2, Picked
    <2>5. SumFunctionOnSet(F, s) = F[Pick(s)] + SumFunctionOnSet(F, t)
        BY <2>2, <2>3, SumOfSome
    <2> HIDE DEF t
    <2>6. SumFunctionOnSet(F, t) \notin Int
        BY <2>1, <2>4, <2>5
    <2>7. n - 1 \in B /\ n - 1 < n
        BY <2>3, <2>6
    <2> QED BY <2>7
<1>2. B = {}
    <2>1. B \in SUBSET Nat
        OBVIOUS
    <2> HIDE DEF B
    <2> QED BY <1>1, <2>1, NoLeast
<1>3. Cardinality(S) \in Nat
    BY FS_CardinalityType
<1> QED BY <1>2, <1>3

\* A sum in which any element is taken first.
LEMMA SumRemove ==
    ASSUME NEW S, IsFiniteSet(S), NEW F, \A x \in S : F[x] \in Int, NEW y \in S
    PROVE  SumFunctionOnSet(F, S) = F[y] + SumFunctionOnSet(F, S \ {y})
<1> DEFINE Tot(s) == SumFunctionOnSet(F, s)
           Odd(s, x) == x \in s /\ Tot(s) # F[x] + Tot(s \ {x})
           B == {n \in Nat : \E s \in SUBSET S : Cardinality(s) = n /\ \E x \in S : Odd(s, x)}
<1>1. ASSUME NEW n \in B PROVE \E m \in B : m < n
    <2>1. PICK s \in SUBSET S : Cardinality(s) = n /\ \E x \in S : Odd(s, x)
        OBVIOUS
    <2>2. PICK x \in S : Odd(s, x)
        BY <2>1
    <2> DEFINE p == Pick(s)
               t == s \ {p}
    <2>3. s # {} /\ x \in s
        BY <2>2
    <2>4. t \in SUBSET S /\ Cardinality(t) = n - 1 /\ n - 1 \in Nat /\ IsFiniteSet(s)
        BY <2>1, <2>3, SmallerSubset
    <2>5. p \in s
        BY <2>3, Picked
    <2>6. Tot(s) = F[p] + Tot(t)
        BY <2>3, <2>4, SumOfSome
    <2>7. Tot(s) # F[x] + Tot(s \ {x})
        BY <2>2
    <2> HIDE DEF p
    <2>8. p # x
        BY <2>6, <2>7
    <2>9. CASE Odd(t, x)
        <3>1. n - 1 \in B
            <4> HIDE DEF Odd, t
            <4> QED BY <2>4, <2>9
        <3>2. n - 1 < n
            OBVIOUS
        <3> HIDE DEF B
        <3> QED BY <3>1, <3>2
    <2>10. CASE ~ Odd(t, x)
        <3> DEFINE u == s \ {x}
                   w == t \ {x}
        <3>1. Tot(t) = F[x] + Tot(w)
            BY <2>3, <2>8, <2>10
        <3>2. w = u \ {p} /\ u \in SUBSET S /\ p \in u /\ u # {}
            BY <2>5, <2>8
        <3>3. IsFiniteSet(u) /\ IsFiniteSet(w)
            BY FS_Subset, <2>4
        <3>4. Tot(w) \in Int /\ Tot(u) \in Int /\ F[x] \in Int /\ F[p] \in Int
            <4>1. \A z \in w : F[z] \in Int
                OBVIOUS
            <4>2. \A z \in u : F[z] \in Int
                OBVIOUS
            <4> HIDE DEF u, w
            <4>3. Tot(w) \in Int
                BY <3>3, <4>1, SumIsInt
            <4>4. Tot(u) \in Int
                BY <3>3, <4>2, SumIsInt
            <4>5. F[x] \in Int /\ F[p] \in Int
                BY <2>5
            <4> QED BY <4>3, <4>4, <4>5
        <3>5. Cardinality(u) = n - 1
            BY <2>1, <2>3, <2>4, FS_RemoveElement
        <3>6. CASE Odd(u, p)
            <4>1. n - 1 \in B
                <5> HIDE DEF Odd, t, u
                <5> QED BY <2>4, <2>5, <3>2, <3>5, <3>6
            <4>2. n - 1 < n
                OBVIOUS
            <4> HIDE DEF B
            <4> QED BY <4>1, <4>2
        <3>7. CASE ~ Odd(u, p)
            <4>1. Tot(u) = F[p] + Tot(w)
                BY <3>2, <3>7
            <4>2. Tot(s) = F[p] + (F[x] + Tot(w))
                BY <2>6, <3>1
            <4>3. Tot(s) # F[x] + Tot(u)
                BY <2>7
            <4> HIDE DEF Tot, u, w, t, B
            <4> QED BY <3>4, <4>1, <4>2, <4>3
        <3> QED BY <3>6, <3>7
    <2> QED BY <2>9, <2>10
<1>2. B = {}
    <2>1. B \in SUBSET Nat
        OBVIOUS
    <2> HIDE DEF B
    <2> QED BY <1>1, <2>1, NoLeast
<1>3. Cardinality(S) \in Nat
    BY FS_CardinalityType
<1>4. ~ Odd(S, y)
    BY <1>2, <1>3
<1> QED BY <1>4

\* The differences of a sequence of numbers add up to its last less its first.
LEMMA SumTelescopes ==
    ASSUME NEW T, NEW F, NEW k \in Nat,
           \A i \in 0 .. k : T[i] \in Int,
           \A i \in 1 .. k : F[i] = T[i] - T[i - 1]
    PROVE  SumFunctionOnSet(F, 1 .. k) = T[k] - T[0]
<1> DEFINE Tot(n) == SumFunctionOnSet(F, 1 .. n)
           B == {n \in 0 .. k : Tot(n) # T[n] - T[0]}
<1>1. ASSUME NEW n \in B PROVE \E m \in B : m < n
    <2>1. CASE n = 0
        <3>1. 1 .. 0 = {}
            OBVIOUS
        <3>2. Tot(0) = 0
            BY <3>1, SumOfNone
        <3>3. T[0] \in Int
            OBVIOUS
        <3>4. Tot(0) # T[0] - T[0]
            BY <2>1
        <3> HIDE DEF Tot
        <3> QED BY <3>2, <3>3, <3>4
    <2>2. CASE n # 0
        <3>0. n \in Int /\ 1 \in Int /\ n >= 1
            BY <2>2
        <3>1. IsFiniteSet(1 .. n) /\ n \in 1 .. n /\ (1 .. n) \ {n} = 1 .. (n - 1)
            <4>1. IsFiniteSet(1 .. n)
                BY <3>0, FS_Interval
            <4>2. \A i : i \in (1 .. n) \ {n} <=> i \in 1 .. (n - 1)
                BY <3>0
            <4> QED BY <3>0, <4>1, <4>2
        <3>2. \A i \in 1 .. n : F[i] \in Int
            <4> SUFFICES ASSUME NEW i \in 1 .. n PROVE F[i] \in Int
                OBVIOUS
            <4>1. i \in 1 .. k /\ i \in 0 .. k /\ i - 1 \in 0 .. k
                OBVIOUS
            <4>2. T[i] \in Int /\ T[i - 1] \in Int /\ F[i] = T[i] - T[i - 1]
                BY <4>1
            <4> QED BY <4>2
        <3>3. Tot(n) = F[n] + Tot(n - 1)
            <4> DEFINE D == 1 .. n
                       E == 1 .. (n - 1)
            <4>1. IsFiniteSet(D) /\ n \in D /\ D \ {n} = E /\ \A i \in D : F[i] \in Int
                BY <3>1, <3>2
            <4> HIDE DEF D, E
            <4>2. SumFunctionOnSet(F, D) = F[n] + SumFunctionOnSet(F, E)
                BY <4>1, SumRemove
            <4> QED BY <4>2 DEF D, E
        <3>4. n - 1 \in 0 .. k /\ n \in 1 .. k /\ n \in 0 .. k /\ 0 \in 0 .. k
            BY <2>2
        <3>5. F[n] = T[n] - T[n - 1] /\ T[n] \in Int /\ T[n - 1] \in Int /\ T[0] \in Int
            BY <3>4
        <3>6. Tot(n) # T[n] - T[0]
            OBVIOUS
        <3>7. Tot(n - 1) # T[n - 1] - T[0]
            <4> HIDE DEF Tot, B
            <4> QED BY <3>3, <3>5, <3>6
        <3>8. n - 1 \in B /\ n - 1 < n
            <4> HIDE DEF Tot
            <4> QED BY <3>4, <3>7
        <3> HIDE DEF B
        <3> QED BY <3>8
    <2> QED BY <2>1, <2>2
<1>2. B = {}
    <2>1. B \in SUBSET Nat
        OBVIOUS
    <2> HIDE DEF B
    <2> QED BY <1>1, <2>1, NoLeast
<1>3. k \in 0 .. k
    OBVIOUS
<1> QED BY <1>2, <1>3
\* A sum in two parts.
LEMMA SumSplits ==
    ASSUME NEW S, IsFiniteSet(S), NEW F, \A x \in S : F[x] \in Int, NEW T \in SUBSET S
    PROVE  SumFunctionOnSet(F, S) = SumFunctionOnSet(F, T) + SumFunctionOnSet(F, S \ T)
<1> DEFINE Tot(s) == SumFunctionOnSet(F, s)
           Odd(t) == Tot(S) # Tot(t) + Tot(S \ t)
           B == {n \in Nat : \E t \in SUBSET S : Cardinality(t) = n /\ Odd(t)}
<1>0. ASSUME NEW t \in SUBSET S PROVE IsFiniteSet(t) /\ Tot(t) \in Int
    <2>1. IsFiniteSet(t)
        BY FS_Subset
    <2>2. \A x \in t : F[x] \in Int
        OBVIOUS
    <2> QED BY <2>1, <2>2, SumIsInt
<1>1. ASSUME NEW n \in B PROVE \E m \in B : m < n
    <2>1. PICK t \in SUBSET S : Cardinality(t) = n /\ Odd(t)
        OBVIOUS
    <2>2. t # {}
        <3> SUFFICES ASSUME t = {} PROVE FALSE
            OBVIOUS
        <3>1. S \ t = S /\ Tot(t) = 0 /\ Tot(S) \in Int
            BY <1>0, SumOfNone
        <3>2. ~ Odd(t)
            <4> HIDE DEF Tot
            <4> QED BY <3>1
        <3> QED BY <2>1, <3>2
    <2>3. PICK y : y \in t
        BY <2>2
    <2> DEFINE u == t \ {y}
               c == S \ t
               d == S \ u
    <2>4. u \in SUBSET S /\ c \in SUBSET S /\ d \in SUBSET S /\ d \ {y} = c /\ y \in d
        BY <2>3
    <2>5. Cardinality(u) = n - 1 /\ n - 1 \in Nat
        <3>1. IsFiniteSet(t) /\ IsFiniteSet(u)
            BY <1>0, <2>4
        <3>2. Cardinality(u) = Cardinality(t) - 1
            BY <2>3, <3>1, FS_RemoveElement
        <3>3. Cardinality(u) \in Nat
            BY <3>1, FS_CardinalityType
        <3> QED BY <2>1, <3>2, <3>3
    <2>6. Tot(t) = F[y] + Tot(u)
        <3>1. IsFiniteSet(t) /\ \A x \in t : F[x] \in Int
            BY <1>0
        <3> QED BY <2>3, <3>1, SumRemove
    <2>7. Tot(d) = F[y] + Tot(c)
        <3>1. IsFiniteSet(d) /\ \A x \in d : F[x] \in Int
            BY <1>0, <2>4
        <3> HIDE DEF d
        <3>2. Tot(d) = F[y] + Tot(d \ {y})
            BY <2>4, <3>1, SumRemove
        <3> QED BY <2>4, <3>2
    <2>8. Odd(u)
        <3>1. F[y] \in Int /\ Tot(u) \in Int /\ Tot(c) \in Int /\ Tot(S) \in Int
            BY <1>0, <2>3, <2>4
        <3>2. Tot(S) # Tot(t) + Tot(c)
            BY <2>1
        <3>3. Odd(u) <=> Tot(S) # Tot(u) + Tot(d)
            OBVIOUS
        <3> HIDE DEF Tot, Odd, u, c, d, B
        <3> QED BY <2>6, <2>7, <3>1, <3>2, <3>3
    <2>9. n - 1 \in B
        <3> HIDE DEF Odd, u
        <3> QED BY <2>4, <2>5, <2>8
    <2>10. n - 1 < n
        OBVIOUS
    <2> HIDE DEF B
    <2> QED BY <2>9, <2>10
<1>2. B = {}
    <2>1. B \in SUBSET Nat
        OBVIOUS
    <2> HIDE DEF B
    <2> QED BY <1>1, <2>1, NoLeast
<1>3. Cardinality(T) \in Nat
    BY <1>0, FS_CardinalityType
<1>4. ~ Odd(T)
    BY <1>2, <1>3
<1> QED BY <1>4

\* Nothing is added by what is zero, and nothing is taken away by what is not negative.
LEMMA SumOfZeros ==
    ASSUME NEW S, IsFiniteSet(S), NEW F, \A x \in S : F[x] = 0
    PROVE  SumFunctionOnSet(F, S) = 0
<1> DEFINE B == {n \in Nat : \E s \in SUBSET S : Cardinality(s) = n /\ SumFunctionOnSet(F, s) # 0}
<1>1. ASSUME NEW n \in B PROVE \E m \in B : m < n
    <2>1. PICK s \in SUBSET S : Cardinality(s) = n /\ SumFunctionOnSet(F, s) # 0
        OBVIOUS
    <2>2. s # {}
        BY <2>1, SumOfNone
    <2> DEFINE t == s \ {Pick(s)}
    <2>3. t \in SUBSET S /\ Cardinality(t) = n - 1 /\ n - 1 \in Nat /\ IsFiniteSet(s)
        BY <2>1, <2>2, SmallerSubset
    <2>4. F[Pick(s)] = 0
        BY <2>1, <2>2, Picked
    <2>5. SumFunctionOnSet(F, s) = F[Pick(s)] + SumFunctionOnSet(F, t)
        BY <2>2, <2>3, SumOfSome
    <2> HIDE DEF t
    <2>6. SumFunctionOnSet(F, t) # 0
        BY <2>1, <2>4, <2>5
    <2>7. n - 1 \in B /\ n - 1 < n
        BY <2>3, <2>6
    <2> QED BY <2>7
<1>2. B = {}
    <2>1. B \in SUBSET Nat
        OBVIOUS
    <2> HIDE DEF B
    <2> QED BY <1>1, <2>1, NoLeast
<1>3. Cardinality(S) \in Nat
    BY FS_CardinalityType
<1> QED BY <1>2, <1>3

LEMMA SumIsNat ==
    ASSUME NEW S, IsFiniteSet(S), NEW F, \A x \in S : F[x] \in Nat
    PROVE  SumFunctionOnSet(F, S) \in Nat
<1> DEFINE B == {n \in Nat : \E s \in SUBSET S : Cardinality(s) = n /\ SumFunctionOnSet(F, s) \notin Nat}
<1>1. ASSUME NEW n \in B PROVE \E m \in B : m < n
    <2>1. PICK s \in SUBSET S : Cardinality(s) = n /\ SumFunctionOnSet(F, s) \notin Nat
        OBVIOUS
    <2>2. s # {}
        BY <2>1, SumOfNone
    <2> DEFINE t == s \ {Pick(s)}
    <2>3. t \in SUBSET S /\ Cardinality(t) = n - 1 /\ n - 1 \in Nat /\ IsFiniteSet(s)
        BY <2>1, <2>2, SmallerSubset
    <2>4. F[Pick(s)] \in Nat
        BY <2>1, <2>2, Picked
    <2>5. SumFunctionOnSet(F, s) = F[Pick(s)] + SumFunctionOnSet(F, t)
        BY <2>2, <2>3, SumOfSome
    <2> HIDE DEF t
    <2>6. SumFunctionOnSet(F, t) \notin Nat
        BY <2>1, <2>4, <2>5
    <2>7. n - 1 \in B /\ n - 1 < n
        BY <2>3, <2>6
    <2> QED BY <2>7
<1>2. B = {}
    <2>1. B \in SUBSET Nat
        OBVIOUS
    <2> HIDE DEF B
    <2> QED BY <1>1, <2>1, NoLeast
<1>3. Cardinality(S) \in Nat
    BY FS_CardinalityType
<1> QED BY <1>2, <1>3

LEMMA SumOfRest ==
    ASSUME NEW S, IsFiniteSet(S), NEW F, \A x \in S : F[x] \in Int, NEW T \in SUBSET S,
           \A x \in S \ T : F[x] = 0
    PROVE  SumFunctionOnSet(F, S) = SumFunctionOnSet(F, T)
<1>1. IsFiniteSet(T) /\ IsFiniteSet(S \ T)
    BY FS_Subset
<1>2. SumFunctionOnSet(F, S \ T) = 0
    BY <1>1, SumOfZeros
<1>3. SumFunctionOnSet(F, T) \in Int
    BY <1>1, SumIsInt
<1> QED BY <1>2, <1>3, SumSplits

LEMMA SumGrows ==
    ASSUME NEW S, IsFiniteSet(S), NEW F, \A x \in S : F[x] \in Nat, NEW T \in SUBSET S
    PROVE  SumFunctionOnSet(F, T) <= SumFunctionOnSet(F, S)
<1>1. IsFiniteSet(T) /\ IsFiniteSet(S \ T)
    BY FS_Subset
<1>2. SumFunctionOnSet(F, T) \in Nat /\ SumFunctionOnSet(F, S \ T) \in Nat
    BY <1>1, SumIsNat
<1>3. SumFunctionOnSet(F, S) = SumFunctionOnSet(F, T) + SumFunctionOnSet(F, S \ T)
    BY SumSplits
<1> QED BY <1>2, <1>3

\* The sum over a set is the sum of the sums over its classes.
LEMMA SumOfClasses ==
    ASSUME NEW S, IsFiniteSet(S), NEW F, \A x \in S : F[x] \in Int,
           NEW K, IsFiniteSet(K), NEW P, \A x \in S : P[x] \in K,
           NEW Class, \A k \in K : Class[k] = {x \in S : P[x] = k},
           NEW G, \A k \in K : G[k] = SumFunctionOnSet(F, Class[k])
    PROVE  SumFunctionOnSet(F, S) = SumFunctionOnSet(G, K)
<1> DEFINE In(L) == {x \in S : P[x] \in L}
           Odd(L) == SumFunctionOnSet(F, In(L)) # SumFunctionOnSet(G, L)
           B == {n \in Nat : \E L \in SUBSET K : Cardinality(L) = n /\ Odd(L)}
<1>1. ASSUME NEW n \in B PROVE \E m \in B : m < n
    <2>1. PICK L \in SUBSET K : Cardinality(L) = n /\ Odd(L)
        OBVIOUS
    <2>2. L # {}
        <3> SUFFICES ASSUME L = {} PROVE ~ Odd(L)
            BY <2>1
        <3>1. In(L) = {}
            OBVIOUS
        <3> QED BY <3>1, SumOfNone
    <2>3. PICK k \in K : k \in L
        BY <2>2
    <2> DEFINE M == L \ {k}
               C == {x \in S : P[x] = k}
    <2>4. IsFiniteSet(L)
        BY FS_Subset
    <2>5. Cardinality(M) = n - 1 /\ n - 1 \in Nat
        <3>1. Cardinality(M) = Cardinality(L) - 1
            BY <2>3, <2>4, FS_RemoveElement
        <3>2. IsFiniteSet(M)
            BY <2>4, FS_Subset
        <3>3. Cardinality(M) \in Nat
            BY <3>2, FS_CardinalityType
        <3> QED BY <2>1, <3>1, <3>3
    <2>6. SumFunctionOnSet(G, L) = G[k] + SumFunctionOnSet(G, M)
        <3>1. \A l \in L : G[l] \in Int
            <4> SUFFICES ASSUME NEW l \in K PROVE G[l] \in Int
                OBVIOUS
            <4> DEFINE D == {x \in S : P[x] = l}
            <4>1. D \in SUBSET S /\ G[l] = SumFunctionOnSet(F, D)
                OBVIOUS
            <4> HIDE DEF D
            <4>2. IsFiniteSet(D) /\ \A x \in D : F[x] \in Int
                BY <4>1, FS_Subset
            <4> QED BY <4>1, <4>2, SumIsInt
        <3> QED BY <2>3, <2>4, <3>1, SumRemove
    <2>7. SumFunctionOnSet(F, In(L)) = SumFunctionOnSet(F, C) + SumFunctionOnSet(F, In(M))
        <3> DEFINE D == In(L)
                   E == In(M)
        <3>1. D \in SUBSET S /\ C \in SUBSET D /\ D \ C = E
            <4>1. \A x : x \in D \ C <=> x \in E
                OBVIOUS
            <4>2. D \in SUBSET S /\ C \in SUBSET D
                BY <2>3
            <4> HIDE DEF D, E
            <4> QED BY <4>1, <4>2
        <3> HIDE DEF D, E, C
        <3>2. IsFiniteSet(D) /\ \A x \in D : F[x] \in Int
            BY <3>1, FS_Subset
        <3>3. SumFunctionOnSet(F, D) = SumFunctionOnSet(F, C) + SumFunctionOnSet(F, D \ C)
            BY <3>1, <3>2, SumSplits
        <3>4. SumFunctionOnSet(F, D) = SumFunctionOnSet(F, C) + SumFunctionOnSet(F, E)
            BY <3>1, <3>3
        <3> QED BY <3>4 DEF D, E
    <2>8. Odd(M)
        <3>1. G[k] = SumFunctionOnSet(F, C)
            OBVIOUS
        <3>2. SumFunctionOnSet(F, In(L)) # SumFunctionOnSet(G, L)
            BY <2>1
        <3>3. Odd(M) <=> SumFunctionOnSet(F, In(M)) # SumFunctionOnSet(G, M)
            OBVIOUS
        <3> HIDE DEF Odd, C, In, M, B
        <3> QED BY <2>6, <2>7, <3>1, <3>2, <3>3
    <2>9. n - 1 \in B
        <3>1. M \in SUBSET K
            OBVIOUS
        <3> HIDE DEF Odd, M
        <3> QED BY <2>5, <2>8, <3>1
    <2>10. n - 1 < n
        OBVIOUS
    <2> HIDE DEF B
    <2> QED BY <2>9, <2>10
<1>2. B = {}
    <2>1. B \in SUBSET Nat
        OBVIOUS
    <2> HIDE DEF B
    <2> QED BY <1>1, <2>1, NoLeast
<1>3. Cardinality(K) \in Nat
    BY FS_CardinalityType
<1>4. ~ Odd(K)
    BY <1>2, <1>3
<1>5. In(K) = S
    OBVIOUS
<1> QED BY <1>4, <1>5

\* An image of a finite set is finite.
LEMMA ImageIsFinite ==
    ASSUME NEW S, IsFiniteSet(S), NEW f, NEW T, T = {f[x] : x \in S}
    PROVE  IsFiniteSet(T)
<1> DEFINE h == [x \in S |-> f[x]]
<1>1. h \in Surjection(S, T)
    <2>1. h \in [S -> T] /\ \A y \in T : \E x \in S : h[x] = y
        OBVIOUS
    <2> HIDE DEF h
    <2> QED BY <2>1 DEF Surjection
<1> HIDE DEF h
<1> QED BY <1>1, FS_Surjection

\* What is counted or added under another name.
LEMMA SumRenamed ==
    ASSUME NEW S, IsFiniteSet(S), NEW f, \A x, y \in S : f[x] = f[y] => x = y,
           NEW F, NEW G, \A x \in S : F[x] \in Int /\ G[f[x]] = F[x],
           NEW T, T = {f[x] : x \in S}
    PROVE  SumFunctionOnSet(G, T) = SumFunctionOnSet(F, S)
<1>1. IsFiniteSet(T)
    BY ImageIsFinite
<1> DEFINE Class == [y \in T |-> {x \in S : f[x] = y}]
<1>2. ASSUME NEW y \in T PROVE G[y] = SumFunctionOnSet(F, Class[y])
    <2>1. PICK x \in S : y = f[x]
        OBVIOUS
    <2> DEFINE X == {x}
    <2>2. Class[y] = X
        BY <2>1
    <2>3. IsFiniteSet(X) /\ x \in X /\ X \ {x} = {} /\ (\A z \in X : F[z] \in Int) /\ F[x] \in Int
        BY FS_Singleton
    <2> HIDE DEF X
    <2>4. SumFunctionOnSet(F, X) = F[x]
        <3>1. SumFunctionOnSet(F, X) = F[x] + SumFunctionOnSet(F, X \ {x})
            BY <2>3, SumRemove
        <3>2. SumFunctionOnSet(F, X \ {x}) = 0
            BY <2>3, SumOfNone
        <3> QED BY <2>3, <3>1, <3>2
    <2> QED BY <2>1, <2>2, <2>4
<1>3. (\A x \in S : f[x] \in T /\ F[x] \in Int) /\ \A y \in T : Class[y] = {x \in S : f[x] = y}
    OBVIOUS
<1> HIDE DEF Class
<1> QED BY <1>1, <1>2, <1>3, SumOfClasses

\* The number of the elements of a set is a sum too.
LEMMA CountIsSum ==
    ASSUME NEW S, IsFiniteSet(S), NEW F, \A x \in S : F[x] = 1
    PROVE  Cardinality(S) = SumFunctionOnSet(F, S)
<1> DEFINE B == {n \in Nat : \E s \in SUBSET S : Cardinality(s) = n /\ SumFunctionOnSet(F, s) # n}
<1>1. ASSUME NEW n \in B PROVE \E m \in B : m < n
    <2>1. PICK s \in SUBSET S : Cardinality(s) = n /\ SumFunctionOnSet(F, s) # n
        OBVIOUS
    <2>2. s # {}
        BY <2>1, SumOfNone, FS_EmptySet
    <2> DEFINE t == s \ {Pick(s)}
    <2>3. t \in SUBSET S /\ Cardinality(t) = n - 1 /\ n - 1 \in Nat /\ IsFiniteSet(s)
        BY <2>1, <2>2, SmallerSubset
    <2>4. F[Pick(s)] = 1
        BY <2>1, <2>2, Picked
    <2>5. SumFunctionOnSet(F, s) = F[Pick(s)] + SumFunctionOnSet(F, t)
        BY <2>2, <2>3, SumOfSome
    <2> HIDE DEF t
    <2>6. SumFunctionOnSet(F, t) # n - 1
        BY <2>1, <2>4, <2>5
    <2>7. n - 1 \in B /\ n - 1 < n
        BY <2>3, <2>6
    <2> QED BY <2>7
<1>2. B = {}
    <2>1. B \in SUBSET Nat
        OBVIOUS
    <2> HIDE DEF B
    <2> QED BY <1>1, <2>1, NoLeast
<1>3. Cardinality(S) \in Nat
    BY FS_CardinalityType
<1> QED BY <1>2, <1>3

\* The classes of a set have its elements, each once.
LEMMA CountOfClasses ==
    ASSUME NEW S, IsFiniteSet(S), NEW K, IsFiniteSet(K), NEW P, \A x \in S : P[x] \in K,
           NEW Class, \A k \in K : Class[k] = {x \in S : P[x] = k},
           NEW G, \A k \in K : G[k] = Cardinality(Class[k])
    PROVE  Cardinality(S) = SumFunctionOnSet(G, K)
<1> DEFINE F == [x \in S |-> 1]
<1>1. \A x \in S : F[x] = 1 /\ F[x] \in Int
    OBVIOUS
<1> HIDE DEF F
<1>2. ASSUME NEW k \in K PROVE G[k] = SumFunctionOnSet(F, Class[k])
    <2>1. Class[k] \in SUBSET S /\ G[k] = Cardinality(Class[k])
        OBVIOUS
    <2>2. IsFiniteSet(Class[k]) /\ \A x \in Class[k] : F[x] = 1
        BY <1>1, <2>1, FS_Subset
    <2>3. Cardinality(Class[k]) = SumFunctionOnSet(F, Class[k])
        BY <2>2, CountIsSum
    <2> QED BY <2>1, <2>3
<1>3. SumFunctionOnSet(F, S) = SumFunctionOnSet(G, K)
    BY <1>1, <1>2, SumOfClasses
<1>4. Cardinality(S) = SumFunctionOnSet(F, S)
    BY <1>1, CountIsSum
<1> QED BY <1>3, <1>4

-----------------------------------------------------------------------------
(* Listings and synchronisations of Reports, for every set of videos and     *)
(* sessions, every month, page size and number of imports, and every filter. *)

Kinds == {"video", "live", "source", "search"}
Room(kind) == Cardinality(Known[kind])
Size == Cardinality(Listed)
Span == Month[2] - Month[1] + 1

\* What a listing that breaks ties by the id has before a row.
Ahead(i) == {j \in Listed \ {i} : Before(list.kind, TRUE, j, i)}

Alone(i) == \A j \in Listed \ {i} : Stamp[list.kind][j] # Stamp[list.kind][i]

\* What is promised and not read yet, and what of it the cursor has passed.
Unread  == list.must \ list.got
Skipped == {i \in Unread : Cardinality(Ahead(i)) < list.offset}

\* The tables and the records of the readers.
TablesOK ==
    /\ metric \in [Videos -> [Days -> Counts \cup {NoRow, Null}]]
    /\ seen \in [Videos -> 0 .. imports] /\ seenLive \in [Sessions -> 0 .. imports]
    /\ imports \in 0 .. MaxImports

ListOK ==
    /\ list \in [kind : Kinds, counted : BOOLEAN, out : SUBSET Known[list.kind],
                 pc : {"idle", "count", "select", "done"}, total : Nat, offset : Nat,
                 got : SUBSET Known[list.kind], must : SUBSET Known[list.kind],
                 left : 0 .. MaxLeft, grown : BOOLEAN]
    /\ list.offset <= Room(list.kind) /\ list.total <= Room(list.kind)
    /\ list.pc = "count" => list.counted
    /\ list.kind = "search" => list.counted /\ list.pc # "select"
    /\ Reading => list.must \subseteq Listed

\* A total that no new row has made stale counts at least what is there.
TotalOK == list.pc = "select" /\ list.counted /\ ~list.grown => Size <= list.total

\* Rows of one time have no certain order in a first list: none of them is promised.
AloneOK == Reading /\ ~list.counted => \A i \in list.must : Alone(i)

\* The cursor has passed no more unread rows than have left the listing.
SkippedOK == Reading => Cardinality(Skipped) <= list.left

SyncOK ==
    /\ sync = [pc |-> sync.pc, plays |-> sync.plays, offset |-> sync.offset,
               rows |-> sync.rows, clean |-> sync.clean]
    /\ sync.pc \in {"idle", "video", "live", "done"}
    /\ sync.offset \in 0 .. Span
    /\ sync.pc = "done" => sync.offset = Span

\* A sequence of n rows, those of one day after the other.
DayRows(rows, first, n) ==
    /\ rows = [i \in 1 .. n |-> rows[i]]
    /\ \A i \in 1 .. n : rows[i].day = first + i - 1

\* The rows returned are those of the first days of the month.
RowsOK == DayRows(sync.rows, Month[1], sync.offset)

RInv == TablesOK /\ ListOK /\ TotalOK /\ AloneOK /\ SkippedOK /\ UntouchedAreRead /\ SyncOK /\ RowsOK

-----------------------------------------------------------------------------
(* Sequences and sets. *)

\* The least of two numbers.
LEMMA MinOfTwo ==
    ASSUME NEW a \in Int, NEW b \in Int
    PROVE  Min({a, b}) = IF a <= b THEN a ELSE b
BY DEF Min

\* Where a page of at most p of the n rows ends.
LEMMA EndOfPage ==
    ASSUME NEW n \in Nat, NEW offset \in 0 .. n, NEW p \in Nat \ {0}
    PROVE  LET last == Min({offset + p, n})
           IN  /\ last \in offset .. n /\ last - offset \in 0 .. p
               /\ last - offset < p => last = n
               /\ offset < n => last > offset
<1>1. Min({offset + p, n}) = IF offset + p <= n THEN offset + p ELSE n
    BY MinOfTwo
<1> QED BY <1>1

LEMMA Numbers ==
    /\ Month \in Days \X Days /\ Month[1] \in Int /\ Month[2] \in Int /\ Month[1] <= Month[2]
    /\ Month[1] > 0 /\ Span \in Nat \ {0}
    /\ PageSize \in Nat \ {0} /\ LastDay \in Nat /\ MaxLeft \in Nat
BY ReportConstants DEF Ranges, Days, Span

\* What there is, and what may be, is a finite set of numbers.
LEMMA KnownAreFinite ==
    ASSUME TablesOK, NEW kind \in Kinds
    PROVE  /\ IsFiniteSet(Known[kind]) /\ Room(kind) \in Nat /\ Known[kind] \subseteq Int
           /\ Contents[kind] \subseteq Known[kind]
<1>1. Present \subseteq Videos /\ Streamed \subseteq Sessions
    BY DEF Present, Streamed
<1>2. IsFiniteSet(Videos) /\ IsFiniteSet(Sessions) /\ Videos \subseteq Int /\ Sessions \subseteq Int
    BY ReportConstants
<1>3. IsFiniteSet(1 .. imports) /\ 1 .. imports \subseteq Int
    BY FS_Interval DEF TablesOK
<1>4. /\ Known[kind] \in {Videos, Sessions, 1 .. imports}
      /\ Contents[kind] \subseteq Known[kind]
    BY <1>1 DEF Known, Contents, Kinds
<1>5. IsFiniteSet(Known[kind]) /\ Known[kind] \subseteq Int
    BY <1>2, <1>3, <1>4
<1> QED BY <1>4, <1>5, FS_CardinalityType DEF Room

LEMMA ListedIsFinite ==
    ASSUME TablesOK, list.kind \in Kinds
    PROVE  /\ IsFiniteSet(Listed) /\ Size \in Nat /\ Size <= Room(list.kind) /\ Listed \subseteq Int
           /\ Listed \subseteq Known[list.kind] /\ Listed \subseteq Contents[list.kind]
<1>1. Listed \subseteq Known[list.kind] /\ Listed \subseteq Contents[list.kind]
    BY KnownAreFinite DEF Listed
<1>2. IsFiniteSet(Known[list.kind]) /\ Known[list.kind] \subseteq Int
    BY KnownAreFinite
<1>3. IsFiniteSet(Listed) /\ Cardinality(Listed) <= Cardinality(Known[list.kind])
    BY <1>1, <1>2, FS_Subset
<1> QED BY <1>1, <1>2, <1>3, FS_CardinalityType DEF Size, Room

LEMMA AheadIsFinite ==
    ASSUME TablesOK, list.kind \in Kinds, NEW i
    PROVE  IsFiniteSet(Ahead(i)) /\ Cardinality(Ahead(i)) \in Nat /\ Ahead(i) \subseteq Listed
<1>1. IsFiniteSet(Ahead(i)) /\ Ahead(i) \subseteq Listed
    BY ListedIsFinite, FS_Subset DEF Ahead
<1> QED BY <1>1, FS_CardinalityType

LEMMA StampsAreNumbers ==
    ASSUME TablesOK, NEW kind \in Kinds, NEW i \in Contents[kind]
    PROVE  Stamp[kind][i] \in Nat /\ (kind # "search" => Stamp[kind][i] <= imports)
<1>1. Present \subseteq Videos /\ Streamed \subseteq Sessions
    BY DEF Present, Streamed
<1>2. CASE kind = "live" BY <1>1, <1>2 DEF Contents, Stamp, TablesOK
<1>3. CASE kind = "source" BY <1>3 DEF Contents, Stamp, TablesOK
<1>4. CASE kind = "search"
    <2>1. Contents[kind] = Present /\ Stamp[kind] = PublishDay
        BY <1>4 DEF Contents, Stamp
    <2>2. PublishDay \in [Videos -> 0 .. LastDay] /\ LastDay \in Nat
        BY ReportConstants DEF Days
    <2> QED BY <1>1, <1>4, <2>1, <2>2
<1>5. CASE kind = "video" BY <1>1, <1>5 DEF Contents, Stamp, TablesOK
<1> QED BY <1>2, <1>3, <1>4, <1>5 DEF Kinds

\* Ties broken by the id, the rows of a listing are in one order.
LEMMA BeforeIsOrder ==
    ASSUME TablesOK, list.kind \in Kinds, NEW i \in Listed, NEW j \in Listed, NEW h \in Listed
    PROVE  /\ Before(list.kind, TRUE, i, j) /\ Before(list.kind, TRUE, j, h)
                => Before(list.kind, TRUE, i, h)
           /\ ~(Before(list.kind, TRUE, i, j) /\ Before(list.kind, TRUE, j, i))
           /\ i # j => Before(list.kind, TRUE, i, j) \/ Before(list.kind, TRUE, j, i)
<1>1. i \in Int /\ j \in Int /\ h \in Int
    BY ListedIsFinite
<1>2. /\ Stamp[list.kind][i] \in Int /\ Stamp[list.kind][j] \in Int /\ Stamp[list.kind][h] \in Int
    BY ListedIsFinite, StampsAreNumbers
<1> QED BY <1>1, <1>2 DEF Before

\* Less is ahead of a row than of one behind it.
LEMMA AheadGrows ==
    ASSUME TablesOK, list.kind \in Kinds, NEW y \in Listed, NEW z \in Ahead(y)
    PROVE  Ahead(z) \subseteq Ahead(y) /\ Cardinality(Ahead(z)) < Cardinality(Ahead(y))
<1>1. z \in Listed /\ z # y /\ Before(list.kind, TRUE, z, y)
    BY DEF Ahead
<1>2. z \notin Ahead(z)
    BY DEF Ahead
<1>3. Ahead(z) \subseteq Ahead(y)
    <2> SUFFICES ASSUME NEW j \in Ahead(z) PROVE j \in Ahead(y)
        OBVIOUS
    <2>1. j \in Listed /\ Before(list.kind, TRUE, j, z)
        BY DEF Ahead
    <2>2. Before(list.kind, TRUE, j, y) /\ j # y
        BY <1>1, <2>1, BeforeIsOrder
    <2> QED BY <2>1, <2>2 DEF Ahead
<1>4. Cardinality(Ahead(z)) <= Cardinality(Ahead(y)) /\ Ahead(z) # Ahead(y)
      /\ (Cardinality(Ahead(y)) = Cardinality(Ahead(z)) => Ahead(z) = Ahead(y))
    BY <1>2, <1>3, AheadIsFinite, FS_Subset
<1>5. Cardinality(Ahead(z)) \in Nat /\ Cardinality(Ahead(y)) \in Nat
    BY AheadIsFinite
<1> QED BY <1>3, <1>4, <1>5

\* Of rows that all have `offset` rows ahead, the last one has the others ahead as well.
LEMMA LastOfRows ==
    ASSUME TablesOK, list.kind \in Kinds, NEW X \in SUBSET Listed, X # {}, NEW offset \in Nat,
           \A x \in X : offset <= Cardinality(Ahead(x))
    PROVE  \E x \in X : offset + Cardinality(X) <= Cardinality(Ahead(x)) + 1
<1> DEFINE A(x) == Cardinality(Ahead(x))
           Least == {n \in Nat : \E x \in X : n = A(x)}
           Last1 == {n \in Nat : \E x \in X : n = Size - A(x)}
<1>1. \A x \in X : A(x) \in Nat /\ Size - A(x) \in Nat
    <2> SUFFICES ASSUME NEW x \in X PROVE A(x) \in Nat /\ Size - A(x) \in Nat
        OBVIOUS
    <2>1. A(x) \in Nat /\ Ahead(x) \subseteq Listed
        BY AheadIsFinite
    <2>2. A(x) <= Size /\ Size \in Nat
        BY <2>1, ListedIsFinite, FS_Subset DEF Size
    <2> QED BY <2>1, <2>2
<1>s. Size \in Nat
    BY ListedIsFinite
<1>2. \A y \in Listed : \A z \in Ahead(y) : A(z) < A(y) /\ Ahead(z) \subseteq Ahead(y)
    BY AheadGrows
<1> HIDE DEF A
<1>3. PICK y \in X : \A z \in X : ~(A(z) < A(y))
    <2>1. Least # {} /\ Least \in SUBSET Nat
        BY <1>1
    <2>2. PICK n \in Least : \A m \in Least : ~(m < n)
        <3> HIDE DEF Least
        <3> QED BY <2>1, NoLeast
    <2>3. PICK y \in X : n = A(y)
        OBVIOUS
    <2>4. \A z \in X : A(z) \in Least
        BY <1>1
    <2> HIDE DEF Least
    <2> QED BY <2>2, <2>3, <2>4
<1>4. PICK x \in X : \A z \in X : ~(A(x) < A(z))
    <2>1. Last1 # {} /\ Last1 \in SUBSET Nat
        BY <1>1
    <2>2. PICK n \in Last1 : \A m \in Last1 : ~(m < n)
        <3> HIDE DEF Last1
        <3> QED BY <2>1, NoLeast
    <2>3. PICK x \in X : n = Size - A(x)
        OBVIOUS
    <2>4. \A z \in X : Size - A(z) \in Last1
        BY <1>1
    <2> HIDE DEF Last1
    <2>5. \A z \in X : ~(Size - A(z) < Size - A(x))
        BY <2>2, <2>3, <2>4
    <2> QED BY <1>1, <1>s, <2>5
<1>5. X \ {x} \subseteq Ahead(x)
    <2> SUFFICES ASSUME NEW z \in X, z # x PROVE z \in Ahead(x)
        OBVIOUS
    <2>1. z \in Listed /\ x \in Listed
        OBVIOUS
    <2>2. Before(list.kind, TRUE, z, x) \/ Before(list.kind, TRUE, x, z)
        BY <2>1, BeforeIsOrder
    <2>3. x \notin Ahead(z)
        BY <1>2, <1>4, <2>1
    <2> QED BY <2>1, <2>2, <2>3 DEF Ahead
<1>6. Ahead(y) \subseteq Ahead(x)
    BY <1>2, <1>5
<1>7. Ahead(y) \cap X = {}
    BY <1>2, <1>3
<1>8. IsFiniteSet(X) /\ Cardinality(X) \in Nat
    BY ListedIsFinite, FS_Subset, FS_CardinalityType
<1>9. IsFiniteSet(X \ {x}) /\ Cardinality(X \ {x}) = Cardinality(X) - 1
    BY <1>8, FS_RemoveElement
<1>10. Cardinality(Ahead(y) \cup (X \ {x})) = A(y) + Cardinality(X) - 1
    <2>1. Ahead(y) \cap (X \ {x}) = {}
        BY <1>7
    <2>2. Cardinality(Ahead(y) \cup (X \ {x})) = Cardinality(Ahead(y)) + Cardinality(X \ {x}) - Cardinality({})
        BY <1>9, <2>1, AheadIsFinite, FS_Union
    <2> QED BY <1>1, <1>8, <1>9, <2>2, FS_EmptySet DEF A
<1>11. Cardinality(Ahead(y) \cup (X \ {x})) <= A(x)
    <2>1. Ahead(y) \cup (X \ {x}) \in SUBSET Ahead(x)
        BY <1>5, <1>6
    <2> QED BY <2>1, AheadIsFinite, FS_Subset DEF A
<1>12. offset <= A(y)
    BY DEF A
<1>13. offset + Cardinality(X) <= A(x) + 1
    BY <1>1, <1>8, <1>10, <1>11, <1>12
<1> QED BY <1>13 DEF A

\* A page begins behind the cursor and ends at the limit or with the last row.
LEMMA PageOf ==
    ASSUME NEW S, NEW order \in Seq(S), NEW offset \in 0 .. Len(order)
    PROVE  LET page == Slice(order, offset)
               next == NextOffset(offset, page)
           IN  /\ page \in Seq(S) /\ Len(page) \in 0 .. PageSize
               /\ next \in offset .. Len(order)
               /\ Len(page) < PageSize => next = Len(order)
               /\ PageSize > 0 /\ offset < Len(order) => next > offset
               /\ \A k \in 1 .. Len(page) : page[k] = order[offset + k]
               /\ ToSet(page) = {order[k] : k \in offset + 1 .. next}
<1> DEFINE last == Min({offset + PageSize, Len(order)})
           page == Slice(order, offset)
<1>0. Len(order) \in Nat /\ offset \in Nat /\ PageSize \in Nat \ {0} /\ DOMAIN order = 1 .. Len(order)
    BY Numbers
<1>1. /\ last \in offset .. Len(order) /\ last - offset \in 0 .. PageSize
      /\ last - offset < PageSize => last = Len(order)
      /\ offset < Len(order) => last > offset
    BY <1>0, EndOfPage
<1>2. last \in offset .. Len(order)
    BY <1>1
<1>3. page = SubSeq(order, offset + 1, last)
    BY DEF Slice
<1> HIDE DEF last
<1>4. page \in Seq(S) /\ Len(page) = last - offset
    BY <1>0, <1>2, <1>3
<1>5. \A k \in 1 .. Len(page) : page[k] = order[offset + k]
    BY <1>0, <1>2, <1>3, <1>4
<1>6. NextOffset(offset, page) = last
    BY <1>0, <1>2, <1>4 DEF NextOffset
<1> HIDE DEF page
<1>7. ToSet(page) = {order[k] : k \in offset + 1 .. last}
    <2>1. ToSet(page) = {page[k] : k \in 1 .. last - offset}
        BY <1>4 DEF ToSet
    <2>2. \A k \in 1 .. last - offset : page[k] = order[offset + k] /\ offset + k \in offset + 1 .. last
        BY <1>0, <1>2, <1>4, <1>5
    <2>3. \A k \in offset + 1 .. last : k - offset \in 1 .. last - offset /\ offset + (k - offset) = k
        BY <1>0, <1>2
    <2>4. {page[k] : k \in 1 .. last - offset} \subseteq {order[k] : k \in offset + 1 .. last}
        BY <2>2
    <2>5. {order[k] : k \in offset + 1 .. last} \subseteq {page[k] : k \in 1 .. last - offset}
        <3> SUFFICES ASSUME NEW k \in offset + 1 .. last
                     PROVE  order[k] \in {page[h] : h \in 1 .. last - offset}
            OBVIOUS
        <3>1. page[k - offset] = order[k]
            BY <2>2, <2>3
        <3> QED BY <2>3, <3>1
    <2> QED BY <2>1, <2>4, <2>5
<1>8. Len(page) \in 0 .. PageSize /\ (Len(page) < PageSize => last = Len(order))
      /\ (offset < Len(order) => last > offset)
    BY <1>1, <1>4
<1> QED BY <1>2, <1>4, <1>5, <1>6, <1>7, <1>8 DEF page

\* A page wherever the cursor is: behind the last row it is empty.
LEMMA PageEnds ==
    ASSUME NEW S, NEW order \in Seq(S), NEW offset \in Nat
    PROVE  LET page == Slice(order, offset)
               next == NextOffset(offset, page)
           IN  /\ next \in Nat /\ offset <= next /\ (next <= Len(order) \/ next = offset)
               /\ Len(page) < PageSize => Len(order) <= next
               /\ ToSet(page) \subseteq S
<1>1. Len(order) \in Nat /\ PageSize \in Nat \ {0}
    BY Numbers
<1>2. CASE offset \in 0 .. Len(order)
    <2> DEFINE page == Slice(order, offset)
    <2>1. /\ page \in Seq(S) /\ NextOffset(offset, page) \in offset .. Len(order)
          /\ Len(page) < PageSize => NextOffset(offset, page) = Len(order)
        BY <1>2, PageOf
    <2>2. ToSet(page) \subseteq S
        BY <2>1 DEF ToSet
    <2> QED BY <1>1, <2>1, <2>2
<1>3. CASE offset > Len(order)
    <2>1. Min({offset + PageSize, Len(order)}) = Len(order)
        BY <1>1, <1>3, MinOfTwo
    <2>2. Slice(order, offset) = <<>>
        BY <1>1, <1>3, <2>1 DEF Slice
    <2>3. NextOffset(offset, <<>>) = offset /\ ToSet(<<>>) = {}
        BY DEF NextOffset, ToSet
    <2> QED BY <1>1, <1>3, <2>2, <2>3
<1> QED BY <1>1, <1>2, <1>3

LEMMA OrderIsSequence ==
    ASSUME TablesOK, list.kind \in Kinds, NEW byId, NEW order \in Orders(byId)
    PROVE  /\ order \in [1 .. Size -> Listed]
           /\ order \in Seq(Listed) /\ Len(order) = Size
           /\ order \in Injection(1 .. Size, Listed)
           /\ order \in Surjection(1 .. Size, Listed)
           /\ \A k, h \in 1 .. Size : k < h => Before(list.kind, byId, order[k], order[h])
<1>1. Size \in Nat /\ IsFiniteSet(Listed)
    BY ListedIsFinite
<1>2. /\ order \in [1 .. Size -> Listed]
      /\ \A k, h \in 1 .. Size : k # h => order[k] # order[h]
    BY DEF Orders, SetToSeqs, Size
<1>3. order \in Seq(Listed) /\ Len(order) = Size
    BY <1>1, <1>2
<1>4. order \in Injection(1 .. Size, Listed)
    BY <1>2 DEF Injection, IsInjective
<1>5. order \in Surjection(1 .. Size, Listed)
    <2>1. IsFiniteSet(1 .. Size) /\ Cardinality(1 .. Size) = Size
        BY <1>1, FS_Interval
    <2>2. Cardinality(1 .. Size) = Cardinality(Listed)
        BY <2>1 DEF Size
    <2> QED BY <1>1, <1>4, <2>2, FS_Injection
<1>6. \A k, h \in 1 .. Size : k < h => Before(list.kind, byId, order[k], order[h])
    BY <1>2 DEF Orders
<1> QED BY <1>2, <1>3, <1>4, <1>5, <1>6

\* A row that no other row ties with is behind those that a listing by id puts ahead of
\* it, in whatever order the others are.
LEMMA Position ==
    ASSUME TablesOK, list.kind \in Kinds, NEW byId \in BOOLEAN, NEW order \in Orders(byId),
           NEW i \in Listed, byId \/ Alone(i)
    PROVE  /\ Cardinality(Ahead(i)) + 1 \in 1 .. Size
           /\ order[Cardinality(Ahead(i)) + 1] = i
<1>1. Size \in Nat /\ IsFiniteSet(Listed) /\ Listed \subseteq Int
    BY ListedIsFinite
<1>2. order \in [1 .. Size -> Listed]
      /\ \A k, h \in 1 .. Size : k < h => Before(list.kind, byId, order[k], order[h])
    BY OrderIsSequence
<1>3. \A k, h \in 1 .. Size : k # h => order[k] # order[h]
    BY OrderIsSequence DEF Injection, IsInjective
<1>4. PICK p \in 1 .. Size : order[p] = i
    BY OrderIsSequence DEF Surjection
<1> DEFINE first == [k \in 1 .. p - 1 |-> order[k]]
<1>5. \A k \in 1 .. p - 1 : k \in 1 .. Size /\ k < p
    BY <1>1, <1>4
<1>6. \A k \in 1 .. p - 1 : order[k] \in Ahead(i)
    <2> SUFFICES ASSUME NEW k \in 1 .. p - 1 PROVE order[k] \in Ahead(i)
        OBVIOUS
    <2>1. order[k] \in Listed \ {i}
        BY <1>2, <1>3, <1>4, <1>5
    <2>2. Before(list.kind, byId, order[k], i)
        BY <1>2, <1>4, <1>5
    <2>3. Before(list.kind, TRUE, order[k], i)
        BY <2>1, <2>2 DEF Before, Alone
    <2> QED BY <2>1, <2>3 DEF Ahead
<1>7. \A j \in Ahead(i) : \E k \in 1 .. p - 1 : order[k] = j
    <2> SUFFICES ASSUME NEW j \in Ahead(i) PROVE \E k \in 1 .. p - 1 : order[k] = j
        OBVIOUS
    <2>1. j \in Listed \ {i} /\ Before(list.kind, TRUE, j, i)
        BY DEF Ahead
    <2>2. PICK k \in 1 .. Size : order[k] = j
        BY <2>1, OrderIsSequence DEF Surjection
    <2>3. k # p
        BY <1>4, <2>1, <2>2
    <2>4. ~ k > p
        <3> SUFFICES ASSUME k > p PROVE FALSE
            OBVIOUS
        <3>1. Before(list.kind, byId, i, j)
            BY <1>2, <1>4, <2>2
        <3>2. Before(list.kind, TRUE, i, j)
            BY <2>1, <3>1 DEF Before, Alone
        <3> QED BY <2>1, <3>2, BeforeIsOrder
    <2> QED BY <1>4, <2>2, <2>3, <2>4
<1>8. first \in Bijection(1 .. p - 1, Ahead(i))
    <2>1. first \in [1 .. p - 1 -> Ahead(i)]
        BY <1>6
    <2>2. \A k, h \in 1 .. p - 1 : first[k] = first[h] => k = h
        BY <1>3, <1>5
    <2>3. \A j \in Ahead(i) : \E k \in 1 .. p - 1 : first[k] = j
        BY <1>7
    <2> HIDE DEF first
    <2>4. first \in Injection(1 .. p - 1, Ahead(i))
        BY <2>1, <2>2 DEF Injection, IsInjective
    <2>5. first \in Surjection(1 .. p - 1, Ahead(i))
        BY <2>1, <2>3 DEF Surjection
    <2> QED BY <2>4, <2>5 DEF Bijection
<1>9. Cardinality(Ahead(i)) = p - 1
    <2>1. IsFiniteSet(1 .. p - 1) /\ Cardinality(1 .. p - 1) = p - 1
        <3>1. p - 1 \in Int /\ p >= 1
            BY <1>1, <1>4
        <3>2. IsFiniteSet(1 .. p - 1)
              /\ Cardinality(1 .. p - 1) = IF 1 > p - 1 THEN 0 ELSE (p - 1) - 1 + 1
            BY <3>1, FS_Interval
        <3> QED BY <3>1, <3>2
    <2>2. ExistsBijection(1 .. p - 1, Ahead(i))
        BY <1>8 DEF ExistsBijection
    <2> QED BY <2>1, <2>2, FS_Bijection
<1> QED BY <1>1, <1>4, <1>9

\* What a page has not read is behind it, or was before the cursor already.
LEMMA ReadUpTo ==
    ASSUME TablesOK, list.kind \in Kinds, NEW byId \in BOOLEAN, NEW order \in Orders(byId),
           NEW offset \in Nat, NEW i \in Listed, byId \/ Alone(i),
           i \notin ToSet(Slice(order, offset)),
           Cardinality(Ahead(i)) < NextOffset(offset, Slice(order, offset))
    PROVE  Cardinality(Ahead(i)) < offset
<1> DEFINE next == NextOffset(offset, Slice(order, offset))
           k == Cardinality(Ahead(i)) + 1
<1>1. order \in Seq(Listed) /\ Len(order) = Size
    BY OrderIsSequence
<1>2. k \in 1 .. Size /\ order[k] = i
    BY Position
<1>3. Size \in Nat /\ Cardinality(Ahead(i)) \in Nat
    BY ListedIsFinite, AheadIsFinite
<1>4. SUFFICES ASSUME offset <= Cardinality(Ahead(i)) PROVE FALSE
    BY <1>3
<1>5. offset \in 0 .. Len(order)
    BY <1>1, <1>2, <1>3, <1>4
<1>6. /\ next \in offset .. Len(order)
      /\ ToSet(Slice(order, offset)) = {order[h] : h \in offset + 1 .. next}
    BY <1>1, <1>5, PageOf
<1>7. k \notin offset + 1 .. next
    BY <1>2, <1>6
<1> HIDE DEF next
<1>8. ~ k <= next
    BY <1>3, <1>4, <1>6, <1>7
<1>9. next \in Int
    BY <1>1, <1>3, <1>6
<1> QED BY <1>3, <1>8, <1>9 DEF next

-----------------------------------------------------------------------------
(* Steps of the readers: the tables stay.                                    *)

ListInv == ListOK /\ TotalOK /\ AloneOK /\ SkippedOK /\ UntouchedAreRead

LEMMA TablesKept ==
    ASSUME TablesOK, UNCHANGED tables
    PROVE  TablesOK' /\ Contents' = Contents /\ Known' = Known /\ Stamp' = Stamp
BY DEF TablesOK, tables, Contents, Known, Stamp, Present, Streamed

LEMMA ListingKept ==
    ASSUME Contents' = Contents, Stamp' = Stamp, list'.kind = list.kind, list'.out = list.out
    PROVE  /\ Listed' = Listed /\ Size' = Size
           /\ \A i : Ahead(i)' = Ahead(i)
           /\ \A i : Alone(i)' <=> Alone(i)
<1>1. Listed' = Listed
    BY DEF Listed
<1>2. Size' = Size
    BY <1>1 DEF Size
<1>3. ASSUME NEW i PROVE Ahead(i)' = Ahead(i)
    BY <1>1 DEF Ahead, Before
<1>4. ASSUME NEW i PROVE Alone(i)' <=> Alone(i)
    BY <1>1 DEF Alone
<1> QED BY <1>1, <1>2, <1>3, <1>4

LEMMA ListUnmoved ==
    ASSUME TablesOK, ListInv, UNCHANGED <<tables, list>>
    PROVE  ListInv'
<1>1. Contents' = Contents /\ Known' = Known /\ Stamp' = Stamp /\ list' = list
    BY TablesKept
<1>2. /\ Listed' = Listed /\ Size' = Size
      /\ \A i : Ahead(i)' = Ahead(i)
      /\ \A i : Alone(i)' <=> Alone(i)
    BY <1>1, ListingKept
<1>3. Room(list.kind)' = Room(list.kind) /\ (Reading' <=> Reading)
    BY <1>1 DEF Room, Reading
<1>4. ListOK' BY <1>1, <1>2, <1>3 DEF ListInv, ListOK
<1>5. TotalOK' BY <1>1, <1>2 DEF ListInv, TotalOK
<1>6. AloneOK' BY <1>1, <1>2, <1>3 DEF ListInv, AloneOK
<1>7. Skipped' = Skipped
    BY <1>1, <1>2 DEF Skipped, Unread
<1>8. SkippedOK' BY <1>1, <1>3, <1>7 DEF ListInv, SkippedOK
<1>9. UntouchedAreRead' BY <1>1 DEF ListInv, UntouchedAreRead
<1> QED BY <1>4, <1>5, <1>6, <1>8, <1>9 DEF ListInv

\* A listing that begins or none.
LEMMA ListBegins ==
    ASSUME TablesOK, UNCHANGED tables, NEW kind \in Kinds, NEW counted \in BOOLEAN,
           NEW pc \in {"idle", "count", "select"}, NEW out \in SUBSET Contents[kind],
           NEW must \in SUBSET Promised(kind, counted, Contents[kind] \ out),
           pc = "count" => counted, pc = "select" => ~counted,
           kind = "search" => counted,
           list' = [kind |-> kind, counted |-> counted, out |-> out, pc |-> pc, total |-> 0,
                    offset |-> 0, got |-> {}, must |-> must, left |-> 0, grown |-> FALSE]
    PROVE  ListInv'
<1>1. Contents' = Contents /\ Known' = Known /\ Stamp' = Stamp
    BY TablesKept
<1>2. must \subseteq Contents[kind] \ out
    BY DEF Promised
<1>3. Contents[kind] \subseteq Known[kind] /\ Room(kind) \in Nat
    BY KnownAreFinite
<1>4. Listed' = Contents[kind] \ out /\ Room(list.kind)' = Room(kind)
    BY <1>1 DEF Listed, Room
<1>5. ListOK'
    <2>1. list' \in [kind : Kinds, counted : BOOLEAN, out : SUBSET Known'[kind],
                     pc : {"idle", "count", "select", "done"}, total : Nat, offset : Nat,
                     got : SUBSET Known'[kind], must : SUBSET Known'[kind],
                     left : 0 .. MaxLeft, grown : BOOLEAN]
        BY <1>1, <1>2, <1>3, Numbers
    <2> QED BY <1>2, <1>3, <1>4, <2>1 DEF ListOK
<1>6. TotalOK'
    BY DEF TotalOK
<1>7. AloneOK'
    BY <1>1, <1>4 DEF AloneOK, Alone, Promised
<1>8. SkippedOK'
    <2>1. ASSUME NEW i PROVE ~(Cardinality(Ahead(i)') < 0)
        <3>1. Ahead(i)' \subseteq Contents[kind] \ out
            BY <1>4 DEF Ahead
        <3>2. IsFiniteSet(Ahead(i)')
            BY <1>3, <3>1, KnownAreFinite, FS_Subset
        <3> QED BY <3>2, FS_CardinalityType
    <2>2. Skipped' = {}
        BY <2>1 DEF Skipped
    <2> QED BY <2>2, FS_EmptySet DEF SkippedOK
<1>9. UntouchedAreRead'
    BY DEF UntouchedAreRead
<1> QED BY <1>5, <1>6, <1>7, <1>8, <1>9 DEF ListInv

\* A page of a listing in which every promised row has a certain place.
LEMMA PageTaken ==
    ASSUME TablesOK, ListInv, UNCHANGED tables, NEW byId \in BOOLEAN, byId \/ ~list.counted,
           NEW order \in Orders(byId), Reading,
           NEW pc \in {"count", "select", "done"},
           pc = "count" => list.counted,
           pc = "select" => ~list.counted,
           NEW total \in 0 .. Room(list.kind),
           NEW next, next = NextOffset(list.offset, Slice(order, list.offset)),
           pc = "done" /\ ~list.grown => Size <= next,
           list' = [kind |-> list.kind, counted |-> list.counted, out |-> list.out, pc |-> pc,
                    total |-> total, offset |-> next,
                    got |-> list.got \cup ToSet(Slice(order, list.offset)),
                    must |-> list.must, left |-> list.left, grown |-> list.grown]
    PROVE  ListInv'
<1> DEFINE page == Slice(order, list.offset)
<1>1. Contents' = Contents /\ Known' = Known /\ Stamp' = Stamp
    BY TablesKept
<1>2. /\ list.kind \in Kinds /\ list.counted \in BOOLEAN /\ list.out \subseteq Known[list.kind]
      /\ list.got \subseteq Known[list.kind] /\ list.must \subseteq Known[list.kind]
      /\ list.left \in 0 .. MaxLeft /\ list.grown \in BOOLEAN /\ list.must \subseteq Listed
      /\ list.kind = "search" => list.counted
    BY DEF ListInv, ListOK
<1>o. list.offset \in Nat /\ list.offset <= Room(list.kind)
    BY DEF ListInv, ListOK
<1>s. /\ Size \in Nat /\ Room(list.kind) \in Nat /\ Size <= Room(list.kind)
      /\ Listed \subseteq Known[list.kind] /\ IsFiniteSet(Listed)
    BY <1>2, ListedIsFinite, KnownAreFinite
<1>3. order \in Seq(Listed) /\ Len(order) = Size
    BY <1>2, OrderIsSequence
<1>4. /\ next \in Nat /\ (next <= Size \/ next = list.offset)
      /\ ToSet(page) \subseteq Listed
    BY <1>3, <1>o, PageEnds
<1>n. next \in Nat /\ next <= Room(list.kind)
    BY <1>4, <1>o, <1>s
<1> HIDE DEF page
<1>7. /\ list'.kind = list.kind /\ list'.counted = list.counted /\ list'.out = list.out
      /\ list'.pc = pc /\ list'.total = total /\ list'.offset = next
      /\ list'.got = list.got \cup ToSet(page) /\ list'.must = list.must
      /\ list'.left = list.left /\ list'.grown = list.grown
    BY DEF page
<1>8. /\ Listed' = Listed /\ Size' = Size
      /\ \A i : Ahead(i)' = Ahead(i)
      /\ \A i : Alone(i)' <=> Alone(i)
    BY <1>1, <1>7, ListingKept
<1>r. Room(list.kind)' = Room(list.kind)
    BY <1>1, <1>7 DEF Room
<1>9. ListOK'
    <2>1. list.got \cup ToSet(page) \subseteq Known[list.kind]
        BY <1>2, <1>4, <1>s
    <2>2. list' \in [kind : Kinds, counted : BOOLEAN, out : SUBSET Known[list.kind],
                     pc : {"idle", "count", "select", "done"}, total : Nat, offset : Nat,
                     got : SUBSET Known[list.kind], must : SUBSET Known[list.kind],
                     left : 0 .. MaxLeft, grown : BOOLEAN]
        BY <1>2, <1>n, <1>s, <2>1 DEF page
    <2>3. list'.offset <= Room(list.kind) /\ list'.total <= Room(list.kind)
        BY <1>7, <1>n, <1>s
    <2>4. (list'.pc = "count" => list'.counted)
          /\ (list'.kind = "search" => list'.counted /\ list'.pc # "select")
        BY <1>2, <1>7
    <2>5. list'.must \subseteq Listed'
        BY <1>2, <1>7, <1>8
    <2> QED BY <1>1, <1>7, <1>r, <2>2, <2>3, <2>4, <2>5 DEF ListOK
<1>10. TotalOK'
    BY <1>7 DEF TotalOK
<1>11. AloneOK'
    BY <1>7, <1>8 DEF AloneOK, ListInv
<1>12. \A i \in list.must : byId \/ Alone(i)
    BY DEF AloneOK, ListInv
<1> DEFINE passed == {i \in list.must \ (list.got \cup ToSet(page)) : Cardinality(Ahead(i)) < next}
<1>13. passed \subseteq Skipped
    <2> SUFFICES ASSUME NEW i \in passed PROVE i \in Skipped
        OBVIOUS
    <2>1. i \in Listed /\ i \in Unread /\ i \notin ToSet(page) /\ Cardinality(Ahead(i)) < next
        BY <1>2 DEF Unread
    <2>2. Cardinality(Ahead(i)) < list.offset
        BY <1>2, <1>12, <1>o, <2>1, ReadUpTo DEF page
    <2> QED BY <2>1, <2>2 DEF Skipped
<1>14. Cardinality(passed) <= list.left
    <2>1. Cardinality(Skipped) <= list.left
        BY DEF ListInv, SkippedOK
    <2>2. IsFiniteSet(Skipped)
        BY <1>2, <1>s, FS_Subset DEF Skipped, Unread
    <2>3. Cardinality(passed) <= Cardinality(Skipped)
        BY <1>13, <2>2, FS_Subset
    <2>4. Cardinality(passed) \in Nat /\ Cardinality(Skipped) \in Nat /\ list.left \in Int
        BY <1>2, <1>13, <2>2, FS_Subset, FS_CardinalityType
    <2> HIDE DEF passed
    <2> QED BY <2>1, <2>3, <2>4
<1>15. SkippedOK'
    <2>1. Skipped' = passed
        BY <1>7, <1>8 DEF Skipped, Unread
    <2> HIDE DEF passed
    <2> QED BY <1>7, <1>14, <2>1 DEF SkippedOK
<1>16. UntouchedAreRead'
    <2> SUFFICES ASSUME pc = "done", ~list.grown
                 PROVE  Cardinality(list.must \ (list.got \cup ToSet(page))) <= list.left
        BY <1>7 DEF UntouchedAreRead
    <2>1. ASSUME NEW i \in list.must PROVE Cardinality(Ahead(i)) < next
        <3>1. i \in Listed /\ (byId \/ Alone(i))
            BY <1>2, <1>12
        <3>2. Cardinality(Ahead(i)) + 1 \in 1 .. Size
            BY <1>2, <3>1, Position
        <3>3. Cardinality(Ahead(i)) \in Nat
            BY <1>2, AheadIsFinite
        <3>4. Size <= next
            OBVIOUS
        <3> QED BY <1>n, <1>s, <3>2, <3>3, <3>4
    <2>2. list.must \ (list.got \cup ToSet(page)) = passed
        BY <2>1
    <2> HIDE DEF passed
    <2> QED BY <1>14, <2>2
<1> QED BY <1>9, <1>10, <1>11, <1>15, <1>16 DEF ListInv

LEMMA CountKeeps ==
    ASSUME TablesOK, ListInv, CountItems
    PROVE  ListInv'
<1>1. UNCHANGED tables /\ list.pc = "count" /\ list.kind # "search"
      /\ list' = [list EXCEPT !.pc = "select", !.total = Cardinality(Listed)]
    BY DEF CountItems
<1>2. ListOK /\ TotalOK /\ AloneOK /\ SkippedOK
    BY DEF ListInv
<1>3. Contents' = Contents /\ Known' = Known /\ Stamp' = Stamp
    BY <1>1, TablesKept
<1>4. Size \in Nat /\ list.kind \in Kinds /\ Size <= Room(list.kind)
    BY <1>2, ListedIsFinite DEF ListOK
<1>5. list' = [kind |-> list.kind, counted |-> list.counted, out |-> list.out, pc |-> "select",
               total |-> Size, offset |-> list.offset, got |-> list.got,
               must |-> list.must, left |-> list.left, grown |-> list.grown]
    BY <1>1, <1>2 DEF ListOK, Size
<1>6. /\ Listed' = Listed /\ Size' = Size
      /\ \A i : Ahead(i)' = Ahead(i)
      /\ \A i : Alone(i)' <=> Alone(i)
    BY <1>3, <1>5, ListingKept
<1>7. Reading /\ Reading' /\ Room(list.kind)' = Room(list.kind)
    BY <1>1, <1>3, <1>5 DEF Reading, Room
<1>8. ListOK'
    <2>1. list.kind # "search"
        BY <1>1
    <2>2. list.counted
        BY <1>1, <1>2 DEF ListOK
    <2> QED BY <1>2, <1>3, <1>4, <1>5, <1>6, <1>7, <2>1, <2>2 DEF ListOK
<1>9. TotalOK'
    BY <1>4, <1>5, <1>6 DEF TotalOK
<1>10. AloneOK'
    BY <1>2, <1>5, <1>6, <1>7 DEF AloneOK
<1>11. Skipped' = Skipped
    BY <1>5, <1>6 DEF Skipped, Unread
<1>12. SkippedOK'
    BY <1>2, <1>5, <1>7, <1>11 DEF SkippedOK
<1>13. UntouchedAreRead'
    BY <1>5 DEF UntouchedAreRead
<1> QED BY <1>8, <1>9, <1>10, <1>12, <1>13 DEF ListInv

\* The page of a counted listing, whose total is that of the COUNT before it.
LEMMA TakeKeeps ==
    ASSUME TablesOK, ListInv, UNCHANGED tables, Reading, list.counted,
           NEW total \in Nat, TakePage(total), ~list.grown => Size <= total
    PROVE  ListInv'
<1>1. PICK order \in Orders(TRUE) :
        LET page == Slice(order, list.offset)
            next == NextOffset(list.offset, page)
        IN  list' = [list EXCEPT !.got = @ \cup ToSet(page), !.offset = next, !.total = 0,
                                 !.pc = IF next < total THEN "count" ELSE "done"]
    BY DEF TakePage
<1>2. PICK next : next = NextOffset(list.offset, Slice(order, list.offset))
    OBVIOUS
<1>3. PICK pc : pc = IF next < total THEN "count" ELSE "done"
    OBVIOUS
<1>4. ListOK
    BY DEF ListInv
<1>5. list' = [kind |-> list.kind, counted |-> list.counted, out |-> list.out, pc |-> pc,
               total |-> 0, offset |-> next,
               got |-> list.got \cup ToSet(Slice(order, list.offset)),
               must |-> list.must, left |-> list.left, grown |-> list.grown]
    BY <1>1, <1>2, <1>3, <1>4 DEF ListOK
<1>6. next \in Nat /\ Size \in Nat /\ 0 \in 0 .. Room(list.kind)
    <2>1. list.kind \in Kinds /\ list.offset \in Nat
        BY <1>4 DEF ListOK
    <2>2. Size \in Nat /\ Room(list.kind) \in Nat
        BY <2>1, ListedIsFinite, KnownAreFinite
    <2>3. order \in Seq(Listed)
        BY <2>1, OrderIsSequence
    <2> QED BY <1>2, <2>1, <2>2, <2>3, PageEnds
<1>7. pc = "done" /\ ~list.grown => Size <= next
    BY <1>3, <1>6
<1>8. pc \in {"count", "done"}
    BY <1>3
<1> QED BY <1>2, <1>5, <1>6, <1>7, <1>8, PageTaken

LEMMA SelectKeeps ==
    ASSUME TablesOK, ListInv, SelectPage
    PROVE  ListInv'
<1>1. UNCHANGED tables /\ list.pc = "select" /\ list.counted /\ TakePage(list.total)
    BY DEF SelectPage
<1>2. list.total \in Nat
    BY DEF ListInv, ListOK
<1>3. ~list.grown => Size <= list.total
    BY <1>1 DEF ListInv, TotalOK
<1>4. PICK total \in Nat : total = list.total
    BY <1>2
<1>5. Reading
    BY <1>1 DEF Reading
<1> QED BY <1>1, <1>3, <1>4, <1>5, TakeKeeps

LEMMA SearchKeeps ==
    ASSUME TablesOK, ListInv, SearchPage
    PROVE  ListInv'
<1>1. UNCHANGED tables /\ list.pc = "count" /\ list.kind = "search"
      /\ TakePage(Cardinality(Listed))
    BY DEF SearchPage
<1>2. list.counted /\ Reading
    BY <1>1 DEF ListInv, ListOK, Reading
<1>3. Cardinality(Listed) = Size /\ Size \in Nat
    BY <1>1, ListedIsFinite DEF Size, Kinds
<1>4. PICK total \in Nat : total = Cardinality(Listed)
    BY <1>3
<1> QED BY <1>1, <1>2, <1>3, <1>4, TakeKeeps

LEMMA ListPageKeeps ==
    ASSUME TablesOK, ListInv, ListPage
    PROVE  ListInv'
<1>1. PICK order \in Orders(FALSE) :
        LET page == Slice(order, list.offset)
        IN  list' = [list EXCEPT !.got = @ \cup ToSet(page), !.offset = NextOffset(@, page),
                                 !.pc = IF Len(page) < PageSize THEN "done" ELSE "select"]
    BY DEF ListPage
<1>2. UNCHANGED tables /\ list.pc = "select" /\ ~list.counted
    BY DEF ListPage
<1>3. PICK next : next = NextOffset(list.offset, Slice(order, list.offset))
    OBVIOUS
<1>4. PICK pc : pc = IF Len(Slice(order, list.offset)) < PageSize THEN "done" ELSE "select"
    OBVIOUS
<1>5. ListOK
    BY DEF ListInv
<1>6. list' = [kind |-> list.kind, counted |-> list.counted, out |-> list.out, pc |-> pc,
               total |-> list.total, offset |-> next,
               got |-> list.got \cup ToSet(Slice(order, list.offset)),
               must |-> list.must, left |-> list.left, grown |-> list.grown]
    BY <1>1, <1>3, <1>4, <1>5 DEF ListOK
<1>7. pc = "done" => Size <= next
    <2>1. list.kind \in Kinds /\ list.offset \in Nat
        BY <1>5 DEF ListOK
    <2>2. order \in Seq(Listed) /\ Len(order) = Size
        BY <2>1, OrderIsSequence
    <2> QED BY <1>3, <1>4, <2>1, <2>2, PageEnds
<1>8. pc \in {"select", "done"}
    BY <1>4
<1>9. list.total \in 0 .. Room(list.kind)
    BY <1>5, KnownAreFinite DEF ListOK
<1>10. PICK total \in 0 .. Room(list.kind) : total = list.total
    BY <1>9
<1>11. Reading
    BY <1>2 DEF Reading
<1> QED BY <1>2, <1>3, <1>6, <1>7, <1>8, <1>10, <1>11, PageTaken

LEMMA ListingStarts ==
    ASSUME TablesOK, NEW kind \in Kinds, NEW counted \in BOOLEAN,
           NEW out \in SUBSET Contents[kind], StartListing(kind, counted, out)
    PROVE  ListInv'
<1>1. PICK pc \in {"count", "select"} : pc = IF counted THEN "count" ELSE "select"
    OBVIOUS
<1>2. PICK must \in SUBSET Promised(kind, counted, Contents[kind] \ out) :
            must = Promised(kind, counted, Contents[kind] \ out)
    OBVIOUS
<1>3. list' = [kind |-> kind, counted |-> counted, out |-> out, pc |-> pc, total |-> 0,
               offset |-> 0, got |-> {}, must |-> must, left |-> 0, grown |-> FALSE]
    BY <1>1, <1>2 DEF StartListing, NoList
<1>4. UNCHANGED tables /\ (kind = "search" => counted)
    BY DEF StartListing
<1> QED BY <1>1, <1>3, <1>4, ListBegins

LEMMA NoListing ==
    ASSUME TablesOK, UNCHANGED tables, list' = NoList
    PROVE  ListInv'
<1>1. list' = [kind |-> "video", counted |-> TRUE, out |-> {}, pc |-> "idle", total |-> 0,
               offset |-> 0, got |-> {}, must |-> {}, left |-> 0, grown |-> FALSE]
    BY DEF NoList
<1>2. PICK kind \in Kinds : kind = "video"
    BY DEF Kinds
<1>3. PICK counted \in BOOLEAN : counted = TRUE
    OBVIOUS
<1>4. PICK pc \in {"idle", "count", "select"} : pc = "idle"
    OBVIOUS
<1>5. PICK out \in SUBSET Contents[kind] : out = {}
    OBVIOUS
<1>6. PICK must \in SUBSET Promised(kind, counted, Contents[kind] \ out) : must = {}
    OBVIOUS
<1> QED BY <1>1, <1>2, <1>3, <1>4, <1>5, <1>6, ListBegins

-----------------------------------------------------------------------------
(* Imports and other writes: rows enter, leave and move to the front.        *)

\* A write puts nothing behind a row that it leaves alone, and what it takes from before
\* such a row has left the listing: the cursor passes no more rows than have left.
LEMMA OvertakeKeeps ==
    ASSUME TablesOK, TablesOK', ListInv, NEW moved, NEW k \in Kinds, list.kind = k,
           NEW out \in SUBSET Known'[k], Overtake(moved, out), Known[k] \subseteq Known'[k],
           NEW after, after = Contents'[k] \ out,
           \A i \in (Listed \ moved) \cap after : Stamp'[k][i] = Stamp[k][i],
           \A j \in after : \/ j \in Listed /\ Stamp'[k][j] = Stamp[k][j]
                            \/ k # "search" /\ Stamp'[k][j] = imports + 1
                            \/ list.counted /\ j \notin Listed
    PROVE  ListInv'
<1>1. ListOK /\ TotalOK /\ AloneOK /\ SkippedOK /\ UntouchedAreRead
    BY DEF ListInv
<1>2. /\ IsFiniteSet(Listed) /\ Size \in Nat /\ Listed \subseteq Known[k]
      /\ IsFiniteSet(Known[k]) /\ IsFiniteSet(Known'[k])
      /\ Room(k) \in Nat /\ Cardinality(Known'[k]) \in Nat /\ Room(k) <= Cardinality(Known'[k])
      /\ Contents'[k] \subseteq Known'[k]
    <2>1. /\ IsFiniteSet(Listed) /\ Size \in Nat /\ Listed \subseteq Known[k]
          /\ IsFiniteSet(Known[k]) /\ Room(k) \in Nat
        BY ListedIsFinite, KnownAreFinite
    <2>2. IsFiniteSet(Known'[k]) /\ Contents'[k] \subseteq Known'[k]
        <3>1. Present' \subseteq Videos /\ Streamed' \subseteq Sessions
            BY DEF Present, Streamed
        <3>2. IsFiniteSet(Videos) /\ IsFiniteSet(Sessions)
            BY ReportConstants
        <3>3. IsFiniteSet(1 .. imports')
            BY FS_Interval DEF TablesOK
        <3>4. Known'[k] \in {Videos, Sessions, 1 .. imports'} /\ Contents'[k] \subseteq Known'[k]
            BY <3>1 DEF Known, Contents, Kinds
        <3> QED BY <3>2, <3>3, <3>4
    <2>3. Cardinality(Known[k]) <= Cardinality(Known'[k]) /\ Cardinality(Known'[k]) \in Nat
        BY <2>2, FS_Subset, FS_CardinalityType
    <2> QED BY <2>1, <2>2, <2>3 DEF Room
<1>3. CASE ~Reading
    <2>1. list' = list
        BY <1>3 DEF Overtake
    <2>2. ~Reading'
        BY <1>3, <2>1 DEF Reading
    <2>3. Room(list.kind)' = Cardinality(Known'[k])
        BY <2>1 DEF Room
    <2>4. ListOK'
        <3>1. list \in [kind : Kinds, counted : BOOLEAN, out : SUBSET Known'[k],
                        pc : {"idle", "count", "select", "done"}, total : Nat, offset : Nat,
                        got : SUBSET Known'[k], must : SUBSET Known'[k],
                        left : 0 .. MaxLeft, grown : BOOLEAN]
            BY <1>1 DEF ListOK
        <3>2. /\ list.offset <= Cardinality(Known'[k]) /\ list.total <= Cardinality(Known'[k])
            <4>1. list.offset \in Nat /\ list.total \in Nat
                BY <3>1
            <4>2. list.offset <= Room(k) /\ list.total <= Room(k)
                BY <1>1 DEF ListOK
            <4> QED BY <1>2, <4>1, <4>2
        <3>3. (list.pc = "count" => list.counted)
              /\ (list.kind = "search" => list.counted /\ list.pc # "select")
            BY <1>1 DEF ListOK
        <3> QED BY <2>1, <2>2, <2>3, <3>1, <3>2, <3>3 DEF ListOK
    <2>5. TotalOK' /\ AloneOK' /\ SkippedOK'
        BY <2>2 DEF TotalOK, AloneOK, SkippedOK, Reading
    <2>6. UntouchedAreRead'
        BY <1>1, <2>1 DEF UntouchedAreRead
    <2> QED BY <2>4, <2>5, <2>6 DEF ListInv
<1>4. CASE Reading
    <2> DEFINE taken == Listed \ after
               new  == list.pc = "select" /\ list.counted /\ after \ Listed # {}
    <2>1. /\ list'.kind = k /\ list'.counted = list.counted /\ list'.out = out
          /\ list'.pc = list.pc /\ list'.total = list.total /\ list'.offset = list.offset
          /\ list'.got = list.got /\ list'.must = (list.must \ moved) \cap after
          /\ list'.left = list.left + Cardinality(taken) /\ list'.grown = (list.grown \/ new)
          /\ list' = [kind |-> list'.kind, counted |-> list'.counted, out |-> list'.out,
                      pc |-> list'.pc, total |-> list'.total, offset |-> list'.offset,
                      got |-> list'.got, must |-> list'.must, left |-> list'.left,
                      grown |-> list'.grown]
        BY <1>1, <1>4 DEF Overtake, ListOK
    <2>2. list'.left <= MaxLeft
        BY DEF Overtake
    <2>3. Listed' = after
        BY <2>1 DEF Listed
    <2>4. IsFiniteSet(taken) /\ Cardinality(taken) \in Nat
        BY <1>2, FS_Subset, FS_CardinalityType
    <2>5. IsFiniteSet(after) /\ after \subseteq Known'[k]
        BY <1>2, FS_Subset
    <2>l. list.left \in Nat /\ list.offset \in Nat /\ list.must \subseteq Listed
        BY <1>1, <1>4, Numbers DEF ListOK
    <2>a. ASSUME NEW i PROVE IsFiniteSet(Ahead(i)') /\ Cardinality(Ahead(i)') \in Nat
        <3>1. Ahead(i)' \subseteq after
            BY <2>3 DEF Ahead
        <3> QED BY <2>5, <3>1, FS_Subset, FS_CardinalityType
    <2> HIDE DEF taken, new
    <2>6. \A i \in list'.must : i \in Listed /\ i \in after /\ Stamp'[k][i] = Stamp[k][i]
        BY <2>1, <2>l
    <2>7. ASSUME NEW i \in list'.must
          PROVE  Ahead(i) \subseteq Ahead(i)' \cup taken
        <3> SUFFICES ASSUME NEW j \in Ahead(i), j \in after PROVE j \in Ahead(i)'
            BY DEF Ahead, taken
        <3>1. j \in Listed /\ j # i /\ Before(k, TRUE, j, i)
            BY DEF Ahead
        <3>2. i \in Listed /\ Stamp'[k][i] = Stamp[k][i]
            BY <2>6
        <3>3. /\ Stamp[k][i] \in Nat /\ (k # "search" => Stamp[k][i] <= imports) /\ imports \in Nat
            BY <3>2, ListedIsFinite, StampsAreNumbers DEF TablesOK
        <3>4. Before(k, TRUE, j, i)'
            <4>1. CASE Stamp'[k][j] = Stamp[k][j]
                BY <3>1, <3>2, <4>1 DEF Before
            <4>2. CASE k # "search" /\ Stamp'[k][j] = imports + 1
                <5>1. Stamp'[k][j] > Stamp'[k][i]
                    BY <3>2, <3>3, <4>2
                <5> QED BY <5>1 DEF Before
            <4> QED BY <3>1, <4>1, <4>2
        <3> QED BY <2>1, <2>3, <3>1, <3>4 DEF Ahead
    <2>8. Cardinality(Skipped') <= list.left + Cardinality(taken)
        <3> DEFINE X == Skipped' \ Skipped
        <3>1. IsFiniteSet(Skipped) /\ IsFiniteSet(Skipped')
            <4>1. Skipped \subseteq Listed
                BY <2>l DEF Skipped, Unread
            <4>2. Skipped' \subseteq after
                BY <2>1 DEF Skipped, Unread
            <4> QED BY <1>2, <2>5, <4>1, <4>2, FS_Subset
        <3>2. IsFiniteSet(X)
            BY <3>1, FS_Subset
        <3>3. Cardinality(X) \in Nat /\ Cardinality(Skipped) \in Nat /\ Cardinality(Skipped') \in Nat
            BY <3>1, <3>2, FS_CardinalityType
        <3>4. \A x \in X : /\ x \in list'.must /\ x \in Listed
                           /\ Cardinality(Ahead(x)') < list.offset
                           /\ list.offset <= Cardinality(Ahead(x))
            <4> SUFFICES ASSUME NEW x \in X
                         PROVE  /\ x \in list'.must /\ x \in Listed
                                /\ Cardinality(Ahead(x)') < list.offset
                                /\ list.offset <= Cardinality(Ahead(x))
                OBVIOUS
            <4>1. x \in list'.must /\ x \notin list.got /\ Cardinality(Ahead(x)') < list.offset
                BY <2>1 DEF Skipped, Unread
            <4>2. x \in list.must /\ x \in Listed
                BY <2>1, <2>6, <4>1
            <4>3. ~(Cardinality(Ahead(x)) < list.offset)
                BY <4>1, <4>2 DEF Skipped, Unread
            <4>4. Cardinality(Ahead(x)) \in Nat
                BY AheadIsFinite
            <4> QED BY <2>l, <4>1, <4>2, <4>3, <4>4
        <3> HIDE DEF X
        <3>5. Cardinality(X) <= Cardinality(taken)
            <4>1. CASE X = {}
                BY <2>4, <4>1, FS_EmptySet
            <4>2. CASE X # {}
                <5>1. PICK x \in X : list.offset + Cardinality(X) <= Cardinality(Ahead(x)) + 1
                    BY <2>l, <3>4, <4>2, LastOfRows
                <5>2. Ahead(x) \subseteq Ahead(x)' \cup taken
                    BY <2>7, <3>4
                <5>3. IsFiniteSet(Ahead(x)' \cup taken)
                      /\ Cardinality(Ahead(x)' \cup taken)
                            = Cardinality(Ahead(x)') + Cardinality(taken) - Cardinality(Ahead(x)' \cap taken)
                    BY <2>4, <2>a, FS_Union
                <5>4. Cardinality(Ahead(x)' \cap taken) \in Nat
                    <6>1. IsFiniteSet(Ahead(x)' \cap taken)
                        BY <2>4, FS_Subset
                    <6> QED BY <6>1, FS_CardinalityType
                <5>5. Cardinality(Ahead(x)) <= Cardinality(Ahead(x)' \cup taken)
                    BY <5>2, <5>3, FS_Subset
                <5>6. Cardinality(Ahead(x)) \in Nat /\ Cardinality(Ahead(x)') \in Nat
                      /\ Cardinality(Ahead(x)') < list.offset
                    BY <2>a, <3>4, AheadIsFinite
                <5> QED BY <2>4, <2>l, <3>3, <5>1, <5>3, <5>4, <5>5, <5>6
            <4> QED BY <4>1, <4>2
        <3>6. Cardinality(Skipped \cup X) <= Cardinality(Skipped) + Cardinality(X)
            <4>1. Cardinality(Skipped \cup X)
                    = Cardinality(Skipped) + Cardinality(X) - Cardinality(Skipped \cap X)
                BY <3>1, <3>2, FS_Union
            <4>2. Cardinality(Skipped \cap X) \in Nat
                <5>1. IsFiniteSet(Skipped \cap X)
                    BY <3>1, FS_Subset
                <5> QED BY <5>1, FS_CardinalityType
            <4> QED BY <3>3, <4>1, <4>2
        <3>7. Cardinality(Skipped') <= Cardinality(Skipped \cup X) /\ Cardinality(Skipped \cup X) \in Nat
            <4>1. Skipped' \subseteq Skipped \cup X
                BY DEF X
            <4>2. IsFiniteSet(Skipped \cup X)
                BY <3>1, <3>2, FS_Union
            <4> QED BY <4>1, <4>2, FS_Subset, FS_CardinalityType
        <3>8. Cardinality(Skipped) <= list.left
            BY <1>1, <1>4 DEF SkippedOK
        <3> QED BY <2>4, <2>l, <3>3, <3>5, <3>6, <3>7, <3>8
    <2>9. ListOK'
        <3>1. /\ list.counted \in BOOLEAN /\ list.pc \in {"idle", "count", "select", "done"}
              /\ list.total \in Nat /\ list.offset \in Nat /\ list.got \in SUBSET Known'[k]
              /\ list.grown \in BOOLEAN /\ list.must \in SUBSET Known'[k]
            BY <1>1 DEF ListOK
        <3>2. list'.left \in 0 .. MaxLeft
            BY <2>1, <2>2, <2>4, <2>l, Numbers
        <3>3. list' \in [kind : Kinds, counted : BOOLEAN, out : SUBSET Known'[k],
                         pc : {"idle", "count", "select", "done"}, total : Nat, offset : Nat,
                         got : SUBSET Known'[k], must : SUBSET Known'[k],
                         left : 0 .. MaxLeft, grown : BOOLEAN]
            <4>1. list'.must \subseteq Known'[k] /\ list'.grown \in BOOLEAN
                BY <2>1, <2>5, <3>1 DEF new
            <4> QED BY <2>1, <3>1, <3>2, <4>1
        <3>4. list'.offset <= Room(list.kind)' /\ list'.total <= Room(list.kind)'
            <4>1. Room(list.kind)' = Cardinality(Known'[k])
                BY <2>1 DEF Room
            <4>2. list.offset <= Room(k) /\ list.total <= Room(k)
                BY <1>1 DEF ListOK
            <4> QED BY <1>2, <2>1, <3>1, <4>1, <4>2
        <3>5. (list'.pc = "count" => list'.counted)
              /\ (list'.kind = "search" => list'.counted /\ list'.pc # "select")
            BY <1>1, <2>1 DEF ListOK
        <3>6. list'.must \subseteq Listed'
            BY <2>1, <2>3
        <3> QED BY <2>1, <3>3, <3>4, <3>5, <3>6 DEF ListOK
    <2>10. TotalOK'
        <3> SUFFICES ASSUME list.pc = "select", list.counted, ~list.grown, ~new
                     PROVE  Cardinality(after) <= list.total
            BY <2>1, <2>3 DEF TotalOK, Size
        <3>1. after \subseteq Listed
            BY DEF new
        <3>2. Cardinality(after) <= Size /\ Cardinality(after) \in Nat
            BY <1>2, <2>5, <3>1, FS_Subset, FS_CardinalityType DEF Size
        <3>3. Size <= list.total /\ list.total \in Nat
            BY <1>1 DEF TotalOK, ListOK
        <3> QED BY <1>2, <3>2, <3>3
    <2>11. AloneOK'
        <3> SUFFICES ASSUME ~list.counted, NEW i \in list'.must, NEW j \in after \ {i}
                     PROVE  Stamp'[k][j] # Stamp'[k][i]
            BY <2>1, <2>3 DEF AloneOK, Alone
        <3>1. i \in Listed /\ Stamp'[k][i] = Stamp[k][i] /\ i \in list.must
            BY <2>1, <2>6
        <3>2. Alone(i)
            BY <1>1, <1>4, <3>1 DEF AloneOK
        <3>3. k # "search"
            BY <1>1 DEF ListOK
        <3>4. Stamp[k][i] \in Nat /\ Stamp[k][i] <= imports /\ imports \in Nat
            BY <3>1, <3>3, ListedIsFinite, StampsAreNumbers DEF TablesOK
        <3>5. CASE j \in Listed /\ Stamp'[k][j] = Stamp[k][j]
            BY <3>1, <3>2, <3>5 DEF Alone
        <3>6. CASE Stamp'[k][j] = imports + 1
            BY <3>1, <3>4, <3>6
        <3> QED BY <3>5, <3>6
    <2>12. SkippedOK'
        BY <2>1, <2>8 DEF SkippedOK
    <2>13. UntouchedAreRead'
        <3>1. list'.pc # "done"
            BY <1>4, <2>1 DEF Reading
        <3> QED BY <3>1 DEF UntouchedAreRead
    <2> QED BY <2>9, <2>10, <2>11, <2>12, <2>13 DEF ListInv
<1> QED BY <1>3, <1>4

LEMMA ContentsAt ==
    /\ Contents["video"] = Present /\ Contents["live"] = Streamed
    /\ Contents["source"] = 1 .. imports /\ Contents["search"] = Present
    /\ Known["video"] = Videos /\ Known["live"] = Sessions
    /\ Known["source"] = 1 .. imports /\ Known["search"] = Videos
    /\ Stamp["video"] = seen /\ Stamp["live"] = seenLive
    /\ Stamp["source"] = [i \in 1 .. imports |-> i] /\ Stamp["search"] = PublishDay
BY DEF Contents, Known, Stamp

LEMMA ContentsAtNext ==
    /\ Contents'["video"] = Present' /\ Contents'["live"] = Streamed'
    /\ Contents'["source"] = 1 .. imports' /\ Contents'["search"] = Present'
    /\ Known'["video"] = Videos /\ Known'["live"] = Sessions
    /\ Known'["source"] = 1 .. imports' /\ Known'["search"] = Videos
    /\ Stamp'["video"] = seen' /\ Stamp'["live"] = seenLive'
    /\ Stamp'["source"] = [i \in 1 .. imports' |-> i] /\ Stamp'["search"] = PublishDay
BY DEF Contents, Known, Stamp

\* What an import touches of a kind.
Touched(S, L) == [video |-> S, search |-> S, live |-> L, source |-> {imports + 1}]

\* Imports touch rows that are there afterwards, give them the latest time, and change no
\* other row.
LEMMA ImportKeeps ==
    ASSUME TablesOK, TablesOK', ListInv, NEW S, NEW L, Imported(S, L), NEW k \in Kinds,
           list.kind = k, NEW touched, touched = Touched(S, L)[k],
           Known[k] \subseteq Known'[k], touched \subseteq Known'[k],
           \A i \in Contents'[k] : i \notin touched => i \in Contents[k] /\ Stamp'[k][i] = Stamp[k][i],
           k = "search" => \A i \in Contents'[k] : Stamp'[k][i] = Stamp[k][i],
           k # "search" => \A i \in touched : Stamp'[k][i] = imports + 1
    PROVE  ListInv'
<1>1. PICK out : /\ Overtake(IF k = "search" THEN {} ELSE touched, out)
                 /\ \/ list.counted /\ \E hidden \in SUBSET touched :
                            out = (list.out \ touched) \cup hidden
                    \/ ~list.counted /\ out = list.out
    <2> DEFINE T == [video |-> S, search |-> S, live |-> L, source |-> {imports + 1}][list.kind]
    <2>1. \E out \in IF list.counted THEN {(list.out \ T) \cup hidden : hidden \in SUBSET T}
                     ELSE {list.out} : Overtake(IF list.kind = "search" THEN {} ELSE T, out)
        BY DEF Imported
    <2>2. T = touched
        BY DEF Touched
    <2> HIDE DEF T
    <2>3. PICK Filter : Filter = IF list.counted
                                 THEN {(list.out \ touched) \cup hidden : hidden \in SUBSET touched}
                                 ELSE {list.out}
        OBVIOUS
    <2>4. PICK out \in Filter : Overtake(IF k = "search" THEN {} ELSE touched, out)
        BY <2>1, <2>2, <2>3
    <2>5. \/ list.counted /\ \E hidden \in SUBSET touched : out = (list.out \ touched) \cup hidden
          \/ ~list.counted /\ out = list.out
        BY <2>3
    <2> QED BY <2>4, <2>5
<1>2. PICK moved : moved = IF k = "search" THEN {} ELSE touched
    OBVIOUS
<1>3. PICK after : after = Contents'[k] \ out
    OBVIOUS
<1>4. list.out \subseteq Known[k] /\ (k = "search" => list.counted)
    BY DEF ListInv, ListOK
<1>5. out \subseteq Known'[k] /\ list.out \subseteq out \cup touched
    BY <1>1, <1>4
<1>6. ~list.counted => out = list.out
    BY <1>1
<1>7. \A i \in (Listed \ moved) \cap after : Stamp'[k][i] = Stamp[k][i]
    BY <1>2, <1>3
<1>8. ASSUME NEW j \in after
      PROVE  \/ j \in Listed /\ Stamp'[k][j] = Stamp[k][j]
             \/ k # "search" /\ Stamp'[k][j] = imports + 1
             \/ list.counted /\ j \notin Listed
    <2>1. j \in Contents'[k] /\ j \notin out
        BY <1>3
    <2>2. CASE j \notin touched
        <3>1. j \in Contents[k] /\ Stamp'[k][j] = Stamp[k][j] /\ j \notin list.out
            BY <1>5, <2>1, <2>2
        <3> QED BY <3>1 DEF Listed
    <2>3. CASE j \in touched /\ k # "search"
        BY <2>3
    <2>4. CASE k = "search"
        BY <1>4, <2>1, <2>4
    <2> QED BY <2>2, <2>3, <2>4
<1> QED BY <1>1, <1>2, <1>3, <1>5, <1>7, <1>8, OvertakeKeeps

LEMMA VideosKeep ==
    ASSUME TablesOK, ListInv, NEW d \in Days, NEW S \in SUBSET Videos,
           NEW count \in Counts \cup {Null}, NEW traced \in BOOLEAN,
           ImportVideos(S, d, count, traced)
    PROVE  TablesOK' /\ ListInv'
<1>1. /\ imports < MaxImports /\ imports' = imports + 1 /\ seenLive' = seenLive
      /\ seen' = [v \in Videos |-> IF v \in S THEN imports + 1 ELSE seen[v]]
      /\ metric' = [v \in Videos |-> IF v \in S /\ traced THEN Counted(v, d, count) ELSE metric[v]]
      /\ Imported(S, {})
    BY DEF ImportVideos, Refreshed
<1>2. /\ imports \in Nat /\ MaxImports \in Nat /\ imports <= MaxImports
      /\ seen \in [Videos -> 0 .. imports] /\ seenLive \in [Sessions -> 0 .. imports]
      /\ metric \in [Videos -> [Days -> Counts \cup {NoRow, Null}]]
    BY ReportConstants DEF TablesOK
<1>3. TablesOK'
    <2>1. seen' \in [Videos -> 0 .. imports'] /\ seenLive' \in [Sessions -> 0 .. imports']
        BY <1>1, <1>2
    <2>2. imports' \in 0 .. MaxImports
        BY <1>1, <1>2
    <2>3. metric' \in [Videos -> [Days -> Counts \cup {NoRow, Null}]]
        BY <1>1, <1>2 DEF Counted
    <2> QED BY <2>1, <2>2, <2>3 DEF TablesOK
<1>4. Streamed' = Streamed /\ Present' \subseteq Videos
    BY <1>1 DEF Present, Streamed
<1>5. \A v \in Present' : v \notin S => v \in Present /\ seen'[v] = seen[v]
    BY <1>1 DEF Present
<1>6. PICK k \in Kinds : list.kind = k
    BY DEF ListInv, ListOK
<1>7. PICK touched : touched = Touched(S, {})[k]
    OBVIOUS
<1>8. /\ Known[k] \subseteq Known'[k] /\ touched \subseteq Known'[k]
      /\ \A i \in Contents'[k] : i \notin touched => i \in Contents[k] /\ Stamp'[k][i] = Stamp[k][i]
      /\ k = "search" => \A i \in Contents'[k] : Stamp'[k][i] = Stamp[k][i]
      /\ k # "search" => \A i \in touched : Stamp'[k][i] = imports + 1
    <2>1. CASE k = "video"
        <3>1. touched = S
            BY <1>7, <2>1 DEF Touched
        <3>2. \A v \in S : seen'[v] = imports + 1
            BY <1>1
        <3> QED BY <1>5, <2>1, <3>1, <3>2, ContentsAt, ContentsAtNext
    <2>2. CASE k = "live"
        <3>1. touched = {}
            BY <1>7, <2>2 DEF Touched
        <3> QED BY <1>1, <1>4, <2>2, <3>1, ContentsAt, ContentsAtNext
    <2>3. CASE k = "source"
        <3>1. touched = {imports + 1}
            BY <1>7, <2>3 DEF Touched
        <3>2. \A j \in 1 .. imports + 1 : j \in 1 .. imports \/ j = imports + 1
            BY <1>2
        <3>3. 1 .. imports \subseteq 1 .. imports + 1 /\ imports + 1 \in 1 .. imports + 1
            BY <1>2
        <3>4. \A i \in 1 .. imports : Stamp["source"][i] = i
            BY ContentsAt
        <3>5. \A j \in 1 .. imports + 1 : Stamp'["source"][j] = j
            BY <1>1, ContentsAtNext
        <3>6. /\ Contents["source"] = 1 .. imports /\ Contents'["source"] = 1 .. imports + 1
              /\ Known["source"] = 1 .. imports /\ Known'["source"] = 1 .. imports + 1
            BY <1>1, ContentsAt, ContentsAtNext
        <3> QED BY <2>3, <3>1, <3>2, <3>3, <3>4, <3>5, <3>6
    <2>4. CASE k = "search"
        <3>1. touched = S
            BY <1>7, <2>4 DEF Touched
        <3> QED BY <1>5, <2>4, <3>1, ContentsAt, ContentsAtNext
    <2> QED BY <2>1, <2>2, <2>3, <2>4 DEF Kinds
<1>9. PICK L : L = {}
    OBVIOUS
<1>10. ListInv'
    BY <1>1, <1>3, <1>6, <1>7, <1>8, <1>9, ImportKeeps
<1> QED BY <1>3, <1>10

LEMMA SessionsKeep ==
    ASSUME TablesOK, ListInv, NEW L \in SUBSET Sessions, ImportSessions(L)
    PROVE  TablesOK' /\ ListInv'
<1>1. /\ imports < MaxImports /\ imports' = imports + 1 /\ seen' = seen /\ metric' = metric
      /\ seenLive' = [s \in Sessions |-> IF s \in L THEN imports + 1 ELSE seenLive[s]]
      /\ Imported({}, L)
    BY DEF ImportSessions
<1>2. /\ imports \in Nat /\ MaxImports \in Nat /\ imports <= MaxImports
      /\ seen \in [Videos -> 0 .. imports] /\ seenLive \in [Sessions -> 0 .. imports]
      /\ metric \in [Videos -> [Days -> Counts \cup {NoRow, Null}]]
    BY ReportConstants DEF TablesOK
<1>3. TablesOK'
    <2>1. seen' \in [Videos -> 0 .. imports'] /\ seenLive' \in [Sessions -> 0 .. imports']
        BY <1>1, <1>2
    <2>2. imports' \in 0 .. MaxImports
        BY <1>1, <1>2
    <2> QED BY <1>1, <1>2, <2>1, <2>2 DEF TablesOK
<1>4. Present' = Present
    BY <1>1 DEF Present
<1>5. \A s \in Streamed' : s \notin L => s \in Streamed /\ seenLive'[s] = seenLive[s]
    BY <1>1 DEF Streamed
<1>6. PICK k \in Kinds : list.kind = k
    BY DEF ListInv, ListOK
<1>7. PICK touched : touched = Touched({}, L)[k]
    OBVIOUS
<1>8. /\ Known[k] \subseteq Known'[k] /\ touched \subseteq Known'[k]
      /\ \A i \in Contents'[k] : i \notin touched => i \in Contents[k] /\ Stamp'[k][i] = Stamp[k][i]
      /\ k = "search" => \A i \in Contents'[k] : Stamp'[k][i] = Stamp[k][i]
      /\ k # "search" => \A i \in touched : Stamp'[k][i] = imports + 1
    <2>1. CASE k \in {"video", "search"}
        <3>1. touched = {}
            BY <1>7, <2>1 DEF Touched
        <3> QED BY <1>1, <1>4, <2>1, <3>1, ContentsAt, ContentsAtNext
    <2>2. CASE k = "live"
        <3>1. touched = L
            BY <1>7, <2>2 DEF Touched
        <3>2. \A s \in L : seenLive'[s] = imports + 1
            BY <1>1
        <3> QED BY <1>5, <2>2, <3>1, <3>2, ContentsAt, ContentsAtNext
    <2>3. CASE k = "source"
        <3>1. touched = {imports + 1}
            BY <1>7, <2>3 DEF Touched
        <3>2. \A j \in 1 .. imports + 1 : j \in 1 .. imports \/ j = imports + 1
            BY <1>2
        <3>3. 1 .. imports \subseteq 1 .. imports + 1 /\ imports + 1 \in 1 .. imports + 1
            BY <1>2
        <3>4. \A i \in 1 .. imports : Stamp["source"][i] = i
            BY ContentsAt
        <3>5. \A j \in 1 .. imports + 1 : Stamp'["source"][j] = j
            BY <1>1, ContentsAtNext
        <3>6. /\ Contents["source"] = 1 .. imports /\ Contents'["source"] = 1 .. imports + 1
              /\ Known["source"] = 1 .. imports /\ Known'["source"] = 1 .. imports + 1
            BY <1>1, ContentsAt, ContentsAtNext
        <3> QED BY <2>3, <3>1, <3>2, <3>3, <3>4, <3>5, <3>6
    <2> QED BY <2>1, <2>2, <2>3 DEF Kinds
<1>9. PICK S : S = {}
    OBVIOUS
<1>10. ListInv'
    BY <1>1, <1>3, <1>6, <1>7, <1>8, <1>9, ImportKeeps
<1> QED BY <1>3, <1>10

\* Rows that are written back may enter a filter at any place or leave it.
LEMMA WriteBackKeeps ==
    ASSUME TablesOK, ListInv, NEW out \in SUBSET Contents[list.kind], WriteBack(out)
    PROVE  TablesOK' /\ ListInv'
<1>1. /\ TablesOK' /\ Contents' = Contents /\ Known' = Known /\ Stamp' = Stamp
      /\ list.counted /\ Overtake({}, out)
    BY TablesKept DEF WriteBack
<1>2. PICK k \in Kinds : list.kind = k
    BY DEF ListInv, ListOK
<1>3. out \in SUBSET Known'[k]
    BY <1>1, <1>2, KnownAreFinite
<1>4. PICK after : after = Contents'[k] \ out
    OBVIOUS
<1>5. PICK moved : moved = {}
    OBVIOUS
<1>6. \A j \in after : \/ j \in Listed /\ Stamp'[k][j] = Stamp[k][j]
                       \/ list.counted /\ j \notin Listed
    BY <1>1
<1>7. ListInv'
    BY <1>1, <1>2, <1>3, <1>4, <1>5, <1>6, OvertakeKeeps
<1> QED BY <1>1, <1>7

LEMMA NormalizeKeeps ==
    ASSUME TablesOK, ListInv, NEW L, NormalizeLives(L)
    PROVE  TablesOK' /\ ListInv'
<1>1. /\ seenLive' = [s \in Sessions |-> IF s \in L THEN 0 ELSE seenLive[s]]
      /\ metric' = metric /\ seen' = seen /\ imports' = imports /\ Overtake({}, list.out)
    BY DEF NormalizeLives
<1>2. imports \in Nat /\ seenLive \in [Sessions -> 0 .. imports]
    BY DEF TablesOK
<1>3. TablesOK'
    BY <1>1, <1>2 DEF TablesOK
<1>4. Present' = Present /\ \A s \in Streamed' : s \in Streamed /\ seenLive'[s] = seenLive[s]
    <2>1. \A s \in Sessions : seenLive'[s] > 0 => seenLive'[s] = seenLive[s]
        BY <1>1
    <2> QED BY <1>1, <2>1 DEF Present, Streamed
<1>5. PICK k \in Kinds : list.kind = k
    BY DEF ListInv, ListOK
<1>6. Known'[k] = Known[k]
    BY <1>1, ContentsAt, ContentsAtNext DEF Kinds
<1>7. \A j \in Contents'[k] : j \in Contents[k] /\ Stamp'[k][j] = Stamp[k][j]
    <2>1. CASE k = "live"
        BY <1>4, <2>1, ContentsAt, ContentsAtNext
    <2>2. CASE k # "live"
        BY <1>1, <1>4, <2>2, ContentsAt, ContentsAtNext DEF Kinds
    <2> QED BY <2>1, <2>2
<1>8. PICK out \in SUBSET Known'[k] : out = list.out
    BY <1>5, <1>6 DEF ListInv, ListOK
<1>9. PICK after : after = Contents'[k] \ out
    OBVIOUS
<1>10. PICK moved : moved = {}
    OBVIOUS
<1>11. \A j \in after : j \in Listed /\ Stamp'[k][j] = Stamp[k][j]
    BY <1>5, <1>7, <1>8, <1>9 DEF Listed
<1>12. ListInv'
    BY <1>1, <1>3, <1>5, <1>6, <1>8, <1>9, <1>10, <1>11, OvertakeKeeps
<1> QED BY <1>3, <1>12

-----------------------------------------------------------------------------
(* Synchronisations.                                                         *)

SyncInv == SyncOK /\ RowsOK

\* Rows and a page behind them.
LEMMA RowsJoin ==
    ASSUME NEW m \in Nat, NEW n \in Nat, NEW s, NEW t,
           s = [i \in 1 .. m |-> s[i]], t = [i \in 1 .. n |-> t[i]]
    PROVE  s \o t = [i \in 1 .. m + n |-> IF i <= m THEN s[i] ELSE t[i - m]]
<1> DEFINE X == {s[i] : i \in 1 .. m} \cup {t[i] : i \in 1 .. n}
<1>1. s \in [1 .. m -> X] /\ t \in [1 .. n -> X]
    <2>1. /\ \A i \in 1 .. m : s[i] \in X
          /\ \A i \in 1 .. n : t[i] \in X
        OBVIOUS
    <2> HIDE DEF X
    <2> QED BY <2>1
<1> HIDE DEF X
<1>2. s \in Seq(X) /\ t \in Seq(X) /\ Len(s) = m /\ Len(t) = n
    BY <1>1
<1>3. s \o t \in Seq(X) /\ Len(s \o t) = m + n
    BY <1>2
<1>4. \A i \in 1 .. m + n : (s \o t)[i] = IF i <= m THEN s[i] ELSE t[i - m]
    BY <1>2
<1>5. s \o t = [i \in 1 .. m + n |-> (s \o t)[i]]
    <2> DEFINE c == s \o t
    <2>1. c \in Seq(X) /\ Len(c) = m + n
        BY <1>3
    <2> HIDE DEF c
    <2>2. c = [i \in 1 .. m + n |-> c[i]]
        BY <2>1
    <2> QED BY <2>2 DEF c
<1> QED BY <1>4, <1>5

LEMMA SyncUnmoved ==
    ASSUME SyncInv, NEW clean,
           sync' = sync \/ sync' = [sync EXCEPT !.clean = clean]
    PROVE  SyncInv'
<1>1. sync' = [pc |-> sync.pc, plays |-> sync.plays, offset |-> sync.offset,
               rows |-> sync.rows, clean |-> sync'.clean]
    BY DEF SyncInv, SyncOK
<1> QED BY <1>1 DEF SyncInv, SyncOK, RowsOK, DayRows

LEMMA SyncOvertaken ==
    ASSUME SyncInv, NEW moved, NEW out, Overtake(moved, out)
    PROVE  SyncInv'
<1>1. PICK clean : clean = (sync.clean /\ sync.pc \notin {"video", "live"})
    OBVIOUS
<1>2. sync' = [sync EXCEPT !.clean = clean]
    BY <1>1 DEF Overtake
<1> QED BY <1>2, SyncUnmoved

LEMMA SyncBegins ==
    ASSUME sync' = NoSync \/ sync' = [NoSync EXCEPT !.pc = "video"]
    PROVE  SyncInv'
<1>1. /\ sync' = [pc |-> sync'.pc, plays |-> sync'.plays, offset |-> 0, rows |-> <<>>, clean |-> TRUE]
      /\ sync'.pc \in {"idle", "video"}
    BY DEF NoSync
<1>2. SyncOK'
    BY <1>1, Numbers DEF SyncOK
<1>3. RowsOK'
    <2>1. sync'.rows = <<>> /\ sync'.offset = 0
        BY <1>1
    <2>2. 1 .. 0 = {} /\ <<>> = [i \in {} |-> <<>>[i]]
        OBVIOUS
    <2> QED BY <2>1, <2>2 DEF RowsOK, DayRows
<1> QED BY <1>2, <1>3 DEF SyncInv

LEMMA VideoDaysKeep ==
    ASSUME SyncInv, LoadVideoDays
    PROVE  SyncInv'
<1>1. PICK plays : sync' = [sync EXCEPT !.pc = "live", !.plays = plays]
    BY DEF LoadVideoDays
<1>2. sync' = [pc |-> "live", plays |-> plays, offset |-> sync.offset,
               rows |-> sync.rows, clean |-> sync.clean]
    BY <1>1 DEF SyncInv, SyncOK
<1> QED BY <1>2 DEF SyncInv, SyncOK, RowsOK, DayRows

\* A page returns the rows behind those returned before.
LEMMA AnswerRows ==
    ASSUME SyncInv, AnswerPage
    PROVE  \E end \in sync.offset .. Span :
              sync' = [pc |-> IF end < Span THEN "video" ELSE "done", plays |-> sync'.plays,
                       offset |-> end,
                       rows |-> [i \in 1 .. end |->
                                    IF i <= sync.offset THEN sync.rows[i]
                                    ELSE ReportRow(sync.plays, Month[1] + i - 1)],
                       clean |-> sync.clean]
<1> DEFINE row(i) == ReportRow(sync.plays, Month[1] + i - 1)
           report == [i \in 1 .. Month[2] - Month[1] + 1 |-> row(i)]
           page   == Slice(report, sync.offset)
           end    == NextOffset(sync.offset, page)
           R      == {row(i) : i \in 1 .. Span}
<1>1. sync' = [NoSync EXCEPT !.clean = sync.clean, !.offset = end, !.rows = sync.rows \o page,
                             !.pc = IF end < Len(report) THEN "video" ELSE "done"]
    BY DEF AnswerPage
<1>2. Span \in Nat \ {0} /\ Span = Month[2] - Month[1] + 1
    BY Numbers DEF Span
<1>3. report = [i \in 1 .. Span |-> row(i)]
    BY <1>2
<1> HIDE DEF row
<1>4. report \in [1 .. Span -> R]
    <2>1. \A i \in 1 .. Span : row(i) \in R
        OBVIOUS
    <2> HIDE DEF report, R
    <2> QED BY <1>3, <2>1
<1> HIDE DEF report, R
<1>5. report \in Seq(R) /\ Len(report) = Span
    BY <1>2, <1>4
<1>6. sync.offset \in 0 .. Span /\ sync.rows = [i \in 1 .. sync.offset |-> sync.rows[i]]
    BY DEF SyncInv, SyncOK, RowsOK, DayRows
<1>7. /\ page \in Seq(R) /\ Len(page) \in 0 .. PageSize /\ end \in sync.offset .. Span
      /\ \A k \in 1 .. Len(page) : page[k] = report[sync.offset + k]
    BY <1>5, <1>6, PageOf
<1>8. end = sync.offset + Len(page)
    BY DEF NextOffset
<1> HIDE DEF page, end
<1>9. sync.offset \in Nat /\ Len(page) \in Nat /\ Span \in Nat
    BY <1>2, <1>6, <1>7, Numbers
<1>10. sync.rows \o page = [i \in 1 .. end |-> IF i <= sync.offset THEN sync.rows[i]
                                               ELSE page[i - sync.offset]]
    <2>1. page = [i \in 1 .. Len(page) |-> page[i]]
        BY <1>7
    <2> QED BY <1>6, <1>8, <1>9, <2>1, RowsJoin
<1>11. ASSUME NEW i \in 1 .. end, ~(i <= sync.offset) PROVE page[i - sync.offset] = row(i)
    <2>1. i - sync.offset \in 1 .. Len(page) /\ i \in 1 .. Span /\ sync.offset + (i - sync.offset) = i
        BY <1>7, <1>8, <1>9, <1>11
    <2> QED BY <1>3, <1>7, <2>1
<1>12. sync.rows \o page = [i \in 1 .. end |-> IF i <= sync.offset THEN sync.rows[i] ELSE row(i)]
    BY <1>10, <1>11
<1>13. sync' = [pc |-> IF end < Span THEN "video" ELSE "done", plays |-> sync'.plays,
                offset |-> end, rows |-> sync.rows \o page, clean |-> sync.clean]
    BY <1>1, <1>5 DEF NoSync
<1> QED BY <1>7, <1>12, <1>13 DEF row

LEMMA AnswerKeeps ==
    ASSUME SyncInv, AnswerPage
    PROVE  SyncInv'
<1> DEFINE Rows1(end) == [i \in 1 .. end |-> IF i <= sync.offset THEN sync.rows[i]
                                             ELSE ReportRow(sync.plays, Month[1] + i - 1)]
<1>1. PICK end \in sync.offset .. Span :
            sync' = [pc |-> IF end < Span THEN "video" ELSE "done", plays |-> sync'.plays,
                     offset |-> end, rows |-> Rows1(end), clean |-> sync.clean]
    BY AnswerRows
<1>2. Span \in Nat \ {0} /\ sync.offset \in 0 .. Span
    BY Numbers DEF Span, SyncInv, SyncOK
<1>3. \A i \in 1 .. sync.offset : sync.rows[i].day = Month[1] + i - 1
    BY DEF SyncInv, RowsOK, DayRows
<1>4. ASSUME NEW i \in 1 .. end PROVE Rows1(end)[i].day = Month[1] + i - 1
    <2>1. CASE i <= sync.offset
        <3>1. i \in 1 .. sync.offset
            BY <1>2, <2>1
        <3> QED BY <1>3, <2>1, <3>1
    <2>2. CASE ~(i <= sync.offset)
        BY <2>2 DEF ReportRow
    <2> QED BY <2>1, <2>2
<1>5. Rows1(end) = [i \in 1 .. end |-> Rows1(end)[i]]
    OBVIOUS
<1> HIDE DEF Rows1
<1>6. SyncOK'
    <2>1. end \in 0 .. Span /\ (~(end < Span) => end = Span)
        BY <1>2
    <2>2. sync'.pc = "done" => end = Span
        BY <1>1, <2>1
    <2> QED BY <1>1, <2>1, <2>2 DEF SyncOK
<1>7. RowsOK'
    <2>1. sync'.rows = Rows1(end) /\ sync'.offset = end
        BY <1>1
    <2>2. DayRows(Rows1(end), Month[1], end)
        BY <1>4, <1>5 DEF DayRows
    <2> QED BY <2>1, <2>2 DEF RowsOK, DayRows
<1> QED BY <1>6, <1>7 DEF SyncInv

-----------------------------------------------------------------------------
(* The inductive invariant. *)

LEMMA RInvParts == RInv <=> TablesOK /\ ListInv /\ SyncInv
BY DEF RInv, ListInv, SyncInv

LEMMA RInvInit == ReportsInit => RInv
<1> SUFFICES ASSUME ReportsInit PROVE TablesOK /\ ListInv /\ SyncInv
    BY RInvParts
<1>1. TablesOK
    <2>1. MaxImports \in Nat
        BY ReportConstants
    <2>2. imports = 0 /\ seen = [v \in Videos |-> 0] /\ seenLive = [s \in Sessions |-> 0]
          /\ metric = [v \in Videos |-> [d \in Days |-> NoRow]]
        BY DEF ReportsInit
    <2>3. imports \in 0 .. MaxImports
        BY <2>1, <2>2
    <2>4. 0 \in 0 .. imports
        BY <2>2
    <2> QED BY <2>2, <2>3, <2>4 DEF TablesOK
<1>2. list = [kind |-> "video", counted |-> TRUE, out |-> {}, pc |-> "idle", total |-> 0,
              offset |-> 0, got |-> {}, must |-> {}, left |-> 0, grown |-> FALSE]
    BY DEF ReportsInit, NoList
<1>3. ListInv
    <2>1. Room("video") \in Nat
        BY <1>1, KnownAreFinite DEF Kinds
    <2>2. ListOK
        BY <1>2, <2>1, Numbers DEF ListOK, Kinds, Reading
    <2> QED BY <1>2, <2>2 DEF ListInv, TotalOK, AloneOK, SkippedOK, UntouchedAreRead, Reading
<1>4. /\ sync = [pc |-> "idle", plays |-> sync.plays, offset |-> 0, rows |-> <<>>, clean |-> TRUE]
    BY DEF ReportsInit, NoSync
<1>5. SyncOK
    BY <1>4, Numbers DEF SyncOK
<1>6. RowsOK
    <2>1. 1 .. 0 = {} /\ <<>> = [i \in {} |-> <<>>[i]]
        OBVIOUS
    <2>2. sync.rows = <<>> /\ sync.offset = 0
        BY <1>4
    <2> QED BY <2>1, <2>2 DEF RowsOK, DayRows
<1> QED BY <1>1, <1>3, <1>5, <1>6 DEF SyncInv

LEMMA RInvNext == RInv /\ [ReportsNext]_reportVars => RInv'
<1> SUFFICES ASSUME TablesOK, ListInv, SyncInv, [ReportsNext]_reportVars
             PROVE  TablesOK' /\ ListInv' /\ SyncInv'
    <2>1. TablesOK' /\ ListInv' /\ SyncInv' => RInv'
        BY DEF RInv, ListInv, SyncInv
    <2> QED BY <2>1, RInvParts
<1>1. ASSUME NEW d \in Days, NEW count \in Counts \cup {Null}, NEW S \in SUBSET Videos,
             NEW traced \in BOOLEAN, ImportVideos(S, d, count, traced)
      PROVE  TablesOK' /\ ListInv' /\ SyncInv'
    <2>1. TablesOK' /\ ListInv'
        BY <1>1, VideosKeep
    <2>2. SyncInv'
        BY <1>1, SyncOvertaken DEF ImportVideos, Imported
    <2> QED BY <2>1, <2>2
<1>2. ASSUME NEW L \in SUBSET Sessions, ImportSessions(L)
      PROVE  TablesOK' /\ ListInv' /\ SyncInv'
    <2>1. TablesOK' /\ ListInv'
        BY <1>2, SessionsKeep
    <2>2. SyncInv'
        BY <1>2, SyncOvertaken DEF ImportSessions, Imported
    <2> QED BY <2>1, <2>2
<1>a. ASSUME NEW out \in SUBSET Contents[list.kind], WriteBack(out)
      PROVE  TablesOK' /\ ListInv' /\ SyncInv'
    <2>1. SyncInv'
        BY <1>a, SyncOvertaken DEF WriteBack
    <2> QED BY <1>a, <2>1, WriteBackKeeps
<1>b. ASSUME NEW L, NormalizeLives(L)
      PROVE  TablesOK' /\ ListInv' /\ SyncInv'
    <2>1. SyncInv'
        BY <1>b, SyncOvertaken DEF NormalizeLives
    <2> QED BY <1>b, <2>1, NormalizeKeeps
<1>3. ASSUME NEW kind \in Kinds, NEW counted \in BOOLEAN, NEW out \in SUBSET Contents[kind],
             StartListing(kind, counted, out)
      PROVE  TablesOK' /\ ListInv' /\ SyncInv'
    <2>1. UNCHANGED tables /\ sync' = NoSync
        BY <1>3 DEF StartListing
    <2> QED BY <1>3, <2>1, TablesKept, ListingStarts, SyncBegins
<1>4. CASE CountItems
    BY <1>4, TablesKept, CountKeeps, SyncUnmoved DEF CountItems
<1>5. CASE SelectPage
    BY <1>5, TablesKept, SelectKeeps, SyncUnmoved DEF SelectPage
<1>6. CASE ListPage
    BY <1>6, TablesKept, ListPageKeeps, SyncUnmoved DEF ListPage
<1>7. CASE SearchPage
    BY <1>7, TablesKept, SearchKeeps, SyncUnmoved DEF SearchPage
<1>8. CASE StartSync
    BY <1>8, TablesKept, NoListing, SyncBegins DEF StartSync
<1>9. CASE LoadVideoDays
    <2>1. UNCHANGED <<tables, list>>
        BY <1>9 DEF LoadVideoDays
    <2> QED BY <1>9, <2>1, TablesKept, ListUnmoved, VideoDaysKeep
<1>10. CASE AnswerPage
    <2>1. UNCHANGED <<tables, list>>
        BY <1>10 DEF AnswerPage
    <2> QED BY <1>10, <2>1, TablesKept, ListUnmoved, AnswerKeeps
<1>11. CASE UNCHANGED reportVars
    <2>1. UNCHANGED <<tables, list>> /\ sync' = sync
        BY <1>11 DEF reportVars
    <2> QED BY <2>1, TablesKept, ListUnmoved, SyncUnmoved
<1>12. \A d \in Days : Sheets(d) \subseteq SUBSET Videos
    BY DEF Sheets
<1>13. LastDay \in Days /\ Null \in Counts \cup {Null}
    BY Numbers DEF Days
<1>14. Listings \subseteq Kinds
    BY ReportConstants DEF Kinds
<1> QED BY <1>1, <1>2, <1>a, <1>b, <1>3, <1>4, <1>5, <1>6, <1>7, <1>8, <1>9, <1>10, <1>11, <1>12, <1>13, <1>14
        DEF ReportsNext

\* What listings and synchronisations have read fits the tables, always.
THEOREM AlwaysRInv == ReportsSpec => []RInv
<1>1. RInv /\ [ReportsNext]_reportVars => RInv'
    BY RInvNext
<1> QED BY RInvInit, <1>1, PTL DEF ReportsSpec

\* The variables have their types; no cursor is past the rows there may be, and nothing is
\* read or promised that cannot be there.
THEOREM ReportsTypeCorrect == ReportsSpec => []ReportsTypeOK
<1>1. RInv => ReportsTypeOK
    <2> SUFFICES ASSUME RInv PROVE ReportsTypeOK
        OBVIOUS
    <2>1. TablesOK /\ ListOK /\ SyncOK
        BY DEF RInv
    <2>2. list.kind \in Kinds
        BY <2>1 DEF ListOK
    <2>3. Room(list.kind) \in Nat
        BY <2>1, <2>2, KnownAreFinite
    <2>4. /\ list.offset \in 0 .. Cardinality(Known[list.kind])
          /\ list.total \in 0 .. Cardinality(Known[list.kind])
        BY <2>1, <2>3 DEF ListOK, Room
    <2> QED BY <2>1, <2>4 DEF ReportsTypeOK, TablesOK, ListOK, SyncOK, Kinds, Span
<1> QED BY AlwaysRInv, <1>1, PTL

\* A listing followed to its end misses at most as many of the rows it promised as rows
\* have left it between its pages, whatever imports moved to the front in the meantime
\* and whatever its filter (paged() of query.rs, the searches of audit_extra_query.rs and
\* the lists without a total); when none has left, it has read every one.
THEOREM ListingsMissNothing == ReportsSpec => []UntouchedAreRead
<1>1. RInv => UntouchedAreRead
    BY DEF RInv
<1> QED BY AlwaysRInv, <1>1, PTL

\* A synchronisation that ends has returned every day of the month once and in order,
\* for every page size and whatever is imported between its pages.
THEOREM SyncReturnsEveryDay == ReportsSpec => []SyncInOrder
<1>1. RInv => SyncInOrder
    <2> SUFFICES ASSUME RInv, sync.pc = "done"
                 PROVE  [i \in DOMAIN sync.rows |-> sync.rows[i].day]
                            = [i \in 1 .. Month[2] - Month[1] + 1 |-> Month[1] + i - 1]
        BY DEF SyncInOrder
    <2>1. sync.offset = Span /\ DayRows(sync.rows, Month[1], sync.offset)
        BY DEF RInv, SyncOK, RowsOK
    <2>2. DOMAIN sync.rows = 1 .. Span /\ \A i \in 1 .. Span : sync.rows[i].day = Month[1] + i - 1
        BY <2>1 DEF DayRows
    <2> QED BY <2>2 DEF Span
<1> QED BY AlwaysRInv, <1>1, PTL

-----------------------------------------------------------------------------
(* The increments of a synchronisation.                                      *)

Plays(d) == VideoDay(d).totalPlay

\* Rows whose increments lead from one total to the next, from none at first.
IncrementsOK ==
    sync.clean => \A i \in 1 .. sync.offset :
        /\ sync.rows[i].play \in Int
        /\ sync.rows[i].inc = sync.rows[i].play - (IF i = 1 THEN 0 ELSE sync.rows[i - 1].play)

\* The totals of the pages are those of one report, which the tables still hold.
PlaysOK ==
    sync.clean /\ sync.pc \in {"video", "live"} =>
        /\ \A i \in 1 .. sync.offset : sync.rows[i].play = Plays(Month[1] + i - 1)
        /\ sync.pc = "live" => sync.plays = [d \in Month[1] - 1 .. Month[2] |-> Plays(d)]

PInv == IncrementsOK /\ PlaysOK

\* A set of days that has any has a last one.
LEMMA LastOfDays ==
    ASSUME NEW S \in SUBSET Days, S # {}
    PROVE  Max(S) \in S
<1> DEFINE B == {n \in Nat : \E d \in S : n = LastDay - d}
<1>1. LastDay \in Nat /\ \A d \in S : d \in Nat /\ LastDay - d \in Nat
    BY Numbers DEF Days
<1>2. B # {} /\ B \in SUBSET Nat
    BY <1>1
<1>3. PICK n \in B : \A m \in B : ~(m < n)
    <2> HIDE DEF B
    <2> QED BY <1>2, NoLeast
<1>4. PICK d \in S : n = LastDay - d
    OBVIOUS
<1>5. ASSUME NEW e \in S PROVE d >= e
    <2>1. LastDay - e \in B
        BY <1>1
    <2>2. ~(LastDay - e < LastDay - d)
        BY <1>3, <1>4, <2>1
    <2> HIDE DEF B
    <2> QED BY <1>1, <2>2
<1> QED BY <1>5 DEF Max

LEMMA LatestIsInt ==
    ASSUME TablesOK, NEW v \in Videos, NEW days
    PROVE  Latest(v, days) \in Int
<1> DEFINE rows == Rows(v) \cap days
<1>1. CASE rows = {}
    BY <1>1 DEF Latest
<1>2. CASE rows # {}
    <2>1. Max(rows) \in Days
        BY <1>2, LastOfDays DEF Rows
    <2>2. metric[v][Max(rows)] \in Counts \cup {NoRow, Null}
        <3> HIDE DEF rows
        <3> QED BY <2>1 DEF TablesOK
    <2>3. Counts \subseteq Int /\ NoRow \in Int /\ Null \in Int
        BY ReportConstants DEF NoRow, Null
    <2>4. OrZero(metric[v][Max(rows)]) \in Int
        <3>1. \A n \in Int : OrZero(n) \in Int
            BY DEF OrZero
        <3> HIDE DEF rows
        <3>2. metric[v][Max(rows)] \in Int
            BY <2>2, <2>3
        <3> QED BY <3>1, <3>2
    <2>5. Latest(v, days) = OrZero(metric[v][Max(rows)])
        BY <1>2 DEF Latest
    <2> QED BY <2>4, <2>5
<1> QED BY <1>1, <1>2

\* The videos that a day's total adds up.
Out(d) == {v \in MonthVideos : PublishDay[v] <= d}

LEMMA PlaysAreSums ==
    ASSUME NEW d
    PROVE  Plays(d) = SumFunctionOnSet([v \in Out(d) |-> Latest(v, 0 .. d)], Out(d))
BY DEF Plays, VideoDay, Sum, SumFunction, Out

LEMMA PlaysAreInt ==
    ASSUME TablesOK, NEW d
    PROVE  Plays(d) \in Int
<1> DEFINE F == [v \in Out(d) |-> Latest(v, 0 .. d)]
<1>1. Out(d) \in SUBSET Videos
    BY DEF Out, MonthVideos, Present
<1>2. IsFiniteSet(Out(d))
    BY <1>1, ReportConstants, FS_Subset
<1>3. \A v \in Out(d) : F[v] \in Int
    BY <1>1, LatestIsInt
<1>4. Plays(d) = SumFunctionOnSet(F, Out(d))
    BY PlaysAreSums
<1> HIDE DEF F
<1> QED BY <1>2, <1>3, <1>4, SumIsInt

\* Nothing of the period is out before its first day.
LEMMA PlaysBegin == Plays(Month[1] - 1) = 0
<1>1. Out(Month[1] - 1) = {}
    <2>1. \A v \in Videos : PublishDay[v] \in Int
        BY ReportConstants DEF Days
    <2>2. Month[1] \in Int /\ Month[2] \in Int
        BY Numbers
    <2>3. \A v \in Out(Month[1] - 1) : v \in Videos /\ PublishDay[v] \in Month[1] .. Month[2]
                                       /\ PublishDay[v] <= Month[1] - 1
        BY DEF Out, MonthVideos, Present, InMonth
    <2>4. \A v \in Out(Month[1] - 1) : FALSE
        BY <2>1, <2>2, <2>3
    <2> QED BY <2>4
<1> QED BY <1>1, PlaysAreSums, SumOfNone

LEMMA PlaysKept ==
    ASSUME UNCHANGED <<metric, seen>>
    PROVE  \A d \in Int : Plays(d)' = Plays(d)
BY DEF Plays, VideoDay, MonthVideos, Present, Latest, Rows, Sum

LEMMA PInvIdle ==
    ASSUME sync.offset = 0, sync.pc # "live"
    PROVE  PInv
<1>1. 1 .. 0 = {}
    OBVIOUS
<1> QED BY <1>1 DEF PInv, IncrementsOK, PlaysOK

LEMMA PInvBegins ==
    ASSUME sync' = NoSync \/ sync' = [NoSync EXCEPT !.pc = "video"]
    PROVE  PInv'
<1>1. sync'.offset = 0 /\ sync'.pc # "live"
    BY DEF NoSync
<1>2. 1 .. 0 = {}
    OBVIOUS
<1> QED BY <1>1, <1>2 DEF PInv, IncrementsOK, PlaysOK

\* A reader of lists, or nobody, moves.
LEMMA PInvUnmoved ==
    ASSUME PInv, UNCHANGED <<tables, sync>>
    PROVE  PInv'
<1>1. \A d \in Int : Plays(d)' = Plays(d)
    BY PlaysKept DEF tables
<1>2. Month[1] \in Int /\ Month[2] \in Int
    BY Numbers
<1>3. IncrementsOK'
    BY DEF PInv, IncrementsOK
<1>4. \A i \in 1 .. sync.offset : Month[1] + i - 1 \in Int
    BY <1>2
<1>5. [d \in Month[1] - 1 .. Month[2] |-> Plays(d)'] = [d \in Month[1] - 1 .. Month[2] |-> Plays(d)]
    BY <1>1, <1>2
<1>6. PlaysOK'
    BY <1>1, <1>4, <1>5 DEF PInv, PlaysOK
<1> QED BY <1>3, <1>6 DEF PInv

\* An import between the pages of a synchronisation, or between the statements of one,
\* ends the promise; others change no row.
LEMMA PInvOvertaken ==
    ASSUME PInv, SyncInv, NEW moved, NEW out, Overtake(moved, out)
    PROVE  PInv'
<1>1. sync' = [pc |-> sync.pc, plays |-> sync.plays, offset |-> sync.offset, rows |-> sync.rows,
               clean |-> sync.clean /\ sync.pc \notin {"video", "live"}]
    BY DEF Overtake, SyncInv, SyncOK
<1>2. IncrementsOK'
    BY <1>1 DEF PInv, IncrementsOK
<1>3. PlaysOK'
    BY <1>1 DEF PlaysOK
<1> QED BY <1>2, <1>3 DEF PInv

LEMMA PInvLoaded ==
    ASSUME PInv, SyncInv, LoadVideoDays
    PROVE  PInv'
<1> DEFINE T == [d \in Month[1] - 1 .. Month[2] |-> Plays(d)]
<1>1. sync' = [pc |-> "live", plays |-> T, offset |-> sync.offset, rows |-> sync.rows,
               clean |-> sync.clean] /\ sync.pc = "video"
    BY DEF LoadVideoDays, SyncInv, SyncOK, Plays
<1>2. \A d \in Int : Plays(d)' = Plays(d)
    BY PlaysKept DEF tables, LoadVideoDays
<1>3. Month[1] \in Int /\ Month[2] \in Int
    BY Numbers
<1>4. T = [d \in Month[1] - 1 .. Month[2] |-> Plays(d)']
    BY <1>2, <1>3
<1>5. \A i \in 1 .. sync.offset : Month[1] + i - 1 \in Int
    BY <1>3
<1> HIDE DEF T
<1>6. IncrementsOK'
    BY <1>1 DEF PInv, IncrementsOK
<1>7. PlaysOK'
    BY <1>1, <1>2, <1>4, <1>5 DEF PInv, PlaysOK
<1> QED BY <1>6, <1>7 DEF PInv

\* A page takes its rows from the totals that all pages before it were taken from.
LEMMA PInvAnswered ==
    ASSUME PInv, SyncInv, TablesOK, AnswerPage
    PROVE  PInv'
<1>1. PICK end \in sync.offset .. Span :
            sync' = [pc |-> IF end < Span THEN "video" ELSE "done", plays |-> sync'.plays,
                     offset |-> end,
                     rows |-> [i \in 1 .. end |->
                                  IF i <= sync.offset THEN sync.rows[i]
                                  ELSE ReportRow(sync.plays, Month[1] + i - 1)],
                     clean |-> sync.clean]
    BY AnswerRows
<1>2. sync.pc = "live" /\ UNCHANGED <<metric, seen>>
    BY DEF AnswerPage, tables
<1>3. \A d \in Int : Plays(d)' = Plays(d)
    BY <1>2, PlaysKept
<1>4. Month[1] \in Int /\ Month[2] \in Int /\ Span = Month[2] - Month[1] + 1 /\ sync.offset \in Nat
    BY Numbers DEF Span, SyncInv, SyncOK
<1>5. SUFFICES ASSUME sync.clean PROVE PInv'
    BY <1>1 DEF PInv, IncrementsOK, PlaysOK
<1>6. /\ \A i \in 1 .. sync.offset : sync.rows[i].play = Plays(Month[1] + i - 1)
      /\ sync.plays = [d \in Month[1] - 1 .. Month[2] |-> Plays(d)]
    BY <1>2, <1>5 DEF PInv, PlaysOK
<1>7. \A i \in 1 .. sync.offset :
            sync.rows[i].inc = sync.rows[i].play - (IF i = 1 THEN 0 ELSE sync.rows[i - 1].play)
    BY <1>5 DEF PInv, IncrementsOK
<1> DEFINE T(i) == Plays(Month[1] + i - 1)
<1>8. T(0) = 0
    <2>1. Month[1] + 0 - 1 = Month[1] - 1
        BY <1>4
    <2> QED BY <2>1, PlaysBegin
<1>9. \A i \in 0 .. Span : T(i) \in Int
    BY PlaysAreInt
<1>10. \A i \in 1 .. Span : ReportRow(sync.plays, Month[1] + i - 1).play = T(i)
                         /\ ReportRow(sync.plays, Month[1] + i - 1).inc = T(i) - T(i - 1)
    <2> SUFFICES ASSUME NEW i \in 1 .. Span
                 PROVE  /\ ReportRow(sync.plays, Month[1] + i - 1).play = T(i)
                        /\ ReportRow(sync.plays, Month[1] + i - 1).inc = T(i) - T(i - 1)
        OBVIOUS
    <2> DEFINE d == Month[1] + i - 1
    <2>1. d \in Month[1] - 1 .. Month[2] /\ d - 1 \in Month[1] - 1 .. Month[2]
          /\ d - 1 = Month[1] + (i - 1) - 1
        BY <1>4
    <2>2. sync.plays[d] = T(i)
        BY <1>6, <2>1
    <2>3. sync.plays[d - 1] = T(i - 1)
        BY <1>6, <2>1
    <2> HIDE DEF d, T
    <2>4. ReportRow(sync.plays, d).play = T(i) /\ ReportRow(sync.plays, d).inc = T(i) - T(i - 1)
        BY <2>2, <2>3 DEF ReportRow
    <2> QED BY <2>4 DEF d
<1>11. \A i \in 1 .. sync.offset : sync.rows[i].play = T(i)
    BY <1>6
<1> HIDE DEF T
<1>12. \A i \in 1 .. end : sync'.rows[i].play = T(i)
    <2> SUFFICES ASSUME NEW i \in 1 .. end PROVE sync'.rows[i].play = T(i)
        OBVIOUS
    <2>1. i \in 1 .. Span /\ (i <= sync.offset => i \in 1 .. sync.offset)
        BY <1>4
    <2> QED BY <1>1, <1>10, <1>11, <2>1
<1>13. \A i \in 1 .. end : sync'.rows[i].inc = T(i) - T(i - 1)
    <2> SUFFICES ASSUME NEW i \in 1 .. end PROVE sync'.rows[i].inc = T(i) - T(i - 1)
        OBVIOUS
    <2>1. i \in 1 .. Span
        BY <1>4
    <2>2. CASE ~(i <= sync.offset)
        BY <1>1, <1>10, <2>1, <2>2
    <2>3. CASE i <= sync.offset
        <3>1. i \in 1 .. sync.offset /\ (i # 1 => i - 1 \in 1 .. sync.offset)
            BY <1>4, <2>3
        <3>2. sync'.rows[i] = sync.rows[i]
            BY <1>1, <2>3
        <3>3. sync.rows[i].play = T(i) /\ (i # 1 => sync.rows[i - 1].play = T(i - 1))
            BY <1>11, <3>1
        <3>4. CASE i = 1
            <4>1. i - 1 = 0
                BY <3>4
            <4> QED BY <1>7, <1>8, <3>1, <3>2, <3>3, <3>4, <4>1
        <3>5. CASE i # 1
            BY <1>7, <3>1, <3>2, <3>3, <3>5
        <3> QED BY <3>4, <3>5
    <2> QED BY <2>2, <2>3
<1>14. IncrementsOK'
    <2> SUFFICES ASSUME NEW i \in 1 .. end
                 PROVE  /\ sync'.rows[i].play \in Int
                        /\ sync'.rows[i].inc
                             = sync'.rows[i].play - (IF i = 1 THEN 0 ELSE sync'.rows[i - 1].play)
        BY <1>1 DEF IncrementsOK
    <2>1. i \in 0 .. Span /\ (i # 1 => i - 1 \in 1 .. end)
        BY <1>4
    <2>2. sync'.rows[i].play = T(i) /\ sync'.rows[i].inc = T(i) - T(i - 1) /\ T(i) \in Int
        BY <1>9, <1>12, <1>13, <2>1
    <2>3. i = 1 => T(i - 1) = 0
        BY <1>8
    <2>4. i # 1 => sync'.rows[i - 1].play = T(i - 1)
        BY <1>12, <2>1
    <2> QED BY <2>2, <2>3, <2>4
<1>15. PlaysOK'
    <2>1. \A i \in 1 .. end : Month[1] + i - 1 \in Int
        BY <1>4
    <2>2. \A i \in 1 .. end : sync'.rows[i].play = Plays(Month[1] + i - 1)'
        BY <1>3, <1>12, <2>1 DEF T
    <2>3. sync'.pc # "live" /\ sync'.offset = end
        BY <1>1
    <2> QED BY <2>2, <2>3 DEF PlaysOK
<1> QED BY <1>14, <1>15 DEF PInv

LEMMA PInvInit == ReportsInit => PInv
BY PInvIdle DEF ReportsInit, NoSync

LEMMA PInvNext == RInv /\ PInv /\ [ReportsNext]_reportVars => PInv'
<1> SUFFICES ASSUME TablesOK, SyncInv, PInv, [ReportsNext]_reportVars PROVE PInv'
    BY RInvParts
<1>1. ASSUME NEW d, NEW count, NEW S, NEW traced, ImportVideos(S, d, count, traced) PROVE PInv'
    BY <1>1, PInvOvertaken DEF ImportVideos, Imported
<1>2. ASSUME NEW L, ImportSessions(L) PROVE PInv'
    BY <1>2, PInvOvertaken DEF ImportSessions, Imported
<1>a. ASSUME NEW out, WriteBack(out) PROVE PInv'
    BY <1>a, PInvOvertaken DEF WriteBack
<1>b. ASSUME NEW L, NormalizeLives(L) PROVE PInv'
    BY <1>b, PInvOvertaken DEF NormalizeLives
<1>3. ASSUME NEW kind, NEW counted, NEW out, StartListing(kind, counted, out) PROVE PInv'
    BY <1>3, PInvBegins DEF StartListing
<1>4. CASE CountItems \/ SelectPage \/ ListPage \/ SearchPage \/ UNCHANGED reportVars
    BY <1>4, PInvUnmoved DEF CountItems, SelectPage, ListPage, SearchPage, reportVars
<1>5. CASE StartSync
    BY <1>5, PInvBegins DEF StartSync
<1>6. CASE LoadVideoDays
    BY <1>6, PInvLoaded
<1>7. CASE AnswerPage
    BY <1>7, PInvAnswered
<1> QED BY <1>1, <1>2, <1>a, <1>b, <1>3, <1>4, <1>5, <1>6, <1>7 DEF ReportsNext

THEOREM AlwaysPInv == ReportsSpec => []PInv
<1>1. RInv /\ PInv /\ [ReportsNext]_reportVars => PInv'
    BY PInvNext
<1> QED BY PInvInit, <1>1, AlwaysRInv, PTL DEF ReportsSpec

\* The increments of an undisturbed synchronisation add up to the plays of its last row:
\* the pages, computed one by one from the tables, are cut from one report, which counts
\* from nothing (connector_records and load_daily_report of data_sync.rs).
THEOREM IncrementsReachPlays == ReportsSpec => []IncrementsAddUp
<1>1. RInv /\ PInv => IncrementsAddUp
    <2> SUFFICES ASSUME RInv, PInv, sync.pc = "done", sync.clean
                 PROVE  Sum(DOMAIN sync.rows, LAMBDA i : sync.rows[i].inc) = Last(sync.rows).play
        BY DEF IncrementsAddUp
    <2> DEFINE T == [i \in 0 .. Span |-> IF i = 0 THEN 0 ELSE sync.rows[i].play]
               F == [i \in 1 .. Span |-> sync.rows[i].inc]
    <2>1. Span \in Nat \ {0} /\ sync.offset = Span /\ sync.rows = [i \in 1 .. Span |-> sync.rows[i]]
        BY Numbers DEF RInv, SyncOK, RowsOK, DayRows
    <2>2. \A i \in 1 .. Span :
            /\ sync.rows[i].play \in Int
            /\ sync.rows[i].inc = sync.rows[i].play - (IF i = 1 THEN 0 ELSE sync.rows[i - 1].play)
        BY <2>1 DEF PInv, IncrementsOK
    <2>3. \A i \in 0 .. Span : T[i] \in Int
        BY <2>1, <2>2
    <2>4. \A i \in 1 .. Span : F[i] = T[i] - T[i - 1]
        <3> SUFFICES ASSUME NEW i \in 1 .. Span PROVE F[i] = T[i] - T[i - 1]
            OBVIOUS
        <3>1. i \in 0 .. Span /\ i - 1 \in 0 .. Span /\ i # 0 /\ (i - 1 = 0 <=> i = 1)
            BY <2>1
        <3> QED BY <2>2, <3>1
    <2>5. T[0] = 0 /\ T[Span] = sync.rows[Span].play
        BY <2>1
    <2>6. Sum(DOMAIN sync.rows, LAMBDA i : sync.rows[i].inc) = SumFunctionOnSet(F, 1 .. Span)
        BY <2>1 DEF Sum, SumFunction
    <2>7. Last(sync.rows) = sync.rows[Span]
        <3>1. Len(sync.rows) = Span
            BY <2>1
        <3> QED BY <3>1 DEF Last
    <2> HIDE DEF T, F
    <2>8. SumFunctionOnSet(F, 1 .. Span) = T[Span] - T[0]
        BY <2>1, <2>3, <2>4, SumTelescopes
    <2>9. T[Span] \in Int
        BY <2>1, <2>3
    <2> QED BY <2>5, <2>6, <2>7, <2>8, <2>9
<1> QED BY AlwaysRInv, AlwaysPInv, <1>1, PTL

\* The pages of a synchronisation make one report, of every month and page size.
THEOREM SyncIsOneReport == ReportsSpec => []SyncAddsUp
BY SyncReturnsEveryDay, IncrementsReachPlays, PTL DEF SyncAddsUp

-----------------------------------------------------------------------------
(* What the statements of Reports compute, whatever the tables hold.         *)

LEMMA LastIsLast ==
    ASSUME NEW S \in SUBSET Days, S # {}
    PROVE  Max(S) \in S /\ \A e \in S : e <= Max(S)
<1>1. S \in SUBSET Int /\ Max(S) \in S
    BY LastOfDays DEF Days
<1> DEFINE B == {n \in Nat : \E d \in S : n = LastDay - d}
<1>2. LastDay \in Nat /\ \A d \in S : d \in Nat /\ LastDay - d \in Nat
    BY Numbers DEF Days
<1>3. B # {} /\ B \in SUBSET Nat
    BY <1>2
<1>4. PICK n \in B : \A m \in B : ~(m < n)
    <2> HIDE DEF B
    <2> QED BY <1>3, NoLeast
<1>5. PICK d \in S : n = LastDay - d
    OBVIOUS
<1>6. ASSUME NEW e \in S PROVE d >= e
    <2>1. LastDay - e \in B
        BY <1>2
    <2>2. ~(LastDay - e < LastDay - d)
        BY <1>4, <1>5, <2>1
    <2> HIDE DEF B
    <2> QED BY <1>2, <2>2
<1>7. \A y \in S : Max(S) >= y
    BY <1>6 DEF Max
<1> QED BY <1>1, <1>7

LEMMA FirstIsFirst ==
    ASSUME NEW S \in SUBSET Days, S # {}
    PROVE  Min(S) \in S /\ \A e \in S : Min(S) <= e
<1>1. S \in SUBSET Nat
    BY DEF Days
<1>2. PICK d \in S : \A e \in S : ~(e < d)
    BY <1>1, NoLeast
<1>3. \A e \in S : d <= e
    BY <1>1, <1>2
<1> QED BY <1>3 DEF Min

\* Counts of days with a row, and of the rows before one.
LEMMA CountsAreNumbers ==
    ASSUME TablesOK, NEW v \in Videos
    PROVE  /\ Rows(v) \in SUBSET Days /\ IsFiniteSet(Rows(v))
           /\ \A d \in Rows(v) : metric[v][d] \in Nat \cup {Null} /\ OrZero(metric[v][d]) \in Nat
<1>1. Rows(v) \in SUBSET Days
    BY DEF Rows
<1>2. IsFiniteSet(Days)
    BY Numbers, FS_Interval DEF Days
<1>3. ASSUME NEW d \in Rows(v) PROVE metric[v][d] \in Nat \cup {Null}
    <2>1. d \in Days /\ metric[v][d] # NoRow
        BY DEF Rows
    <2>2. metric[v][d] \in Counts \cup {NoRow, Null}
        BY <2>1 DEF TablesOK
    <2> QED BY <2>1, <2>2, ReportConstants
<1>4. \A n \in Nat \cup {Null} : OrZero(n) \in Nat
    BY DEF OrZero, Null
<1> QED BY <1>1, <1>2, <1>3, <1>4, FS_Subset

LEMMA LagIsNat ==
    ASSUME TablesOK, NEW v \in Videos, NEW d, NEW rows \in SUBSET Rows(v)
    PROVE  OrZero(Lag(v, d, rows)) \in Nat
<1> DEFINE before == {e \in rows : e < d}
<1>1. CASE before = {}
    BY <1>1 DEF Lag, OrZero
<1>2. CASE before # {}
    <2>1. before \in SUBSET Rows(v) /\ before \in SUBSET Days
        BY CountsAreNumbers
    <2>2. Max(before) \in Rows(v)
        BY <1>2, <2>1, LastIsLast
    <2>3. Lag(v, d, rows) = metric[v][Max(before)]
        BY <1>2 DEF Lag
    <2> HIDE DEF before
    <2> QED BY <2>2, <2>3, CountsAreNumbers
<1> QED BY <1>1, <1>2

LEMMA IncrementIsNat ==
    ASSUME TablesOK, NEW v \in Videos, NEW d \in Rows(v)
    PROVE  OrZero(Increment(v, d)) \in Nat
<1>1. CASE metric[v][d] = Null
    BY <1>1 DEF Increment, OrZero
<1>2. CASE metric[v][d] # Null
    <2>1. metric[v][d] \in Nat
        BY <1>2, CountsAreNumbers
    <2>2. OrZero(Lag(v, d, Rows(v))) \in Nat
        BY LagIsNat
    <2>3. \A n \in Int : Positive(n) \in Nat /\ OrZero(Positive(n)) \in Nat
        BY DEF Positive, OrZero
    <2>4. Increment(v, d) = Positive(metric[v][d] - OrZero(Lag(v, d, Rows(v))))
        BY <1>2 DEF Increment
    <2> QED BY <2>1, <2>2, <2>3, <2>4
<1> QED BY <1>1, <1>2

\* Rows of a range, and what they add.
Ranged(v, r) == Rows(v) \cap InRange(r)
Added(v, r)  == [d \in Ranged(v, r) |-> OrZero(Increment(v, d))]

LEMMA GrowthIsSum ==
    ASSUME NEW v, NEW r
    PROVE  Growth(v, r) = SumFunctionOnSet(Added(v, r), Ranged(v, r))
BY DEF Growth, Sum, SumFunction, Added, Ranged

LEMMA GrowthIsNat ==
    ASSUME TablesOK, NEW v \in Videos, NEW r
    PROVE  /\ IsFiniteSet(Ranged(v, r)) /\ Growth(v, r) \in Nat
           /\ \A d \in Ranged(v, r) : Added(v, r)[d] \in Nat
           /\ Ranged(v, r) = {} => Growth(v, r) = 0
<1>1. Ranged(v, r) \in SUBSET Rows(v)
    BY DEF Ranged
<1>2. IsFiniteSet(Ranged(v, r))
    BY <1>1, CountsAreNumbers, FS_Subset
<1>3. \A d \in Ranged(v, r) : Added(v, r)[d] \in Nat
    BY <1>1, IncrementIsNat DEF Added
<1>4. Growth(v, r) \in Nat
    BY <1>2, <1>3, GrowthIsSum, SumIsNat
<1>5. Ranged(v, r) = {} => Growth(v, r) = 0
    BY GrowthIsSum, SumOfNone
<1> QED BY <1>2, <1>3, <1>4, <1>5

\* The fold of the labels drops what is after the range before it looks back, which no row of the
\* range looks at, and counts a missing count as none, which never exceeds what was before.
LEMMA LabelGrowthIsGrowth ==
    ASSUME TablesOK, NEW v \in Videos, NEW r \in Ranges
    PROVE  LabelGrowth(v, r) = Growth(v, r)
<1> DEFINE F == [d \in Ranged(v, r) |-> Positive(OrZero(metric[v][d]) - OrZero(Lag(v, d, LabelSeries(v, r))))]
<1>1. LabelGrowth(v, r) = SumFunctionOnSet(F, Ranged(v, r))
    BY DEF LabelGrowth, Sum, SumFunction, Ranged
<1>2. ASSUME NEW d \in Ranged(v, r) PROVE F[d] = Added(v, r)[d]
    <2>1. d \in Rows(v) /\ d \in r[1] .. r[2] /\ r[1] \in Days /\ r[2] \in Days
        BY DEF Ranged, InRange, Ranges
    <2>2. {e \in LabelSeries(v, r) : e < d} = {e \in Rows(v) : e < d}
        <3>1. \A e \in Rows(v) : e < d => e \in 0 .. r[2]
            BY <2>1 DEF Days, Rows
        <3> QED BY <3>1 DEF LabelSeries
    <2>3. Lag(v, d, LabelSeries(v, r)) = Lag(v, d, Rows(v))
        BY <2>2 DEF Lag
    <2> DEFINE lag == OrZero(Lag(v, d, Rows(v)))
    <2>4. lag \in Nat
        BY LagIsNat
    <2>5. metric[v][d] \in Nat \cup {Null}
        BY <2>1, CountsAreNumbers
    <2>6. F[d] = Positive(OrZero(metric[v][d]) - lag)
        BY <2>3
    <2>7. Added(v, r)[d] = OrZero(IF metric[v][d] = Null THEN Null ELSE Positive(metric[v][d] - lag))
        BY DEF Added, Increment
    <2> HIDE DEF lag, F
    <2>8. CASE metric[v][d] = Null
        <3>1. OrZero(metric[v][d]) = 0 /\ Added(v, r)[d] = 0
            BY <2>7, <2>8 DEF OrZero
        <3>2. Positive(0 - lag) = 0
            BY <2>4 DEF Positive
        <3> QED BY <2>6, <3>1, <3>2
    <2>9. CASE metric[v][d] # Null
        <3>1. OrZero(metric[v][d]) = metric[v][d] /\ metric[v][d] \in Nat
            BY <2>5, <2>9 DEF OrZero
        <3>2. \A n \in Int : OrZero(Positive(n)) = Positive(n)
            BY DEF OrZero, Positive, Null
        <3> QED BY <2>4, <2>6, <2>7, <2>9, <3>1, <3>2
    <2> QED BY <2>8, <2>9
<1> HIDE DEF F
<1>3. IsFiniteSet(Ranged(v, r))
    BY GrowthIsNat
<1> QED BY <1>1, <1>2, <1>3, SumSame, GrowthIsSum

\* The increments of a steady video add up to what it has reached, gaps or not.
LEMMA GrowthReaches ==
    ASSUME TablesOK, NEW v \in Videos, Steady(v), NEW day \in Days
    PROVE  Growth(v, <<0, day>>) = Latest(v, 0 .. day)
<1> DEFINE Upto(d) == Rows(v) \cap 0 .. d
           B == {d \in Days : Growth(v, <<0, d>>) # Latest(v, 0 .. d)}
<1>1. ASSUME NEW d \in B PROVE \E e \in B : e < d
    <2>1. d \in Days /\ d \in Nat /\ Ranged(v, <<0, d>>) = Upto(d)
        BY DEF Days, Ranged, InRange
    <2>2. Growth(v, <<0, d>>) # Latest(v, 0 .. d)
        OBVIOUS
    <2> DEFINE E == {e \in Rows(v) : e < d}
               Reached == IF E = {} THEN 0 ELSE OrZero(metric[v][Max(E)])
               G == [e \in E |-> OrZero(Increment(v, e))]
    <2>3. E \in SUBSET Days /\ E \in SUBSET Rows(v) /\ IsFiniteSet(E)
        <3>1. E \in SUBSET Rows(v)
            OBVIOUS
        <3> QED BY <3>1, CountsAreNumbers, FS_Subset
    <2>4. SUFFICES ASSUME \A e \in B : ~(e < d) PROVE FALSE
        OBVIOUS
    <2>5. SumFunctionOnSet(G, E) = Reached
        <3>1. CASE E = {}
            BY <3>1, SumOfNone
        <3>2. CASE E # {}
            <4>1. d - 1 \in Days /\ d - 1 < d
                <5>1. PICK e : e \in E
                    BY <3>2
                <5>2. e \in 0 .. LastDay /\ e < d
                    BY <2>3, <5>1 DEF Days
                <5> QED BY <2>1, <5>2, Numbers DEF Days
            <4>2. E = Upto(d - 1)
                <5>1. \A e \in Rows(v) : e < d <=> e \in 0 .. d - 1
                    BY <2>1, CountsAreNumbers DEF Days
                <5> QED BY <5>1
            <4>3. d - 1 \notin B
                BY <2>4, <4>1
            <4>4. Growth(v, <<0, d - 1>>) = Latest(v, 0 .. d - 1)
                BY <4>1, <4>3
            <4>5. Ranged(v, <<0, d - 1>>) = E
                BY <4>2 DEF Ranged, InRange
            <4>6. Growth(v, <<0, d - 1>>) = SumFunctionOnSet(G, E)
                BY <4>5, GrowthIsSum DEF Added
            <4>7. Latest(v, 0 .. d - 1) = Reached
                BY <4>2 DEF Latest
            <4> QED BY <4>4, <4>6, <4>7
        <3> QED BY <3>1, <3>2
    <2>6. CASE d \notin Rows(v)
        <3>1. Upto(d) = E
            <4>1. \A e \in Rows(v) : e < d <=> e \in 0 .. d
                BY <2>1, <2>6, CountsAreNumbers DEF Days
            <4> QED BY <4>1
        <3>2. Growth(v, <<0, d>>) = SumFunctionOnSet(G, E)
            BY <2>1, <3>1, GrowthIsSum DEF Added
        <3>3. Latest(v, 0 .. d) = Reached
            BY <3>1 DEF Latest
        <3> QED BY <2>2, <2>5, <3>2, <3>3
    <2>7. CASE d \in Rows(v)
        <3> DEFINE D == Upto(d)
                   H == Added(v, <<0, d>>)
        <3>1. d \in D /\ D \ {d} = E /\ \A e \in D : e <= d
            <4>1. \A e \in Rows(v) : (e \in 0 .. d /\ e # d) <=> e < d
                BY <2>1, CountsAreNumbers DEF Days
            <4>2. d \in 0 .. d
                BY <2>1
            <4>3. \A e : e \in D \ {d} <=> e \in E
                BY <4>1
            <4>4. \A e \in D : e <= d
                BY <2>1
            <4>5. d \in D
                BY <2>7, <4>2
            <4> HIDE DEF D, E
            <4> QED BY <4>3, <4>4, <4>5
        <3>2. Max(D) = d
            <4>1. D \in SUBSET Days /\ D # {}
                BY <3>1, CountsAreNumbers
            <4> HIDE DEF D
            <4>2. Max(D) \in D /\ d <= Max(D) /\ Max(D) <= d
                BY <3>1, <4>1, LastIsLast
            <4> HIDE DEF E
            <4>3. \A m \in Nat : d <= m /\ m <= d => m = d
                BY <2>1
            <4>4. Days \in SUBSET Nat
                BY DEF Days
            <4>5. Max(D) \in Nat
                BY <4>1, <4>2, <4>4
            <4> QED BY <4>2, <4>3, <4>5
        <3>3. Latest(v, 0 .. d) = OrZero(metric[v][d])
            BY <3>1, <3>2 DEF Latest
        <3>4. metric[v][d] \in Nat /\ metric[v][d] >= OrZero(Lag(v, d, Rows(v)))
            <4>1. metric[v][d] # Null /\ metric[v][d] >= OrZero(Lag(v, d, Rows(v)))
                BY <2>7 DEF Steady
            <4> QED BY <2>7, <4>1, CountsAreNumbers
        <3>5. OrZero(Lag(v, d, Rows(v))) = Reached
            BY DEF Lag, OrZero
        <3>6. Reached \in Nat
            BY <3>5, LagIsNat
        <3> HIDE DEF Reached
        <3>7. OrZero(Increment(v, d)) = metric[v][d] - Reached
            <4>1. metric[v][d] # Null
                BY <3>4 DEF Null
            <4>2. Increment(v, d) = Positive(metric[v][d] - Reached)
                BY <3>5, <4>1 DEF Increment
            <4>3. \A n \in Nat : OrZero(Positive(n)) = n
                BY DEF OrZero, Positive, Null
            <4>4. metric[v][d] - Reached \in Nat
                BY <3>4, <3>5, <3>6
            <4> QED BY <4>2, <4>3, <4>4
        <3>8. Growth(v, <<0, d>>) = SumFunctionOnSet(H, D)
            BY <2>1, GrowthIsSum
        <3>9. SumFunctionOnSet(H, D) = H[d] + SumFunctionOnSet(H, E)
            <4> DEFINE R == Ranged(v, <<0, d>>)
            <4>0. IsFiniteSet(R) /\ \A e \in R : Added(v, <<0, d>>)[e] \in Nat
                BY GrowthIsNat
            <4>1. R = D
                BY <2>1
            <4> HIDE DEF R, D
            <4>2. IsFiniteSet(D) /\ \A e \in D : H[e] \in Int
                BY <4>0, <4>1
            <4> HIDE DEF H, D, E
            <4> QED BY <3>1, <4>2, SumRemove
        <3>10. H[d] = OrZero(Increment(v, d))
            BY <2>1, <3>1 DEF Added
        <3>11. SumFunctionOnSet(H, E) = SumFunctionOnSet(G, E)
            <4>1. \A e \in E : H[e] = G[e]
                BY <2>1, <3>1 DEF Added
            <4> HIDE DEF H, G, E
            <4> QED BY <2>3, <4>1, SumSame
        <3>12. OrZero(metric[v][d]) = metric[v][d]
            BY <3>4 DEF OrZero, Null
        <3> HIDE DEF H, D, E, G, B
        <3> QED BY <2>2, <2>5, <3>3, <3>4, <3>6, <3>7, <3>8, <3>9, <3>10, <3>11, <3>12
    <2> QED BY <2>6, <2>7
<1>2. B = {}
    <2>1. B \in SUBSET Nat
        BY DEF Days
    <2> HIDE DEF B
    <2> QED BY <1>1, <2>1, NoLeast
<1> QED BY <1>2
-----------------------------------------------------------------------------
(* Ranges: five statements and a fold.                                       *)

\* Every strict order of a finite set has a first element and can be lined up.
LEMMA FirstExists ==
    ASSUME NEW S, IsFiniteSet(S), S # {}, NEW R, \A x \in S : <<x, x>> \notin R,
           \A x, y, z \in S : <<x, y>> \in R /\ <<y, z>> \in R => <<x, z>> \in R
    PROVE  \E m \in S : \A x \in S : <<x, m>> \notin R
<1> DEFINE Under(y) == {x \in S : <<x, y>> \in R}
           B == {Cardinality(Under(y)) : y \in S}
<1>1. ASSUME NEW y \in S PROVE IsFiniteSet(Under(y)) /\ Cardinality(Under(y)) \in Nat
    BY FS_Subset, FS_CardinalityType
<1>2. B \in SUBSET Nat /\ B # {}
    <2>1. \A y \in S : Cardinality(Under(y)) \in Nat
        BY <1>1
    <2> HIDE DEF Under
    <2> QED BY <2>1
<1>3. PICK n \in B : \A m \in B : ~(m < n)
    <2> HIDE DEF B
    <2> QED BY <1>2, NoLeast
<1>4. PICK m \in S : n = Cardinality(Under(m))
    OBVIOUS
<1>5. ASSUME NEW x \in S, <<x, m>> \in R PROVE FALSE
    <2>1. Under(x) \in SUBSET Under(m) /\ x \in Under(m) /\ x \notin Under(x)
        BY <1>5
    <2>2. Cardinality(Under(x)) \in B
        OBVIOUS
    <2> HIDE DEF Under, B
    <2>3. Cardinality(Under(x)) <= Cardinality(Under(m)) /\ Cardinality(Under(x)) # Cardinality(Under(m))
        BY <1>1, <2>1, FS_Subset
    <2>4. ~(Cardinality(Under(x)) < Cardinality(Under(m)))
        BY <1>3, <1>4, <2>2
    <2> QED BY <1>1, <2>3, <2>4
<1> QED BY <1>5

InLine(seq, R) == \A i, j \in DOMAIN seq : i < j => <<seq[j], seq[i]>> \notin R

LEMMA LineExists ==
    ASSUME NEW S, IsFiniteSet(S), NEW R, \A x \in S : <<x, x>> \notin R,
           \A x, y, z \in S : <<x, y>> \in R /\ <<y, z>> \in R => <<x, z>> \in R
    PROVE  \E seq \in SetToSeqs(S) : InLine(seq, R)
<1> DEFINE Lined(s) == \E seq \in SetToSeqs(s) : InLine(seq, R)
           B == {n \in Nat : \E s \in SUBSET S : Cardinality(s) = n /\ ~ Lined(s)}
<1>1. ASSUME NEW n \in B PROVE \E m \in B : m < n
    <2>1. PICK s \in SUBSET S : Cardinality(s) = n /\ ~ Lined(s)
        OBVIOUS
    <2>2. IsFiniteSet(s)
        BY FS_Subset
    <2>3. s # {}
        <3> SUFFICES ASSUME s = {} PROVE Lined(s)
            BY <2>1
        <3>1. Cardinality(s) = 0 /\ 1 .. 0 = {}
            BY FS_EmptySet
        <3> DEFINE e == [i \in 1 .. 0 |-> i]
        <3>2. e \in SetToSeqs(s) /\ InLine(e, R)
            BY <3>1 DEF SetToSeqs, InLine
        <3> QED BY <3>2
    <2>4. PICK m \in s : \A x \in s : <<x, m>> \notin R
        BY <2>2, <2>3, FirstExists
    <2> DEFINE t == s \ {m}
    <2>5. t \in SUBSET S /\ Cardinality(t) = n - 1 /\ n - 1 \in Nat
        <3>1. IsFiniteSet(t) /\ Cardinality(t) = Cardinality(s) - 1
            BY <2>2, FS_RemoveElement
        <3>2. Cardinality(t) \in Nat
            BY <3>1, FS_CardinalityType
        <3> QED BY <2>1, <3>1, <3>2
    <2>6. n - 1 < n
        OBVIOUS
    <2>7. CASE ~ Lined(t)
        <3>1. n - 1 \in B
            <4> HIDE DEF Lined, t
            <4> QED BY <2>5, <2>7
        <3> HIDE DEF B
        <3> QED BY <2>6, <3>1
    <2>8. CASE Lined(t)
        <3>1. PICK q \in SetToSeqs(t) : InLine(q, R)
            BY <2>8
        <3>2. /\ q \in [1 .. n - 1 -> t]
              /\ \A i, j \in 1 .. n - 1 : i # j => q[i] # q[j]
            BY <2>5 DEF SetToSeqs
        <3> DEFINE seq == [i \in 1 .. n |-> IF i = 1 THEN m ELSE q[i - 1]]
        <3>3. \A i \in 1 .. n : i # 1 => i - 1 \in 1 .. n - 1
            BY <2>5
        <3>4. seq \in [1 .. n -> s]
            BY <3>2, <3>3
        <3>5. ASSUME NEW i \in 1 .. n, NEW j \in 1 .. n, i # j PROVE seq[i] # seq[j]
            <4>1. \A k \in 1 .. n : k # 1 => seq[k] = q[k - 1] /\ seq[k] # m
                BY <3>2, <3>3
            <4>2. CASE i = 1
                BY <3>5, <4>1, <4>2
            <4>3. CASE j = 1
                BY <3>5, <4>1, <4>3
            <4>4. CASE i # 1 /\ j # 1
                <5>1. i - 1 \in 1 .. n - 1 /\ j - 1 \in 1 .. n - 1 /\ i - 1 # j - 1
                    BY <3>3, <3>5, <4>4
                <5> QED BY <3>2, <4>1, <4>4, <5>1
            <4> QED BY <4>2, <4>3, <4>4
        <3>6. ASSUME NEW i \in 1 .. n, NEW j \in 1 .. n, i < j PROVE <<seq[j], seq[i]>> \notin R
            <4>1. j # 1 /\ j - 1 \in 1 .. n - 1 /\ seq[j] = q[j - 1] /\ seq[j] \in s
                BY <3>2, <3>3, <3>6
            <4>2. CASE i = 1
                BY <2>4, <4>1, <4>2
            <4>3. CASE i # 1
                <5>1. i - 1 \in 1 .. n - 1 /\ i - 1 < j - 1 /\ seq[i] = q[i - 1] /\ DOMAIN q = 1 .. n - 1
                    BY <3>2, <3>3, <3>6, <4>3
                <5>2. \A a, b \in DOMAIN q : a < b => <<q[b], q[a]>> \notin R
                    BY <3>1 DEF InLine
                <5>3. <<q[j - 1], q[i - 1]>> \notin R
                    BY <4>1, <5>1, <5>2
                <5> HIDE DEF seq
                <5> QED BY <4>1, <5>1, <5>3
            <4> QED BY <4>2, <4>3
        <3>7. DOMAIN seq = 1 .. n
            OBVIOUS
        <3> HIDE DEF seq
        <3>8. seq \in SetToSeqs(s)
            BY <2>1, <3>4, <3>5 DEF SetToSeqs
        <3>9. InLine(seq, R)
            BY <3>6, <3>7 DEF InLine
        <3> QED BY <2>1, <3>8, <3>9
    <2> QED BY <2>7, <2>8
<1>2. B = {}
    <2>1. B \in SUBSET Nat
        OBVIOUS
    <2> HIDE DEF B
    <2> QED BY <1>1, <2>1, NoLeast
<1>3. Cardinality(S) \in Nat
    BY FS_CardinalityType
<1> QED BY <1>2, <1>3

\* A lining up names every element once.
LEMMA LineNamesAll ==
    ASSUME NEW S, IsFiniteSet(S), NEW seq \in SetToSeqs(S)
    PROVE  /\ Cardinality(S) \in Nat /\ seq \in [1 .. Cardinality(S) -> S]
           /\ \A i, j \in 1 .. Cardinality(S) : seq[i] = seq[j] => i = j
           /\ S = {seq[i] : i \in 1 .. Cardinality(S)}
<1> DEFINE n == Cardinality(S)
           D == 1 .. n
<1>1. n \in Nat /\ IsFiniteSet(D) /\ Cardinality(D) = n
    <2>1. n \in Nat
        BY FS_CardinalityType
    <2> HIDE DEF n
    <2> QED BY <2>1, FS_Interval
<1>2. seq \in [D -> S] /\ \A i, j \in D : i # j => seq[i] # seq[j]
    BY DEF SetToSeqs
<1> HIDE DEF D
<1>3. seq \in Injection(D, S)
    BY <1>2 DEF Injection, IsInjective
<1>4. seq \in Surjection(D, S)
    BY <1>1, <1>3, FS_Injection
<1>5. S = {seq[i] : i \in D}
    BY <1>2, <1>4 DEF Surjection
<1> QED BY <1>1, <1>2, <1>5 DEF D

LEMMA PresentIsFinite == IsFiniteSet(Present) /\ Present \in SUBSET Videos
<1>1. Present \in SUBSET Videos
    BY DEF Present
<1> QED BY <1>1, ReportConstants, FS_Subset

LEMMA ActiveAreRanged ==
    ASSUME NEW S, NEW r
    PROVE  Active(S, r) = {v \in S : Ranged(v, r) # {}}
BY DEF Active, Ranged

\* The order of top_video_growth leaves no circle of videos.
LEMMA TopIsLine ==
    ASSUME TablesOK, NEW r
    PROVE  LET A == Active(Present, r)
               ranked == CHOOSE seq \in SetToSeqs(A) :
                            \A i, j \in DOMAIN seq : i < j => ~ Above(seq[j], seq[i], r)
           IN  IsFiniteSet(A) /\ ranked \in SetToSeqs(A)
<1> DEFINE A == Active(Present, r)
           R == {p \in A \X A : Above(p[1], p[2], r)}
<1>1. A \in SUBSET Videos /\ IsFiniteSet(A)
    <2>1. A \in SUBSET Present
        BY DEF Active
    <2> HIDE DEF A
    <2> QED BY <2>1, PresentIsFinite, FS_Subset
<1>2. ASSUME NEW v \in A PROVE Growth(v, r) \in Nat /\ MetricDays(v, r) \in Nat /\ LastMetric(v, r) \in Nat
    <2>1. v \in Videos /\ Ranged(v, r) # {}
        BY <1>1, ActiveAreRanged
    <2>2. Growth(v, r) \in Nat /\ IsFiniteSet(Ranged(v, r))
        BY <2>1, GrowthIsNat
    <2>3. MetricDays(v, r) \in Nat
        BY <2>2, FS_CardinalityType DEF MetricDays, Ranged
    <2>4. Ranged(v, r) \in SUBSET Days
        BY <2>1, CountsAreNumbers DEF Ranged
    <2>5. Max(Ranged(v, r)) \in Days
        BY <2>1, <2>4, LastOfDays
    <2> QED BY <2>2, <2>3, <2>5 DEF LastMetric, Ranged, Days
<1> HIDE DEF A
<1>3. \A v, w \in A : <<v, w>> \in R <=> Above(v, w, r)
    OBVIOUS
<1> HIDE DEF R
<1>4. \A v \in A : <<v, v>> \notin R
    BY <1>2, <1>3 DEF Above
<1>5. ASSUME NEW u \in A, NEW v \in A, NEW w \in A, <<u, v>> \in R, <<v, w>> \in R PROVE <<u, w>> \in R
    <2>1. Above(u, v, r) /\ Above(v, w, r)
        BY <1>3, <1>5
    <2>2. Above(u, w, r)
        BY <1>2, <2>1 DEF Above
    <2> QED BY <1>3, <2>2
<1>6. \E seq \in SetToSeqs(A) : InLine(seq, R)
    BY <1>1, <1>4, <1>5, LineExists
<1>7. ASSUME NEW seq \in SetToSeqs(A)
      PROVE  InLine(seq, R) <=> \A i, j \in DOMAIN seq : i < j => ~ Above(seq[j], seq[i], r)
    <2>1. \A i \in DOMAIN seq : seq[i] \in A
        BY DEF SetToSeqs
    <2> QED BY <1>3, <2>1 DEF InLine
<1>8. \E seq \in SetToSeqs(A) : \A i, j \in DOMAIN seq : i < j => ~ Above(seq[j], seq[i], r)
    BY <1>6, <1>7
<1> QED BY <1>1, <1>8 DEF A
Grown(r) == [v \in Videos |-> Growth(v, r)]

\* Only active videos grow: whoever is left out or taken in beside them adds nothing.
LEMMA ActiveGrow ==
    ASSUME TablesOK, NEW r, NEW S \in SUBSET Present, Active(Present, r) \in SUBSET S
    PROVE  /\ IsFiniteSet(S) /\ \A v \in S : Grown(r)[v] = Growth(v, r) /\ Grown(r)[v] \in Nat
           /\ SumFunctionOnSet(Grown(r), Present) = SumFunctionOnSet(Grown(r), S)
<1>1. IsFiniteSet(S) /\ S \in SUBSET Videos
    BY PresentIsFinite, FS_Subset
<1>2. \A v \in Videos : Grown(r)[v] = Growth(v, r) /\ Grown(r)[v] \in Nat
    BY GrowthIsNat DEF Grown
<1>3. \A v \in Present \ S : Grown(r)[v] = 0
    <2> SUFFICES ASSUME NEW v \in Present, v \notin S PROVE Grown(r)[v] = 0
        OBVIOUS
    <2>1. v \in Videos /\ Ranged(v, r) = {}
        BY PresentIsFinite, ActiveAreRanged
    <2> QED BY <1>2, <2>1, GrowthIsNat
<1>4. \A v \in Present : Grown(r)[v] \in Int
    BY <1>2, PresentIsFinite
<1>5. SumFunctionOnSet(Grown(r), Present) = SumFunctionOnSet(Grown(r), S)
    BY <1>3, <1>4, PresentIsFinite, SumOfRest
<1> QED BY <1>1, <1>2, <1>5

LEMMA SummaryIsSum ==
    ASSUME TablesOK, NEW r
    PROVE  /\ VideoSummary(Present, r).play = SumFunctionOnSet(Grown(r), Present)
           /\ VideoSummary(Present, r).contents = Cardinality(Active(Present, r))
<1> DEFINE F == [v \in Present |-> Growth(v, r)]
<1>1. VideoSummary(Present, r).play = SumFunctionOnSet(F, Present)
    BY DEF VideoSummary, Sum, SumFunction
<1>2. \A v \in Present : F[v] = Grown(r)[v]
    BY PresentIsFinite DEF Grown
<1> HIDE DEF F
<1>3. SumFunctionOnSet(F, Present) = SumFunctionOnSet(Grown(r), Present)
    BY <1>2, PresentIsFinite, SumSame
<1>4. VideoSummary(Present, r).contents = Cardinality(Active(Present, r))
    BY DEF VideoSummary
<1> QED BY <1>1, <1>3, <1>4

\* video_summary and top_video_growth, read to its end.
LEMMA TopAgrees ==
    ASSUME TablesOK, NEW r
    PROVE  LET top == TopVideos(Present, r, Cardinality(Videos))
           IN  /\ VideoSummary(Present, r).play = Sum(DOMAIN top, LAMBDA i : top[i].play)
               /\ VideoSummary(Present, r).contents = Len(top)
<1> DEFINE A == Active(Present, r)
           n == Cardinality(A)
           ranked == CHOOSE seq \in SetToSeqs(A) :
                        \A i, j \in DOMAIN seq : i < j => ~ Above(seq[j], seq[i], r)
           top == TopVideos(Present, r, Cardinality(Videos))
           F == [i \in 1 .. n |-> top[i].play]
<1>1. IsFiniteSet(A) /\ ranked \in SetToSeqs(A)
    BY TopIsLine
<1>2. top = [i \in 1 .. Min({Cardinality(Videos), Len(ranked)}) |->
                [video |-> ranked[i], play |-> Growth(ranked[i], r), days |-> MetricDays(ranked[i], r)]]
    BY DEF TopVideos
<1>3. A \in SUBSET Present /\ A \in SUBSET Videos
    BY PresentIsFinite DEF Active
<1> HIDE DEF ranked, top, A
<1>4. /\ n \in Nat /\ ranked \in [1 .. n -> A]
      /\ \A i, j \in 1 .. n : ranked[i] = ranked[j] => i = j
      /\ A = {ranked[i] : i \in 1 .. n}
    BY <1>1, LineNamesAll
<1>5. Cardinality(Videos) \in Nat /\ n <= Cardinality(Videos)
    BY <1>3, ReportConstants, FS_Subset, FS_CardinalityType
<1> HIDE DEF n
<1>6. Len(ranked) = n
    BY <1>4
<1>7. Min({Cardinality(Videos), n}) = n
    BY <1>4, <1>5, MinOfTwo
<1>8. top = [i \in 1 .. n |->
                [video |-> ranked[i], play |-> Growth(ranked[i], r), days |-> MetricDays(ranked[i], r)]]
    BY <1>2, <1>6, <1>7
<1>9. DOMAIN top = 1 .. n /\ Len(top) = n
    BY <1>4, <1>8
<1>10. Active(Present, r) \in SUBSET A
    BY DEF A
<1>11. /\ \A v \in A : Grown(r)[v] = Growth(v, r) /\ Grown(r)[v] \in Nat
       /\ SumFunctionOnSet(Grown(r), Present) = SumFunctionOnSet(Grown(r), A)
    BY <1>3, <1>10, ActiveGrow
<1>12. \A i \in 1 .. n : F[i] \in Int /\ Grown(r)[ranked[i]] = F[i]
    BY <1>4, <1>8, <1>11
<1>13. Sum(DOMAIN top, LAMBDA i : top[i].play) = SumFunctionOnSet(F, 1 .. n)
    BY <1>9 DEF Sum, SumFunction
<1> HIDE DEF F
<1>14. IsFiniteSet(1 .. n)
    BY <1>4, FS_Interval
<1>15. SumFunctionOnSet(Grown(r), A) = SumFunctionOnSet(F, 1 .. n)
    <2> DEFINE I == 1 .. n
    <2>1. (\A i, j \in I : ranked[i] = ranked[j] => i = j) /\ A = {ranked[i] : i \in I}
        BY <1>4
    <2>2. IsFiniteSet(I) /\ \A i \in I : F[i] \in Int /\ Grown(r)[ranked[i]] = F[i]
        BY <1>12, <1>14
    <2> HIDE DEF I
    <2>3. SumFunctionOnSet(Grown(r), A) = SumFunctionOnSet(F, I)
        BY <2>1, <2>2, SumRenamed
    <2> QED BY <2>3 DEF I
<1>16. Cardinality(Active(Present, r)) = n
    BY DEF n, A
<1> QED BY <1>9, <1>11, <1>13, <1>15, <1>16, SummaryIsSum DEF top

\* video_summary and the series of list_videos_with_metrics.
LEMMA MetricsAgree ==
    ASSUME TablesOK, NEW r
    PROVE  VideoSummary(Present, r).play
              = Sum(VideosWithMetrics(Present, r), LAMBDA x :
                    Sum(DOMAIN x.points, LAMBDA d : OrZero(x.points[d].inc)))
<1> DEFINE W == {w \in Present : Rows(w) = {}} \cup Active(Present, r)
           row(v) == [video  |-> v,
                      points |-> [d \in Rows(v) \cap InRange(r) |->
                                     [play |-> metric[v][d], inc |-> Increment(v, d)]],
                      latest |-> LET last == Max(Rows(v) \cap InRange(r))
                                 IN  IF Active({v}, r) = {} THEN Null ELSE metric[v][last]]
           f == [v \in W |-> row(v)]
           M == VideosWithMetrics(Present, r)
           G == [x \in M |-> Sum(DOMAIN x.points, LAMBDA d : OrZero(x.points[d].inc))]
<1>1. M = {f[v] : v \in W}
    BY DEF VideosWithMetrics
<1>2. W \in SUBSET Present /\ Active(Present, r) \in SUBSET W
    BY DEF Active
<1>3. /\ IsFiniteSet(W) /\ \A v \in W : Grown(r)[v] = Growth(v, r) /\ Grown(r)[v] \in Nat
      /\ SumFunctionOnSet(Grown(r), Present) = SumFunctionOnSet(Grown(r), W)
    BY <1>2, ActiveGrow
<1>4. \A v, w \in W : f[v] = f[w] => v = w
    BY DEF W
<1>5. ASSUME NEW v \in W PROVE G[f[v]] = Grown(r)[v]
    <2>1. DOMAIN row(v).points = Ranged(v, r)
        BY DEF Ranged
    <2>2. \A d \in Ranged(v, r) : row(v).points[d].inc = Increment(v, d)
        BY DEF Ranged
    <2>3. f[v] = row(v) /\ f[v] \in M
        BY <1>1
    <2> HIDE DEF row, f, M, W
    <2>4. G[f[v]] = Sum(DOMAIN row(v).points, LAMBDA d : OrZero(row(v).points[d].inc))
        BY <2>3
    <2>5. Sum(DOMAIN row(v).points, LAMBDA d : OrZero(row(v).points[d].inc))
             = SumFunctionOnSet([d \in Ranged(v, r) |-> OrZero(row(v).points[d].inc)], Ranged(v, r))
        BY <2>1 DEF Sum, SumFunction
    <2>6. [d \in Ranged(v, r) |-> OrZero(row(v).points[d].inc)] = Added(v, r)
        BY <2>2 DEF Added
    <2> QED BY <1>3, <2>4, <2>5, <2>6, GrowthIsSum
<1>6. Sum(M, LAMBDA x : Sum(DOMAIN x.points, LAMBDA d : OrZero(x.points[d].inc)))
         = SumFunctionOnSet(G, M)
    BY DEF Sum, SumFunction
<1> HIDE DEF W, row, f, M, G
<1>7. SumFunctionOnSet(G, M) = SumFunctionOnSet(Grown(r), W)
    BY <1>1, <1>3, <1>4, <1>5, SumRenamed
<1> QED BY <1>3, <1>6, <1>7, SummaryIsSum DEF M

\* video_summary and the rows of video_label_summary.
LEMMA LabelsAgree ==
    ASSUME TablesOK, NEW r \in Ranges
    PROVE  LET labels == LabelSummary(Present, r)
           IN  /\ VideoSummary(Present, r).play = Sum(labels, LAMBDA x : x.play)
               /\ VideoSummary(Present, r).contents = Sum(labels, LAMBDA x : x.active)
<1> DEFINE A == Active(Present, r)
           Shown == A \cup {w \in Present : PublishDay[w] \in InRange(r)}
           K == {LabelOf[v] : v \in Shown}
           f == [l \in K |-> LabelRow(Present, r, l)]
           labels == LabelSummary(Present, r)
           OfLabel == [l \in K |-> {v \in Present : LabelOf[v] = l}]
           S == {v \in Present : LabelOf[v] \in K}
           Play == [l \in K |-> f[l].play]
           Count == [l \in K |-> f[l].active]
           PlayOf == [x \in labels |-> x.play]
           CountOf == [x \in labels |-> x.active]
<1>1. A \in SUBSET Present /\ Shown \in SUBSET Present /\ A \in SUBSET Shown
    BY DEF Active
<1>2. S \in SUBSET Present /\ A \in SUBSET S
    BY <1>1
<1>3. IsFiniteSet(Shown) /\ IsFiniteSet(A)
    BY <1>1, PresentIsFinite, FS_Subset
<1>4. IsFiniteSet(K)
    <2> HIDE DEF Shown
    <2> QED BY <1>3, ImageIsFinite
<1>5. labels = {f[l] : l \in K}
    BY DEF LabelSummary
<1>6. \A l \in K : f[l].label = l
    BY DEF LabelRow
<1>7. \A l, m \in K : f[l] = f[m] => l = m
    <2> HIDE DEF f, K
    <2> QED BY <1>6
<1>8. /\ IsFiniteSet(S) /\ \A v \in S : Grown(r)[v] = Growth(v, r) /\ Grown(r)[v] \in Nat
      /\ SumFunctionOnSet(Grown(r), Present) = SumFunctionOnSet(Grown(r), S)
    <2> HIDE DEF S, A
    <2>1. Active(Present, r) \in SUBSET S
        BY <1>2 DEF A
    <2> QED BY <1>2, <2>1, ActiveGrow
<1>9. ASSUME NEW l \in K PROVE Play[l] = SumFunctionOnSet(Grown(r), OfLabel[l])
    <2> DEFINE C == {v \in Present : LabelOf[v] = l}
               F == [v \in C |-> LabelGrowth(v, r)]
    <2>1. Play[l] = SumFunctionOnSet(F, C)
        BY DEF LabelRow, Sum, SumFunction
    <2>2. C \in SUBSET S /\ C \in SUBSET Videos /\ OfLabel[l] = C
        BY PresentIsFinite
    <2>3. \A v \in C : F[v] = Grown(r)[v]
        BY <2>2, LabelGrowthIsGrowth DEF Grown
    <2> HIDE DEF C, F, S, Play, OfLabel
    <2>4. IsFiniteSet(C)
        BY <1>8, <2>2, FS_Subset
    <2> QED BY <2>1, <2>2, <2>3, <2>4, SumSame
<1>10. ASSUME NEW l \in K PROVE Count[l] = Cardinality({v \in A : LabelOf[v] = l})
    <2>1. Count[l] = Cardinality(Active({v \in Present : LabelOf[v] = l}, r))
        BY DEF LabelRow
    <2>2. Active({v \in Present : LabelOf[v] = l}, r) = {v \in A : LabelOf[v] = l}
        BY DEF Active
    <2> QED BY <2>1, <2>2
<1>11. \A l \in K : OfLabel[l] = {v \in S : LabelOf[v] = l}
    OBVIOUS
<1>12. (\A v \in S : LabelOf[v] \in K) /\ \A v \in A : LabelOf[v] \in K
    BY <1>1
<1>13. /\ Sum(labels, LAMBDA x : x.play) = SumFunctionOnSet(PlayOf, labels)
       /\ Sum(labels, LAMBDA x : x.active) = SumFunctionOnSet(CountOf, labels)
    BY DEF Sum, SumFunction
<1> DEFINE ActiveOf == [l \in K |-> {v \in A : LabelOf[v] = l}]
<1>14. \A l \in K : ActiveOf[l] = {v \in A : LabelOf[v] = l}
    OBVIOUS
<1>15. \A l \in K : PlayOf[f[l]] = Play[l] /\ CountOf[f[l]] = Count[l]
    BY <1>5
<1> HIDE DEF A, Shown, K, f, labels, OfLabel, S, Play, Count, PlayOf, CountOf, ActiveOf
<1>16. \A l \in K : Play[l] \in Int /\ Count[l] \in Int
    <2> SUFFICES ASSUME NEW l \in K PROVE Play[l] \in Int /\ Count[l] \in Int
        OBVIOUS
    <2>1. OfLabel[l] \in SUBSET S /\ ActiveOf[l] \in SUBSET A
        BY <1>11, <1>14
    <2>2. IsFiniteSet(OfLabel[l]) /\ \A v \in OfLabel[l] : Grown(r)[v] \in Int
        BY <1>8, <2>1, FS_Subset
    <2>3. Play[l] \in Int
        BY <1>9, <2>2, SumIsInt
    <2>4. Count[l] = Cardinality(ActiveOf[l]) /\ IsFiniteSet(ActiveOf[l])
        BY <1>3, <1>10, <1>14, <2>1, FS_Subset
    <2>5. Count[l] \in Int
        BY <2>4, FS_CardinalityType
    <2> QED BY <2>3, <2>5
<1>17. SumFunctionOnSet(Grown(r), S) = SumFunctionOnSet(Play, K)
    <2>1. \A v \in S : Grown(r)[v] \in Int
        BY <1>8
    <2> QED BY <1>4, <1>8, <1>9, <1>11, <1>12, <2>1, SumOfClasses
<1>18. SumFunctionOnSet(PlayOf, labels) = SumFunctionOnSet(Play, K)
    BY <1>4, <1>5, <1>7, <1>15, <1>16, SumRenamed
<1>19. SumFunctionOnSet(CountOf, labels) = SumFunctionOnSet(Count, K)
    BY <1>4, <1>5, <1>7, <1>15, <1>16, SumRenamed
<1>20. Cardinality(A) = SumFunctionOnSet(Count, K)
    <2>1. \A l \in K : Count[l] = Cardinality(ActiveOf[l])
        BY <1>10, <1>14
    <2> QED BY <1>3, <1>4, <1>12, <1>14, <2>1, CountOfClasses
<1> QED BY <1>8, <1>13, <1>17, <1>18, <1>19, <1>20, SummaryIsSum DEF labels, A

LEMMA RangesDoAgree == TablesOK => RangesAgree
BY TopAgrees, MetricsAgree, LabelsAgree DEF RangesAgree

-----------------------------------------------------------------------------
(* Totals of the card, the connector and the searches.                       *)

PlayBy(days) == [v \in Videos |-> Latest(v, days)]
Viewed       == [s \in Sessions |-> OrZero(Live[s].pv)]

LEMMA LatestIsNat ==
    ASSUME TablesOK, NEW v \in Videos, NEW days
    PROVE  Latest(v, days) \in Nat
<1> DEFINE rows == Rows(v) \cap days
<1>1. CASE rows = {}
    BY <1>1 DEF Latest
<1>2. CASE rows # {}
    <2>1. rows \in SUBSET Days /\ rows \in SUBSET Rows(v)
        BY CountsAreNumbers
    <2>2. Max(rows) \in Rows(v)
        BY <1>2, <2>1, LastIsLast
    <2>3. Latest(v, days) = OrZero(metric[v][Max(rows)])
        BY <1>2 DEF Latest
    <2> HIDE DEF rows
    <2> QED BY <2>2, <2>3, CountsAreNumbers
<1> QED BY <1>1, <1>2

LEMMA PlaysSum ==
    ASSUME TablesOK, NEW S \in SUBSET Videos, NEW days
    PROVE  /\ IsFiniteSet(S) /\ \A v \in S : PlayBy(days)[v] = Latest(v, days) /\ PlayBy(days)[v] \in Nat
           /\ SumFunctionOnSet([v \in S |-> Latest(v, days)], S) = SumFunctionOnSet(PlayBy(days), S)
<1> DEFINE F == [v \in S |-> Latest(v, days)]
<1>1. IsFiniteSet(S)
    BY ReportConstants, FS_Subset
<1>2. \A v \in S : PlayBy(days)[v] = Latest(v, days) /\ PlayBy(days)[v] \in Nat
    BY LatestIsNat DEF PlayBy
<1>3. \A v \in S : F[v] = PlayBy(days)[v]
    BY <1>2
<1> HIDE DEF F
<1>4. SumFunctionOnSet(F, S) = SumFunctionOnSet(PlayBy(days), S)
    BY <1>1, <1>3, SumSame
<1> QED BY <1>1, <1>2, <1>4 DEF F

LEMMA ViewsSum ==
    ASSUME NEW L \in SUBSET Sessions
    PROVE  /\ IsFiniteSet(L) /\ \A s \in L : Viewed[s] = OrZero(Live[s].pv) /\ Viewed[s] \in Nat
           /\ SumFunctionOnSet([s \in L |-> OrZero(Live[s].pv)], L) = SumFunctionOnSet(Viewed, L)
<1> DEFINE F == [s \in L |-> OrZero(Live[s].pv)]
<1>1. IsFiniteSet(L)
    BY ReportConstants, FS_Subset
<1>2. \A s \in L : Viewed[s] = OrZero(Live[s].pv) /\ Viewed[s] \in Nat
    <2> SUFFICES ASSUME NEW s \in L PROVE Viewed[s] = OrZero(Live[s].pv) /\ Viewed[s] \in Nat
        OBVIOUS
    <2>1. Live[s].pv \in Nat \cup {Null}
        BY ReportConstants
    <2>2. \A n \in Nat \cup {Null} : OrZero(n) \in Nat
        BY DEF OrZero, Null
    <2> QED BY <2>1, <2>2 DEF Viewed
<1>3. \A s \in L : F[s] = Viewed[s]
    BY <1>2
<1> HIDE DEF F
<1>4. SumFunctionOnSet(F, L) = SumFunctionOnSet(Viewed, L)
    BY <1>1, <1>3, SumSame
<1> QED BY <1>1, <1>2, <1>4 DEF F

\* What is published in the month and what is streamed in it.
LEMMA MonthIsFinite ==
    /\ IsFiniteSet(MonthVideos) /\ MonthVideos \in SUBSET Videos /\ MonthVideos \in SUBSET Present
    /\ \A v \in MonthVideos : PublishDay[v] \in InMonth
    /\ IsFiniteSet(MonthSessions) /\ MonthSessions \in SUBSET Sessions
    /\ MonthSessions \in SUBSET Streamed /\ Streamed \in SUBSET Sessions /\ IsFiniteSet(Streamed)
    /\ \A s \in MonthSessions : Live[s].day \in InMonth
    /\ IsFiniteSet(InMonth) /\ InMonth \in SUBSET Int
<1>1. MonthVideos \in SUBSET Present /\ MonthSessions \in SUBSET Streamed /\ Streamed \in SUBSET Sessions
    BY DEF MonthVideos, MonthSessions, Streamed
<1>2. MonthVideos \in SUBSET Videos /\ MonthSessions \in SUBSET Sessions
    BY <1>1, PresentIsFinite
<1>3. IsFiniteSet(MonthVideos) /\ IsFiniteSet(MonthSessions) /\ IsFiniteSet(Streamed)
    BY <1>1, <1>2, ReportConstants, FS_Subset
<1>4. (\A v \in MonthVideos : PublishDay[v] \in InMonth) /\ \A s \in MonthSessions : Live[s].day \in InMonth
    BY DEF MonthVideos, MonthSessions
<1>5. IsFiniteSet(InMonth)
    BY Numbers, FS_Interval DEF InMonth
<1>6. InMonth \in SUBSET Int
    BY DEF InMonth
<1> QED BY <1>1, <1>2, <1>3, <1>4, <1>5, <1>6

LEMMA CardIsSum ==
    ASSUME TablesOK
    PROVE  /\ ProjectReport.play = SumFunctionOnSet(PlayBy(Days), MonthVideos)
           /\ ProjectReport.pv = SumFunctionOnSet(Viewed, MonthSessions)
<1>1. ProjectReport.play = SumFunctionOnSet([v \in MonthVideos |-> Latest(v, Days)], MonthVideos)
    BY DEF ProjectReport, Sum, SumFunction
<1>2. ProjectReport.pv = SumFunctionOnSet([s \in MonthSessions |-> OrZero(Live[s].pv)], MonthSessions)
    BY DEF ProjectReport, Sum, SumFunction
<1> QED BY <1>1, <1>2, PlaysSum, ViewsSum, MonthIsFinite

\* The days of the connector, over the videos published on and up to each.
OutOn(d) == {v \in MonthVideos : PublishDay[v] = d}
OutBy(d) == {v \in MonthVideos : PublishDay[v] <= d}

LEMMA VideoDayIsSum ==
    ASSUME TablesOK, NEW d \in InMonth
    PROVE  /\ VideoDay(d).finalPlay = SumFunctionOnSet(PlayBy(Days), OutOn(d))
           /\ VideoDay(d).totalPlay = SumFunctionOnSet(PlayBy(0 .. d), OutBy(d))
           /\ VideoDay(d).newVideos = Cardinality(OutOn(d))
           /\ VideoDay(d).videos = Cardinality(OutBy(d))
<1>1. {v \in OutBy(d) : PublishDay[v] = d} = OutOn(d)
    <2>1. d \in Int
        BY MonthIsFinite
    <2>2. \A v \in OutBy(d) : v \in MonthVideos
        BY DEF OutBy
    <2>3. \A v \in OutOn(d) : v \in OutBy(d) /\ PublishDay[v] = d
        BY <2>1 DEF OutBy, OutOn
    <2> QED BY <2>2, <2>3 DEF OutOn
<1>2. OutBy(d) = {v \in MonthVideos : PublishDay[v] <= d}
    BY DEF OutBy
<1> DEFINE by == {v \in MonthVideos : PublishDay[v] <= d}
<1>3. /\ VideoDay(d).newVideos = Cardinality({v \in by : PublishDay[v] = d})
      /\ VideoDay(d).videos = Cardinality(by)
    BY DEF VideoDay
<1>4. /\ VideoDay(d).finalPlay
            = SumFunctionOnSet([v \in {w \in by : PublishDay[w] = d} |-> Latest(v, Days)],
                               {w \in by : PublishDay[w] = d})
      /\ VideoDay(d).totalPlay = SumFunctionOnSet([v \in by |-> Latest(v, 0 .. d)], by)
    BY DEF VideoDay, Sum, SumFunction
<1>5. by = OutBy(d) /\ {w \in by : PublishDay[w] = d} = OutOn(d)
    BY <1>1, <1>2
<1> HIDE DEF by
<1>6. OutOn(d) \in SUBSET Videos /\ OutBy(d) \in SUBSET Videos
    BY MonthIsFinite DEF OutOn, OutBy
<1> QED BY <1>3, <1>4, <1>5, <1>6, PlaysSum

LEMMA FinalPlaysAddUp ==
    ASSUME TablesOK
    PROVE  ProjectReport.play = Sum(InMonth, LAMBDA d : VideoDay(d).finalPlay)
<1> DEFINE F == PlayBy(Days)
           G == [d \in InMonth |-> VideoDay(d).finalPlay]
           C == [d \in InMonth |-> OutOn(d)]
<1>1. Sum(InMonth, LAMBDA d : VideoDay(d).finalPlay) = SumFunctionOnSet(G, InMonth)
    BY DEF Sum, SumFunction
<1>2. \A d \in InMonth : G[d] = SumFunctionOnSet(F, C[d])
    BY VideoDayIsSum
<1>3. \A d \in InMonth : C[d] = {v \in MonthVideos : PublishDay[v] = d}
    BY DEF OutOn
<1>4. \A v \in MonthVideos : F[v] \in Int
    <2>1. MonthVideos \in SUBSET Videos
        BY MonthIsFinite
    <2>2. \A v \in MonthVideos : F[v] \in Nat
        BY <2>1, PlaysSum
    <2> HIDE DEF F
    <2> QED BY <2>2
<1>5. /\ IsFiniteSet(MonthVideos) /\ IsFiniteSet(InMonth)
      /\ \A v \in MonthVideos : PublishDay[v] \in InMonth
    BY MonthIsFinite
<1>6. SumFunctionOnSet(F, MonthVideos) = ProjectReport.play
    BY CardIsSum
<1> HIDE DEF F, G, C
<1>7. SumFunctionOnSet(F, MonthVideos) = SumFunctionOnSet(G, InMonth)
    BY <1>2, <1>3, <1>4, <1>5, SumOfClasses
<1> QED BY <1>1, <1>6, <1>7 DEF G

\* The last row of the month, when no metric is later.
LEMMA LastRowIsCard ==
    ASSUME TablesOK, \A v \in MonthVideos : Rows(v) \subseteq 0 .. Month[2]
    PROVE  ProjectReport.play = VideoDay(Month[2]).totalPlay
<1>1. Month[2] \in InMonth
    BY Numbers DEF InMonth
<1>2. OutBy(Month[2]) = MonthVideos
    <2>1. \A v \in MonthVideos : PublishDay[v] <= Month[2]
        BY MonthIsFinite DEF InMonth
    <2> QED BY <2>1 DEF OutBy
<1>3. ASSUME NEW v \in MonthVideos PROVE PlayBy(Days)[v] = PlayBy(0 .. Month[2])[v]
    <2>1. v \in Videos
        BY MonthIsFinite
    <2>2. Rows(v) \cap Days = Rows(v) \cap (0 .. Month[2])
        BY <2>1, CountsAreNumbers
    <2>3. Latest(v, Days) = Latest(v, 0 .. Month[2])
        BY <2>2 DEF Latest
    <2> QED BY <2>1, <2>3 DEF PlayBy
<1>4. SumFunctionOnSet(PlayBy(Days), MonthVideos) = SumFunctionOnSet(PlayBy(0 .. Month[2]), MonthVideos)
    BY <1>3, MonthIsFinite, SumSame
<1> QED BY <1>1, <1>2, <1>4, CardIsSum, VideoDayIsSum

LEMMA SearchIsSum ==
    ASSUME TablesOK, NEW S \in SUBSET Videos, NEW L \in SUBSET Sessions
    PROVE  /\ SearchSummary(S, L).play = SumFunctionOnSet(PlayBy(Days), S)
           /\ SearchSummary(S, L).pv = SumFunctionOnSet(Viewed, L)
<1>1. /\ SearchSummary(S, L).play = SumFunctionOnSet([v \in S |-> Latest(v, Days)], S)
      /\ SearchSummary(S, L).pv = SumFunctionOnSet([s \in L |-> OrZero(Live[s].pv)], L)
    BY DEF SearchSummary, Sum, SumFunction
<1> QED BY <1>1, PlaysSum, ViewsSum

\* Every author is below a bound above all plays: only the nameless are missing.
LEMMA AuthorTotalsAgree ==
    ASSUME TablesOK
    PROVE  LET everyone == Sum(Present, LAMBDA v : Latest(v, Days)) + 1
               nameless == {v \in Present : AuthorOf[v] = NoName}
           IN  PlayBelowAuthorTotal(Present, everyone)
                  = SearchSummary(Present, {}).play - SearchSummary(nameless, {}).play
<1> DEFINE F == PlayBy(Days)
           all == SumFunctionOnSet(F, Present)
           nameless == {v \in Present : AuthorOf[v] = NoName}
           named == Present \ nameless
           Total(a) == Sum({v \in Present : AuthorOf[v] = a}, LAMBDA v : Latest(v, Days))
           authors == Names({AuthorOf[v] : v \in Present})
           By == [a \in authors |-> {v \in named : AuthorOf[v] = a}]
           G == [a \in authors |-> Total(a)]
<1>1. IsFiniteSet(Present) /\ Present \in SUBSET Videos
    BY PresentIsFinite
<1>2. Sum(Present, LAMBDA v : Latest(v, Days)) = all
    <2>1. Sum(Present, LAMBDA v : Latest(v, Days)) = SumFunctionOnSet([v \in Present |-> Latest(v, Days)], Present)
        BY DEF Sum, SumFunction
    <2> QED BY <1>1, <2>1, PlaysSum
<1>3. ASSUME NEW a \in authors PROVE G[a] = SumFunctionOnSet(F, By[a])
    <2> DEFINE C == {v \in Present : AuthorOf[v] = a}
    <2>1. a # NoName
        BY DEF Names
    <2>2. C = By[a] /\ C \in SUBSET Videos
        BY <1>1, <2>1
    <2>3. Total(a) = SumFunctionOnSet([v \in C |-> Latest(v, Days)], C)
        BY DEF Sum, SumFunction
    <2>4. SumFunctionOnSet([v \in C |-> Latest(v, Days)], C) = SumFunctionOnSet(F, C)
        BY <2>2, PlaysSum
    <2>5. G[a] = Total(a)
        OBVIOUS
    <2> QED BY <2>2, <2>3, <2>4, <2>5
<1>4. \A v \in Present : F[v] \in Nat
    BY <1>1, PlaysSum
<1>5. named \in SUBSET Present /\ nameless \in SUBSET Present /\ Present \ nameless = named
    OBVIOUS
<1>6. \A v \in named : AuthorOf[v] \in authors
    BY DEF Names
<1>7. \A a \in authors : By[a] = {v \in named : AuthorOf[v] = a}
    OBVIOUS
<1>8. IsFiniteSet(authors)
    <2>1. IsFiniteSet({AuthorOf[v] : v \in Present})
        BY <1>1, ImageIsFinite
    <2> QED BY <2>1, FS_Subset DEF Names
<1>9. {a \in authors : Total(a) < all + 1} = authors
    <2> SUFFICES ASSUME NEW a \in authors PROVE Total(a) < all + 1
        OBVIOUS
    <2>1. Total(a) = SumFunctionOnSet(F, By[a]) /\ By[a] \in SUBSET Present
        BY <1>3
    <2> DEFINE part == SumFunctionOnSet(F, By[a])
    <2>2. IsFiniteSet(By[a]) /\ \A v \in By[a] : F[v] \in Nat
        BY <1>1, <1>4, <2>1, FS_Subset
    <2> HIDE DEF By, F, Total
    <2>3. part <= all
        BY <1>1, <1>4, <2>1, SumGrows
    <2>4. part \in Nat /\ all \in Nat
        BY <1>1, <1>4, <2>2, SumIsNat
    <2>5. Total(a) = part
        BY <2>1
    <2> HIDE DEF part, all
    <2> QED BY <2>3, <2>4, <2>5
<1>10. PlayBelowAuthorTotal(Present, all + 1) = SumFunctionOnSet(G, authors)
    <2>1. PlayBelowAuthorTotal(Present, all + 1)
             = Sum({a \in authors : Total(a) < all + 1}, Total)
        BY DEF PlayBelowAuthorTotal
    <2> DEFINE users == {a \in authors : Total(a) < all + 1}
    <2>2. Sum(users, Total) = SumFunctionOnSet([a \in users |-> Total(a)], users)
        BY DEF Sum, SumFunction
    <2>3. users = authors
        BY <1>9
    <2>4. [a \in users |-> Total(a)] = G
        BY <2>3
    <2> QED BY <2>1, <2>2, <2>3, <2>4
<1>11. /\ SearchSummary(Present, {}).play = all
       /\ SearchSummary(nameless, {}).play = SumFunctionOnSet(F, nameless)
    <2>1. nameless \in SUBSET Videos /\ {} \in SUBSET Sessions
        BY <1>1
    <2> QED BY <1>1, <2>1, SearchIsSum
<1> HIDE DEF F, nameless, named, Total, authors, By, G
<1>12. \A v \in Present : F[v] \in Int
    BY <1>4
<1>13. IsFiniteSet(named) /\ IsFiniteSet(nameless) /\ (\A v \in named : F[v] \in Int)
    BY <1>1, <1>5, <1>12, FS_Subset
<1>14. SumFunctionOnSet(F, named) = SumFunctionOnSet(G, authors)
    BY <1>3, <1>6, <1>7, <1>8, <1>13, SumOfClasses
<1>15. all = SumFunctionOnSet(F, nameless) + SumFunctionOnSet(F, named)
    BY <1>1, <1>5, <1>12, SumSplits
<1>16. SumFunctionOnSet(F, nameless) \in Int /\ SumFunctionOnSet(F, named) \in Int
    BY <1>5, <1>12, <1>13, SumIsInt
<1>17. PlayBelowAuthorTotal(Present, all + 1)
          = SearchSummary(Present, {}).play - SearchSummary(nameless, {}).play
    <2> DEFINE some == SumFunctionOnSet(F, named)
               none == SumFunctionOnSet(F, nameless)
    <2>1. all = none + some /\ none \in Int /\ some \in Int
        BY <1>15, <1>16
    <2>2. PlayBelowAuthorTotal(Present, all + 1) = some
        BY <1>10, <1>14
    <2>3. SearchSummary(Present, {}).play = all /\ SearchSummary(nameless, {}).play = none
        BY <1>11
    <2> HIDE DEF some, none, all
    <2> QED BY <2>1, <2>2, <2>3
<1> QED BY <1>2, <1>17 DEF nameless

\* Users below a bound of the average number of viewers are among all sessions.
LEMMA BelowAcuIsPart ==
    ASSUME TablesOK
    PROVE  LivePvBelowAcu(Streamed, LastDay) <= SearchSummary({}, Streamed).pv
<1> DEFINE Below(a) ==
               LET w == Weighed(Streamed, a)
               IN  /\ w # {}
                   /\ Sum(w, LAMBDA s : Live[s].acu * Live[s].seconds)
                        < LastDay * Sum(w, LAMBDA s : Live[s].seconds)
           named == {s \in Streamed : Live[s].anchor # NoName}
           users == {a \in {Live[s].anchor : s \in named} : Below(a)}
           T == {s \in named : Live[s].anchor \in users}
<1>1. LivePvBelowAcu(Streamed, LastDay) = Sum(T, LAMBDA s : OrZero(Live[s].pv))
    BY DEF LivePvBelowAcu
<1>2. Sum(T, LAMBDA s : OrZero(Live[s].pv)) = SumFunctionOnSet([s \in T |-> OrZero(Live[s].pv)], T)
    BY DEF Sum, SumFunction
<1>3. T \in SUBSET Streamed
    OBVIOUS
<1> HIDE DEF T
<1>4. Streamed \in SUBSET Sessions /\ T \in SUBSET Sessions
    BY <1>3, MonthIsFinite
<1>5. LivePvBelowAcu(Streamed, LastDay) = SumFunctionOnSet(Viewed, T)
    BY <1>1, <1>2, <1>4, ViewsSum
<1>6. IsFiniteSet(Streamed) /\ \A s \in Streamed : Viewed[s] \in Nat
    BY <1>4, ViewsSum
<1>7. SumFunctionOnSet(Viewed, T) <= SumFunctionOnSet(Viewed, Streamed)
    BY <1>3, <1>6, SumGrows
<1>8. SearchSummary({}, Streamed).pv = SumFunctionOnSet(Viewed, Streamed)
    <2>1. {} \in SUBSET Videos
        OBVIOUS
    <2> QED BY <1>4, <2>1, SearchIsSum
<1> QED BY <1>5, <1>7, <1>8

OnAirOn(d) == {s \in MonthSessions : Live[s].day = d}
OnAirBy(d) == {s \in MonthSessions : Live[s].day <= d}

LEMMA LiveDayIsSum ==
    ASSUME NEW d \in InMonth
    PROVE  /\ LiveDay(d).pv = SumFunctionOnSet(Viewed, OnAirOn(d))
           /\ LiveDay(d).totalPv = SumFunctionOnSet(Viewed, OnAirBy(d))
<1> DEFINE on == {s \in MonthSessions : Live[s].day = d}
           by == {s \in MonthSessions : Live[s].day <= d}
<1>1. /\ LiveDay(d).pv = SumFunctionOnSet([s \in on |-> OrZero(Live[s].pv)], on)
      /\ LiveDay(d).totalPv = SumFunctionOnSet([s \in by |-> OrZero(Live[s].pv)], by)
    BY DEF LiveDay, Sum, SumFunction
<1>2. on = OnAirOn(d) /\ by = OnAirBy(d)
    BY DEF OnAirOn, OnAirBy
<1>3. OnAirOn(d) \in SUBSET Sessions /\ OnAirBy(d) \in SUBSET Sessions
    BY MonthIsFinite DEF OnAirOn, OnAirBy
<1> HIDE DEF on, by
<1> QED BY <1>1, <1>2, <1>3, ViewsSum

LEMMA ViewsAgree ==
    ASSUME TablesOK
    PROVE  /\ ProjectReport.pv = LiveDay(Month[2]).totalPv
           /\ ProjectReport.pv = LiveSummary(Streamed, Month).pv
<1>1. Month[2] \in InMonth
    BY Numbers DEF InMonth
<1>2. OnAirBy(Month[2]) = MonthSessions
    <2>1. \A s \in MonthSessions : Live[s].day <= Month[2]
        BY MonthIsFinite DEF InMonth
    <2> QED BY <2>1 DEF OnAirBy
<1> DEFINE inMonth == {s \in Streamed : Live[s].day \in InRange(Month)}
<1>3. inMonth = MonthSessions
    BY DEF MonthSessions, InRange, InMonth
<1>4. LiveSummary(Streamed, Month).pv = SumFunctionOnSet([s \in inMonth |-> OrZero(Live[s].pv)], inMonth)
    BY DEF LiveSummary, Sum, SumFunction
<1> HIDE DEF inMonth
<1>5. LiveSummary(Streamed, Month).pv = SumFunctionOnSet(Viewed, MonthSessions)
    <2>1. MonthSessions \in SUBSET Sessions
        BY MonthIsFinite
    <2> QED BY <1>3, <1>4, <2>1, ViewsSum
<1> QED BY <1>1, <1>2, <1>5, CardIsSum, LiveDayIsSum

LEMMA TotalsDoAgree == TablesOK => TotalsAgree
<1> SUFFICES ASSUME TablesOK PROVE TotalsAgree
    OBVIOUS
<1>1. ProjectReport.play = SearchSummary(MonthVideos, Streamed).play
    BY CardIsSum, SearchIsSum, MonthIsFinite
<1> QED BY <1>1, FinalPlaysAddUp, LastRowIsCard, AuthorTotalsAgree, BelowAcuIsPart, ViewsAgree DEF TotalsAgree

-----------------------------------------------------------------------------
(* Columns of the connector's report. *)

LEMMA VideosAddUp ==
    ASSUME TablesOK, NEW d \in InMonth
    PROVE  VideoDay(d).videos = Sum(Month[1] .. d, LAMBDA e : VideoDay(e).newVideos)
<1> DEFINE K == Month[1] .. d
           C == [e \in K |-> OutOn(e)]
           G == [e \in K |-> VideoDay(e).newVideos]
           S == OutBy(d)
<1>1. Sum(K, LAMBDA e : VideoDay(e).newVideos) = SumFunctionOnSet(G, K)
    BY DEF Sum, SumFunction
<1>2. d \in Int /\ Month[1] \in Int /\ K \in SUBSET InMonth /\ IsFiniteSet(K)
    <2>1. d \in Int /\ Month[1] \in Int /\ Month[2] \in Int /\ d <= Month[2]
        BY Numbers DEF InMonth
    <2>2. K \in SUBSET InMonth
        BY <2>1 DEF InMonth
    <2>3. IsFiniteSet(K)
        BY <2>1, FS_Interval
    <2> QED BY <2>1, <2>2, <2>3
<1>3. \A e \in K : G[e] = Cardinality(C[e])
    <2> SUFFICES ASSUME NEW e \in K PROVE VideoDay(e).newVideos = Cardinality(OutOn(e))
        OBVIOUS
    <2> QED BY <1>2, VideoDayIsSum
<1>4. S \in SUBSET MonthVideos /\ IsFiniteSet(S)
    BY MonthIsFinite, FS_Subset DEF OutBy
<1>5. \A v \in S : PublishDay[v] \in K
    BY MonthIsFinite DEF OutBy, InMonth
<1>6. \A e \in K : C[e] = {v \in S : PublishDay[v] = e}
    <2> SUFFICES ASSUME NEW e \in K PROVE OutOn(e) = {v \in S : PublishDay[v] = e}
        OBVIOUS
    <2>1. \A v \in MonthVideos : PublishDay[v] = e => PublishDay[v] <= d
        BY <1>2
    <2> QED BY <2>1 DEF OutOn, OutBy
<1>7. VideoDay(d).videos = Cardinality(S)
    BY VideoDayIsSum
<1> HIDE DEF C, G, S, K
<1>8. Cardinality(S) = SumFunctionOnSet(G, K)
    <2>1. IsFiniteSet(S) /\ IsFiniteSet(K)
        BY <1>2, <1>4
    <2> QED BY <1>3, <1>5, <1>6, <2>1, CountOfClasses
<1> QED BY <1>1, <1>7, <1>8 DEF K

LEMMA ViewsAddUp ==
    ASSUME TablesOK, NEW d \in InMonth
    PROVE  LiveDay(d).totalPv = Sum(Month[1] .. d, LAMBDA e : LiveDay(e).pv)
<1> DEFINE K == Month[1] .. d
           C == [e \in K |-> OnAirOn(e)]
           G == [e \in K |-> LiveDay(e).pv]
           S == OnAirBy(d)
           P == [s \in S |-> Live[s].day]
<1>1. Sum(K, LAMBDA e : LiveDay(e).pv) = SumFunctionOnSet(G, K)
    BY DEF Sum, SumFunction
<1>2. d \in Int /\ Month[1] \in Int /\ K \in SUBSET InMonth /\ IsFiniteSet(K)
    <2>1. d \in Int /\ Month[1] \in Int /\ Month[2] \in Int /\ d <= Month[2]
        BY Numbers DEF InMonth
    <2>2. K \in SUBSET InMonth
        BY <2>1 DEF InMonth
    <2>3. IsFiniteSet(K)
        BY <2>1, FS_Interval
    <2> QED BY <2>1, <2>2, <2>3
<1>3. \A e \in K : G[e] = SumFunctionOnSet(Viewed, C[e])
    <2> SUFFICES ASSUME NEW e \in K PROVE LiveDay(e).pv = SumFunctionOnSet(Viewed, OnAirOn(e))
        OBVIOUS
    <2> QED BY <1>2, LiveDayIsSum
<1>4. S \in SUBSET MonthSessions /\ IsFiniteSet(S)
    BY MonthIsFinite, FS_Subset DEF OnAirBy
<1>5. \A s \in S : P[s] \in K
    BY MonthIsFinite DEF OnAirBy, InMonth
<1>6. \A e \in K : C[e] = {s \in S : P[s] = e}
    <2> SUFFICES ASSUME NEW e \in K PROVE OnAirOn(e) = {s \in S : P[s] = e}
        OBVIOUS
    <2>1. \A s \in MonthSessions : Live[s].day = e => Live[s].day <= d
        BY <1>2
    <2> QED BY <2>1 DEF OnAirOn, OnAirBy
<1>7. LiveDay(d).totalPv = SumFunctionOnSet(Viewed, S)
    BY LiveDayIsSum
<1>8. \A s \in S : Viewed[s] \in Int
    <2>1. S \in SUBSET Sessions
        BY <1>4, MonthIsFinite
    <2> HIDE DEF S
    <2>2. \A s \in S : Viewed[s] \in Nat
        BY <2>1, ViewsSum
    <2> QED BY <2>2
<1> HIDE DEF C, G, S, K, P
<1>9. SumFunctionOnSet(Viewed, S) = SumFunctionOnSet(G, K)
    <2>1. IsFiniteSet(S) /\ IsFiniteSet(K)
        BY <1>2, <1>4
    <2> QED BY <1>3, <1>5, <1>6, <1>8, <2>1, SumOfClasses
<1> QED BY <1>1, <1>7, <1>9 DEF K

\* Everyone who first appears in the month appears on one of its days.
LEMMA AuthorsAddUp ==
    ASSUME TablesOK, NEW d \in InMonth
    PROVE  VideoDay(d).authors = Sum(Month[1] .. d, LAMBDA e : VideoDay(e).newAuthors)
<1> DEFINE N == Names({AuthorOf[v] : v \in MonthVideos})
           P == [a \in N |-> FirstDay(a)]
           K == Month[1] .. d
           G == [e \in K |-> VideoDay(e).newAuthors]
           S == {a \in N : P[a] <= d}
           New == [e \in K |-> {a \in S : P[a] = e}]
<1>1. IsFiniteSet(N)
    <2>1. IsFiniteSet({AuthorOf[v] : v \in MonthVideos})
        BY MonthIsFinite, ImageIsFinite
    <2> QED BY <2>1, FS_Subset DEF Names
<1>2. ASSUME NEW a \in N PROVE P[a] \in InMonth
    <2> DEFINE D == {PublishDay[v] : v \in {w \in MonthVideos : AuthorOf[w] = a}}
    <2>1. D \in SUBSET InMonth
        BY MonthIsFinite
    <2>2. D # {}
        BY DEF Names
    <2>3. InMonth \in SUBSET Days
        BY Numbers DEF InMonth, Days
    <2>4. P[a] = Min(D)
        BY DEF FirstDay
    <2> HIDE DEF D, P, N
    <2> QED BY <2>1, <2>2, <2>3, <2>4, FirstIsFirst
<1>3. ASSUME NEW e \in K PROVE G[e] = Cardinality(New[e])
    <2>1. New[e] = {a \in N : FirstDay(a) = e}
        <3>1. \A a \in N : P[a] = FirstDay(a) /\ (P[a] = e => P[a] <= d)
            BY Numbers DEF InMonth
        <3> QED BY <3>1
    <2>2. G[e] = VideoDay(e).newAuthors
        OBVIOUS
    <2>3. VideoDay(e).newAuthors = Cardinality({a \in N : FirstDay(a) = e})
        BY DEF VideoDay
    <2> QED BY <2>1, <2>2, <2>3
<1>4. VideoDay(d).authors = Cardinality(S)
    <2>1. S = {a \in N : FirstDay(a) <= d}
        OBVIOUS
    <2> HIDE DEF P, S
    <2> QED BY <2>1 DEF VideoDay
<1>5. Sum(K, LAMBDA e : VideoDay(e).newAuthors) = SumFunctionOnSet(G, K)
    BY DEF Sum, SumFunction
<1>6. IsFiniteSet(S) /\ IsFiniteSet(K)
    <2>1. S \in SUBSET N
        OBVIOUS
    <2>2. IsFiniteSet(K)
        BY Numbers, FS_Interval DEF InMonth
    <2> HIDE DEF S, N, K
    <2> QED BY <1>1, <2>1, <2>2, FS_Subset
<1>7. \A a \in S : P[a] \in K
    <2> SUFFICES ASSUME NEW a \in S PROVE P[a] \in K
        OBVIOUS
    <2>1. a \in N /\ P[a] <= d
        OBVIOUS
    <2> HIDE DEF P, N, S
    <2>2. P[a] \in InMonth
        BY <1>2, <2>1
    <2> QED BY <2>1, <2>2, Numbers DEF InMonth
<1>8. \A e \in K : New[e] = {a \in S : P[a] = e}
    OBVIOUS
<1> HIDE DEF N, P, K, G, S, New
<1>9. Cardinality(S) = SumFunctionOnSet(G, K)
    BY <1>3, <1>6, <1>7, <1>8, CountOfClasses
<1> QED BY <1>4, <1>5, <1>9 DEF K

LEMMA AnchorsAddUp ==
    ASSUME TablesOK, NEW d \in InMonth
    PROVE  LiveDay(d).anchors = Sum(Month[1] .. d, LAMBDA e : LiveDay(e).newAnchors)
<1> DEFINE N == Names({Live[s].anchor : s \in MonthSessions})
           P == [a \in N |-> FirstLive(a)]
           K == Month[1] .. d
           G == [e \in K |-> LiveDay(e).newAnchors]
           S == {a \in N : P[a] <= d}
           New == [e \in K |-> {a \in S : P[a] = e}]
<1>1. IsFiniteSet(N)
    <2> DEFINE f == [s \in MonthSessions |-> Live[s].anchor]
               T == {Live[s].anchor : s \in MonthSessions}
    <2>1. T = {f[s] : s \in MonthSessions} /\ IsFiniteSet(MonthSessions)
        BY MonthIsFinite
    <2>2. N \in SUBSET T
        BY DEF Names
    <2> HIDE DEF f, T, N
    <2>3. IsFiniteSet(T)
        BY <2>1, ImageIsFinite
    <2> QED BY <2>2, <2>3, FS_Subset
<1>2. ASSUME NEW a \in N PROVE P[a] \in InMonth
    <2> DEFINE D == {Live[s].day : s \in {t \in MonthSessions : Live[t].anchor = a}}
    <2>1. D \in SUBSET InMonth
        BY MonthIsFinite
    <2>2. D # {}
        BY DEF Names
    <2>3. InMonth \in SUBSET Days
        BY Numbers DEF InMonth, Days
    <2>4. P[a] = Min(D)
        BY DEF FirstLive
    <2> HIDE DEF D, P, N
    <2> QED BY <2>1, <2>2, <2>3, <2>4, FirstIsFirst
<1>3. ASSUME NEW e \in K PROVE G[e] = Cardinality(New[e])
    <2>1. New[e] = {a \in N : FirstLive(a) = e}
        <3>1. \A a \in N : P[a] = FirstLive(a) /\ (P[a] = e => P[a] <= d)
            BY Numbers DEF InMonth
        <3> QED BY <3>1
    <2>2. G[e] = LiveDay(e).newAnchors
        OBVIOUS
    <2>3. LiveDay(e).newAnchors = Cardinality({a \in N : FirstLive(a) = e})
        BY DEF LiveDay
    <2> QED BY <2>1, <2>2, <2>3
<1>4. LiveDay(d).anchors = Cardinality(S)
    <2>1. S = {a \in N : FirstLive(a) <= d}
        OBVIOUS
    <2> HIDE DEF P, S
    <2> QED BY <2>1 DEF LiveDay
<1>5. Sum(K, LAMBDA e : LiveDay(e).newAnchors) = SumFunctionOnSet(G, K)
    BY DEF Sum, SumFunction
<1>6. IsFiniteSet(S) /\ IsFiniteSet(K)
    <2>1. S \in SUBSET N
        OBVIOUS
    <2>2. IsFiniteSet(K)
        BY Numbers, FS_Interval DEF InMonth
    <2> HIDE DEF S, N, K
    <2> QED BY <1>1, <2>1, <2>2, FS_Subset
<1>7. \A a \in S : P[a] \in K
    <2> SUFFICES ASSUME NEW a \in S PROVE P[a] \in K
        OBVIOUS
    <2>1. a \in N /\ P[a] <= d
        OBVIOUS
    <2> HIDE DEF P, N, S
    <2>2. P[a] \in InMonth
        BY <1>2, <2>1
    <2> QED BY <2>1, <2>2, Numbers DEF InMonth
<1>8. \A e \in K : New[e] = {a \in S : P[a] = e}
    OBVIOUS
<1> HIDE DEF N, P, K, G, S, New
<1>9. Cardinality(S) = SumFunctionOnSet(G, K)
    BY <1>3, <1>6, <1>7, <1>8, CountOfClasses
<1> QED BY <1>4, <1>5, <1>9 DEF K

LEMMA ColumnsDoAddUp == TablesOK => ColumnsAddUp
BY VideosAddUp, AuthorsAddUp, AnchorsAddUp, ViewsAddUp DEF ColumnsAddUp

LEMMA GrowthDoesReach == TablesOK => GrowthReachesTotal
BY GrowthReaches, PresentIsFinite DEF GrowthReachesTotal

\* Whatever the imports have written, and whatever readers are doing, the queries of the
\* endpoints, the connector and the card give the same figure where they promise the same
\* one (query.rs, audit_extra_query.rs, data_sync.rs, project_report.rs).
THEOREM FiguresAlwaysAgree ==
    ReportsSpec => [](RangesAgree /\ TotalsAgree /\ ColumnsAddUp /\ GrowthReachesTotal)
<1>1. RInv => RangesAgree /\ TotalsAgree /\ ColumnsAddUp /\ GrowthReachesTotal
    BY RangesDoAgree, TotalsDoAgree, ColumnsDoAddUp, GrowthDoesReach DEF RInv
<1> QED BY <1>1, AlwaysRInv, PTL

\* The same as the run checks it, in the states without a reader.
THEOREM FiguresAgree == ReportsSpec => []ReportsAgree
<1>1. RangesAgree /\ TotalsAgree /\ ColumnsAddUp /\ GrowthReachesTotal => ReportsAgree
    BY DEF ReportsAgree
<1> QED BY <1>1, FiguresAlwaysAgree, PTL

-----------------------------------------------------------------------------
(* The query cache. *)

USE CacheConstants

-----------------------------------------------------------------------------
(* Type correctness. *)

DbOK == /\ data \in Versions /\ gone \in [Versions -> 0 .. Long]
        /\ rev \in 0 .. MaxRev /\ base \in [0 .. MaxRev -> Versions]

ReaderOK == /\ at \in [Readers -> Places] /\ held \in [Readers -> 0 .. MaxRev]
            /\ got \in [Readers -> Versions] /\ age \in [Readers -> 0 .. LoadTime]

CacheOK == cache \subseteq Entry

WriterOK == wr \in [Writers -> {"idle", "wrote", "bumped"}]

LEMMA Parts == TypeOK <=> DbOK /\ ReaderOK /\ CacheOK /\ WriterOK
BY DEF TypeOK, DbOK, ReaderOK, CacheOK, WriterOK

LEMMA GoneOK == ASSUME ReaderOK, NEW R, Gone(R) PROVE ReaderOK'
BY DEF ReaderOK, Gone, Places, Versions

LEMMA TypedInit == Init => TypeOK
<1> SUFFICES ASSUME Init PROVE TypeOK
    OBVIOUS
<1>1. DbOK BY DEF Init, DbOK, Versions, Long
<1>2. ReaderOK BY DEF Init, ReaderOK, Versions, Places
<1>3. CacheOK BY DEF Init, CacheOK
<1>4. WriterOK BY DEF Init, WriterOK
<1> QED BY <1>1, <1>2, <1>3, <1>4, Parts

LEMMA TypedNext == TypeOK /\ [Next]_vars => TypeOK'
<1> SUFFICES ASSUME TypeOK, [Next]_vars PROVE TypeOK'
    OBVIOUS
<1>t. DbOK /\ ReaderOK /\ CacheOK /\ WriterOK BY Parts
<1>g. DbOK' /\ ReaderOK' /\ CacheOK' /\ WriterOK' => TypeOK'
    BY DEF TypeOK, DbOK, ReaderOK, CacheOK, WriterOK
<1>1. ASSUME NEW r \in Readers, Begin(r) \/ Hit(r) \/ Miss(r) \/ Load(r) PROVE TypeOK'
    <2>1. DbOK' /\ WriterOK'
        BY <1>1, <1>t DEF Begin, Hit, Miss, Load, db, DbOK, WriterOK
    <2>2. CacheOK' BY <1>1, <1>t DEF Begin, Hit, Miss, Load, CacheOK
    <2>3. ReaderOK'
        <3>1. CASE Begin(r) BY <3>1, <1>t DEF Begin, Goes, ReaderOK, DbOK, Places
        <3>2. CASE Hit(r)
            <4>1. PICK e \in Mine(r, held[r]) :
                      Goes(r, "answered") /\ got' = [got EXCEPT ![r] = e.value]
                BY <3>2 DEF Hit
            <4>2. e.value \in Versions BY <1>t DEF Mine, CacheOK, Entry
            <4> QED BY <3>2, <4>1, <4>2, <1>t DEF Hit, Goes, ReaderOK, Places
        <3>3. CASE Miss(r) BY <3>3, <1>t DEF Miss, Goes, ReaderOK, Places
        <3>4. CASE Load(r) BY <3>4, <1>t DEF Load, Goes, ReaderOK, DbOK, Places
        <3> QED BY <1>1, <3>1, <3>2, <3>3, <3>4
    <2> QED BY <1>g, <2>1, <2>2, <2>3
<1>2. ASSUME NEW r \in Readers, Insert(r) \/ NotKept(r) \/ Leave(r) PROVE TypeOK'
    <2>1. DbOK' /\ WriterOK'
        BY <1>2, <1>t DEF Insert, NotKept, Leave, db, DbOK, WriterOK
    <2>2. CacheOK'
        <3>1. Home[r] \in Nodes /\ held[r] \in 0 .. MaxRev /\ got[r] \in Versions
            BY <1>t DEF ReaderOK
        <3>2. [node |-> Home[r], rev |-> held[r], value |-> got[r], age |-> 0] \in Entry
            BY <3>1 DEF Entry
        <3> QED BY <1>2, <1>t, <3>2 DEF Insert, NotKept, Leave, CacheOK
    <2>3. ReaderOK'
        <3>1. CASE Insert(r) \/ NotKept(r)
            BY <3>1, <1>t DEF Insert, NotKept, Goes, ReaderOK, Places
        <3>2. CASE Leave(r) BY <3>2, <1>t, GoneOK DEF Leave
        <3> QED BY <1>2, <3>1, <3>2
    <2> QED BY <1>g, <2>1, <2>2, <2>3
<1>3. ASSUME NEW w \in Writers,
             Write(w) \/ Invalidate(w) \/ InvalidateAll(w) \/ Drop(w)
      PROVE  TypeOK'
    <2>1. DbOK'
        <3>1. CASE Write(w) BY <3>1, <1>t DEF Write, DbOK, Versions, Long
        <3>2. CASE Invalidate(w) BY <3>2, <1>t DEF Invalidate, DbOK
        <3>3. CASE InvalidateAll(w) \/ Drop(w)
            BY <3>3, <1>t DEF InvalidateAll, Drop, DbOK, db
        <3> QED BY <1>3, <3>1, <3>2, <3>3
    <2>2. CacheOK' BY <1>3, <1>t DEF Write, Invalidate, InvalidateAll, Drop, CacheOK
    <2>3. ReaderOK'
        BY <1>3, <1>t DEF Write, Invalidate, InvalidateAll, Drop, reader, ReaderOK
    <2>4. WriterOK' BY <1>3, <1>t DEF Write, Invalidate, InvalidateAll, Drop, WriterOK
    <2> QED BY <1>g, <2>1, <2>2, <2>3, <2>4
<1>4. ASSUME NEW e \in cache, Evict(e) PROVE TypeOK'
    BY <1>4, <1>t, <1>g DEF Evict, db, reader, DbOK, ReaderOK, CacheOK, WriterOK
<1>5. ASSUME NEW n \in Nodes, Crash(n) PROVE TypeOK'
    <2>1. ReaderOK' BY <1>5, <1>t, GoneOK DEF Crash
    <2>2. DbOK' /\ CacheOK' BY <1>5, <1>t DEF Crash, db, DbOK, CacheOK
    <2>3. WriterOK' BY <1>5, <1>t DEF Crash, WriterOK
    <2> QED BY <1>g, <2>1, <2>2, <2>3
<1>6. CASE Tick
    <2>1. gone' \in [Versions -> 0 .. Long]
        BY <1>6, <1>t DEF Tick, DbOK, Long, Versions
    <2>2. DbOK' BY <1>6, <1>t, <2>1 DEF Tick, DbOK
    <2>3. ReaderOK' BY <1>6, <1>t DEF Tick, ReaderOK
    <2>4. CacheOK'
        <3>1. ASSUME NEW f \in cache, f.age + 1 < TTL
              PROVE  [node |-> f.node, rev |-> f.rev, value |-> f.value,
                      age |-> f.age + 1] \in Entry
            <4>1. f \in Entry BY <1>t DEF CacheOK
            <4> QED BY <3>1, <4>1 DEF Entry
        <3> QED BY <1>6, <3>1 DEF Tick, Older, CacheOK
    <2>5. WriterOK' BY <1>6, <1>t DEF Tick, WriterOK
    <2> QED BY <1>g, <2>2, <2>3, <2>4, <2>5
<1>7. CASE UNCHANGED vars
    BY <1>7, <1>t, <1>g DEF vars, db, reader, DbOK, ReaderOK, CacheOK, WriterOK
<1> QED BY <1>1, <1>2, <1>3, <1>4, <1>5, <1>6, <1>7 DEF Next

\* The variables of the cache keep their types.
THEOREM TypeCorrect == Spec => []TypeOK
BY TypedInit, TypedNext, PTL DEF Spec

-----------------------------------------------------------------------------
(* Freshness.                                                               *)

\* An entry, and an answer on its way, is at least as new as what its revision
\* was opened with, and nobody is ahead of the revision of the database.
Fresh ==
    /\ \A k \in 0 .. MaxRev : base[k] <= data
    /\ \A e \in cache : e.rev <= rev /\ base[e.rev] <= e.value /\ e.value <= data
    /\ \A r \in Readers : at[r] # "idle" => held[r] <= rev
    /\ \A r \in Readers :
          at[r] \in {"loaded", "answered"} => base[held[r]] <= got[r] /\ got[r] <= data

LEMMA FreshInit == Init => Fresh
BY DEF Init, Fresh

LEMMA FreshNext == TypeOK /\ Fresh /\ [Next]_vars => Fresh'
<1> SUFFICES ASSUME TypeOK, Fresh, [Next]_vars PROVE Fresh'
    OBVIOUS
<1>t. DbOK /\ ReaderOK /\ CacheOK /\ WriterOK BY Parts
<1>d. data \in Nat /\ rev \in Nat BY <1>t DEF DbOK, Versions
<1>1. ASSUME NEW r \in Readers, Begin(r) PROVE Fresh'
    BY <1>1, <1>t, <1>d DEF Begin, Goes, db, Fresh, ReaderOK, DbOK
<1>2. ASSUME NEW r \in Readers, Hit(r) PROVE Fresh'
    <2>1. PICK e \in Mine(r, held[r]) :
              Goes(r, "answered") /\ got' = [got EXCEPT ![r] = e.value]
        BY <1>2 DEF Hit
    <2>2. base[held[r]] <= e.value /\ e.value <= data BY DEF Mine, Fresh
    <2>3. at[r] = "begun" BY <1>2 DEF Hit
    <2> QED BY <1>2, <2>1, <2>2, <2>3, <1>t DEF Hit, Goes, db, Fresh, ReaderOK
<1>3. ASSUME NEW r \in Readers, Miss(r) PROVE Fresh'
    BY <1>3, <1>t DEF Miss, Goes, db, Fresh, ReaderOK
<1>4. ASSUME NEW r \in Readers, Load(r) PROVE Fresh'
    <2>1. base[held[r]] <= data BY <1>t DEF Fresh, ReaderOK
    <2> QED BY <1>4, <2>1, <1>t, <1>d DEF Load, Goes, db, Fresh, ReaderOK
<1>5. ASSUME NEW r \in Readers, Insert(r) PROVE Fresh'
    <2> DEFINE new == [node |-> Home[r], rev |-> held[r], value |-> got[r], age |-> 0]
    <2>1. /\ held[r] <= rev /\ base[held[r]] <= got[r] /\ got[r] <= data
        BY <1>5 DEF Insert, Fresh
    <2>2. \A e \in cache' : e \in cache \/ e = new BY <1>5 DEF Insert
    <2>3. new.rev = held[r] /\ new.value = got[r] OBVIOUS
    <2>4. \A e \in cache' : e.rev <= rev /\ base[e.rev] <= e.value /\ e.value <= data
        BY <2>1, <2>2, <2>3 DEF Fresh
    <2> HIDE DEF new
    <2> QED BY <1>5, <2>1, <2>4, <1>t DEF Insert, Goes, db, Fresh, ReaderOK
<1>6. ASSUME NEW r \in Readers, NotKept(r) PROVE Fresh'
    BY <1>6, <1>t DEF NotKept, Goes, db, Fresh, ReaderOK
<1>7. ASSUME NEW r \in Readers, Leave(r) PROVE Fresh'
    BY <1>7, <1>t DEF Leave, Gone, db, Fresh, ReaderOK
<1>8. ASSUME NEW w \in Writers, Write(w) PROVE Fresh'
    BY <1>8, <1>t, <1>d DEF Write, reader, Fresh, DbOK, ReaderOK, CacheOK, Entry, Versions
<1>9. ASSUME NEW w \in Writers, Invalidate(w) PROVE Fresh'
    <2>1. /\ data' = data /\ rev' = rev + 1 /\ cache' = cache /\ UNCHANGED reader
          /\ \A k \in 0 .. MaxRev : base'[k] = IF k = rev + 1 THEN data ELSE base[k]
        BY <1>9, <1>t DEF Invalidate, DbOK
    <2>2. \A e \in cache : e.rev \in 0 .. MaxRev /\ e.rev # rev + 1
        BY <1>t, <1>d DEF Fresh, CacheOK, Entry
    <2>3. \A r \in Readers : held[r] \in 0 .. MaxRev
        BY <1>t DEF ReaderOK
    <2>4. \A r \in Readers : at[r] # "idle" => held[r] # rev + 1
        BY <2>3, <1>d DEF Fresh
    <2>5. \A k \in 0 .. MaxRev : base'[k] <= data' BY <2>1, <1>d DEF Fresh
    <2>6. \A e \in cache' :
             e.rev <= rev' /\ base'[e.rev] <= e.value /\ e.value <= data'
        BY <2>1, <2>2, <1>d DEF Fresh
    <2>7. \A r \in Readers : at'[r] # "idle" => held'[r] <= rev'
        BY <2>1, <2>3, <1>d DEF Fresh, reader
    <2>8. \A r \in Readers :
             at'[r] \in {"loaded", "answered"} =>
                 base'[held'[r]] <= got'[r] /\ got'[r] <= data'
        BY <2>1, <2>3, <2>4 DEF Fresh, reader
    <2> QED BY <2>5, <2>6, <2>7, <2>8 DEF Fresh
<1>10. ASSUME NEW w \in Writers, InvalidateAll(w) \/ Drop(w) PROVE Fresh'
    BY <1>10 DEF InvalidateAll, Drop, db, reader, Fresh
<1>11. ASSUME NEW e \in cache, Evict(e) PROVE Fresh'
    BY <1>11 DEF Evict, db, reader, Fresh
<1>12. ASSUME NEW n \in Nodes, Crash(n) PROVE Fresh'
    BY <1>12, <1>t DEF Crash, Gone, db, Fresh, ReaderOK
<1>13. CASE Tick
    <2>1. /\ UNCHANGED <<data, rev, base, at, held, got>>
        BY <1>13 DEF Tick
    <2>2. \A e \in cache' : \E f \in cache : e.rev = f.rev /\ e.value = f.value
        BY <1>13 DEF Tick, Older
    <2>3. \A e \in cache' : e.rev <= rev /\ base[e.rev] <= e.value /\ e.value <= data
        BY <2>2 DEF Fresh
    <2> QED BY <2>1, <2>3 DEF Fresh
<1>14. CASE UNCHANGED vars BY <1>14 DEF vars, db, reader, Fresh
<1> QED BY <1>1, <1>2, <1>3, <1>4, <1>5, <1>6, <1>7, <1>8, <1>9, <1>10, <1>11,
           <1>12, <1>13, <1>14 DEF Next

\* A reader answers with what its entry or its load gives.
LEMMA Answers ==
    ASSUME TypeOK, Fresh, NEW r \in Readers, at[r] \in {"begun", "loaded"},
           Goes(r, "answered"), NEW v \in Versions, got' = [got EXCEPT ![r] = v],
           base[held[r]] <= v, v <= data, UNCHANGED <<db, held>>
    PROVE  Reads!Answer(r)
<1>t. DbOK /\ ReaderOK BY Parts
<1>1. phase[r] = "reading" BY DEF phase
<1>2. phase' = [phase EXCEPT ![r] = "answered"]
    BY <1>t DEF phase, Goes, ReaderOK
<1>3. low[r] = base[held[r]] BY DEF low
<1>4. low' = low BY <1>t DEF low, Goes, db, ReaderOK
<1>5. base[held[r]] \in Nat /\ data \in Nat BY <1>t DEF ReaderOK, DbOK, Versions
<1>6. v \in low[r] .. data BY <1>3, <1>5 DEF Versions
<1>7. answer' = [answer EXCEPT ![r] = v]
    BY <1>t DEF answer, Goes, ReaderOK
<1>8. data' = data /\ base'[rev'] = base[rev] BY DEF db
<1> QED BY <1>1, <1>2, <1>4, <1>6, <1>7, <1>8 DEF Reads!Answer

LEMMA Leaves ==
    ASSUME NEW R \in SUBSET Readers, Gone(R), UNCHANGED db
    PROVE  Reads!Leave(R)
<1>1. phase' = [r \in Readers |-> IF r \in R THEN "idle" ELSE phase[r]]
    BY DEF phase, Gone
<1>2. low' = [r \in Readers |-> IF r \in R THEN 0 ELSE low[r]]
    BY DEF low, Gone, db
<1>3. answer' = [r \in Readers |-> IF r \in R THEN 0 ELSE answer[r]]
    BY DEF answer, Gone
<1>4. data' = data /\ base'[rev'] = base[rev] BY DEF db
<1> QED BY <1>1, <1>2, <1>3, <1>4 DEF Reads!Leave

LEMMA NextRefines == TypeOK /\ Fresh /\ [Next]_vars => [Reads!Next]_(Reads!vars)
<1> SUFFICES ASSUME TypeOK, Fresh, [Next]_vars PROVE Reads!Next \/ UNCHANGED Reads!vars
    OBVIOUS
<1>t. DbOK /\ ReaderOK /\ CacheOK BY Parts
<1>1. ASSUME NEW r \in Readers, Begin(r) PROVE Reads!Next
    <2>1. phase[r] = "idle" /\ phase' = [phase EXCEPT ![r] = "reading"]
        BY <1>1, <1>t DEF Begin, Goes, phase, ReaderOK
    <2>2. low' = [low EXCEPT ![r] = base[rev]]
        BY <1>1, <1>t DEF Begin, Goes, low, db, ReaderOK
    <2>3. answer' = answer BY <1>1, <1>t DEF Begin, Goes, answer, ReaderOK
    <2>4. data' = data /\ base'[rev'] = base[rev] BY <1>1 DEF Begin, db
    <2>5. Reads!Begin(r) BY <2>1, <2>2, <2>3, <2>4 DEF Reads!Begin
    <2> QED BY <2>5 DEF Reads!Next
<1>2. ASSUME NEW r \in Readers, Hit(r) PROVE Reads!Next
    <2>1. PICK e \in Mine(r, held[r]) :
              Goes(r, "answered") /\ got' = [got EXCEPT ![r] = e.value]
        BY <1>2 DEF Hit
    <2>2. base[held[r]] <= e.value /\ e.value <= data BY DEF Mine, Fresh
    <2>3. e.value \in Versions BY <1>t DEF Mine, CacheOK, Entry
    <2>4. Reads!Answer(r) BY <1>2, <2>1, <2>2, <2>3, Answers DEF Hit
    <2> QED BY <2>4 DEF Reads!Next
<1>3. ASSUME NEW r \in Readers, Miss(r) \/ Load(r) PROVE UNCHANGED Reads!vars
    <2>1. phase' = phase BY <1>3, <1>t DEF Miss, Load, Goes, phase, ReaderOK
    <2>2. low' = low BY <1>3, <1>t DEF Miss, Load, Goes, low, db, ReaderOK
    <2>3. answer' = answer BY <1>3, <1>t DEF Miss, Load, Goes, answer, ReaderOK
    <2>4. data' = data /\ base'[rev'] = base[rev] BY <1>3 DEF Miss, Load, db
    <2> QED BY <2>1, <2>2, <2>3, <2>4 DEF Reads!vars
<1>4. ASSUME NEW r \in Readers, Insert(r) \/ NotKept(r) PROVE Reads!Next
    <2>1. /\ at[r] = "loaded" /\ Goes(r, "answered") /\ UNCHANGED <<db, held>>
          /\ got' = got
        BY <1>4 DEF Insert, NotKept
    <2>2. got' = [got EXCEPT ![r] = got[r]] /\ got[r] \in Versions
        BY <2>1, <1>t DEF ReaderOK
    <2>3. base[held[r]] <= got[r] /\ got[r] <= data BY <2>1 DEF Fresh
    <2>4. Reads!Answer(r) BY <2>1, <2>2, <2>3, Answers
    <2> QED BY <2>4 DEF Reads!Next
<1>5. ASSUME NEW r \in Readers, Leave(r) PROVE Reads!Next
    <2>1. Reads!Leave({r}) BY <1>5, Leaves DEF Leave
    <2> QED BY <2>1 DEF Reads!Next
<1>6. ASSUME NEW w \in Writers, Write(w) PROVE Reads!Next
    <2>1. data' = data + 1 /\ UNCHANGED <<rev, base, reader>> BY <1>6 DEF Write
    <2>2. phase' = phase /\ low' = low /\ answer' = answer
        BY <2>1 DEF reader, phase, low, answer
    <2>3. Reads!Write BY <2>1, <2>2 DEF Reads!Write
    <2> QED BY <2>3 DEF Reads!Next
<1>7. ASSUME NEW w \in Writers, Invalidate(w) PROVE Reads!Next
    <2>1. /\ rev < MaxRev /\ rev' = rev + 1 /\ data' = data /\ UNCHANGED reader
          /\ base' = [base EXCEPT ![rev + 1] = data]
        BY <1>7 DEF Invalidate
    <2>2. rev \in Nat /\ rev + 1 \in 0 .. MaxRev BY <2>1, <1>t DEF DbOK
    <2>3. base'[rev'] = data BY <2>1, <2>2, <1>t DEF DbOK
    <2>4. \A r \in Readers : at[r] # "idle" => base'[held[r]] = base[held[r]]
        <3> SUFFICES ASSUME NEW r \in Readers, at[r] # "idle"
                     PROVE  base'[held[r]] = base[held[r]]
            OBVIOUS
        <3>1. held[r] \in 0 .. MaxRev /\ held[r] <= rev
            BY <1>t DEF ReaderOK, Fresh
        <3> QED BY <2>1, <2>2, <3>1, <1>t DEF DbOK
    <2>5. low' = low BY <2>1, <2>4 DEF low, reader
    <2>6. phase' = phase /\ answer' = answer BY <2>1 DEF reader, phase, answer
    <2>7. Reads!Settle BY <2>1, <2>3, <2>5, <2>6 DEF Reads!Settle
    <2> QED BY <2>7 DEF Reads!Next
<1>8. ASSUME NEW w \in Writers, InvalidateAll(w) \/ Drop(w) PROVE UNCHANGED Reads!vars
    BY <1>8 DEF InvalidateAll, Drop, db, reader, phase, low, answer, Reads!vars
<1>9. ASSUME NEW e \in cache, Evict(e) PROVE UNCHANGED Reads!vars
    BY <1>9 DEF Evict, db, reader, phase, low, answer, Reads!vars
<1>10. ASSUME NEW n \in Nodes, Crash(n) PROVE Reads!Next
    <2> DEFINE R == {r \in Readers : Home[r] = n}
    <2>1. Reads!Leave(R) BY <1>10, Leaves DEF Crash
    <2> QED BY <2>1 DEF Reads!Next
<1>11. CASE Tick
    BY <1>11 DEF Tick, phase, low, answer, Reads!vars
<1>12. CASE UNCHANGED vars
    BY <1>12 DEF vars, db, reader, phase, low, answer, Reads!vars
<1> QED BY <1>1, <1>2, <1>3, <1>4, <1>5, <1>6, <1>7, <1>8, <1>9, <1>10, <1>11, <1>12
        DEF Next

\* The cache implements fresh reads: whatever nodes, readers and writers do, no
\* read answers with less than what was invalidated before it began.
THEOREM CacheRefines == Spec => AnswersAreFresh
<1>1. Init => Reads!Init
    BY DEF Init, Reads!Init, phase, low, answer
<1>2. TypeOK /\ Fresh /\ [Next]_vars => [Reads!Next]_(Reads!vars) BY NextRefines
<1> QED BY <1>1, <1>2, TypedInit, TypedNext, FreshInit, FreshNext, PTL
        DEF Spec, AnswersAreFresh, Reads!Spec

-----------------------------------------------------------------------------
(* Recency.                                                                 *)

\* A version is the latest one or was replaced t ago at most.
Young(v, t) == v = data \/ (v < data /\ gone[v] <= t)

Recent ==
    /\ \A e \in cache : Young(e.value, e.age + LoadTime)
    /\ \A r \in Readers : at[r] = "loaded" => Young(got[r], age[r])

LEMMA YoungWrite ==
    ASSUME DbOK, NEW w \in Writers, Write(w), NEW v \in Versions, NEW t \in Nat, Young(v, t)
    PROVE  Young(v, t)'
<1>1. /\ data' = data + 1 /\ data \in Nat /\ v \in Nat
      /\ \A u \in Versions : gone'[u] = IF u = data THEN 0 ELSE gone[u]
    BY DEF Write, DbOK, Versions
<1>2. CASE v = data BY <1>1, <1>2 DEF Young
<1>3. CASE v < data /\ gone[v] <= t BY <1>1, <1>3 DEF Young
<1> QED BY <1>2, <1>3 DEF Young

LEMMA YoungTick ==
    ASSUME DbOK, Tick, NEW v \in Versions, NEW t \in Nat, Young(v, t)
    PROVE  Young(v, t + 1)'
<1>1. data' = data /\ gone[v] \in Nat BY DEF Tick, DbOK
<1>2. gone'[v] <= gone[v] + 1 BY <1>1 DEF Tick
<1>3. gone'[v] \in Nat BY <1>1 DEF Tick
<1> QED BY <1>1, <1>2, <1>3 DEF Young

LEMMA RecentNext == TypeOK /\ Recent /\ [Next]_vars => Recent'
<1> SUFFICES ASSUME TypeOK, Recent, [Next]_vars PROVE Recent'
    OBVIOUS
<1>t. DbOK /\ ReaderOK /\ CacheOK BY Parts
<1>e. \A e \in cache : e.value \in Versions /\ e.age \in 0 .. TTL - 1
    BY <1>t DEF CacheOK, Entry
<1>f. ASSUME UNCHANGED <<data, gone>>, NEW v, NEW t, Young(v, t) PROVE Young(v, t)'
    BY <1>f DEF Young
<1>1. ASSUME NEW r \in Readers, Begin(r) \/ Hit(r) \/ Miss(r) PROVE Recent'
    BY <1>1, <1>t DEF Begin, Hit, Miss, Goes, db, Recent, Young, ReaderOK
<1>2. ASSUME NEW r \in Readers, Load(r) PROVE Recent'
    BY <1>2, <1>t DEF Load, Goes, db, Recent, Young, ReaderOK
<1>3. ASSUME NEW r \in Readers, Insert(r) PROVE Recent'
    <2> DEFINE new == [node |-> Home[r], rev |-> held[r], value |-> got[r], age |-> 0]
    <2>1. Young(got[r], age[r]) BY <1>3 DEF Insert, Recent
    <2>2. age[r] \in 0 .. LoadTime /\ got[r] \in Versions BY <1>t DEF ReaderOK
    <2>3. gone[got[r]] \in Nat BY <2>2, <1>t DEF DbOK
    <2>4. Young(got[r], 0 + LoadTime) BY <2>1, <2>2, <2>3 DEF Young
    <2>5. new.value = got[r] /\ new.age = 0 OBVIOUS
    <2>6. \A e \in cache' : e \in cache \/ e = new BY <1>3 DEF Insert
    <2>7. UNCHANGED <<data, gone, got>> BY <1>3 DEF Insert, db
    <2>8. Young(new.value, new.age + LoadTime) BY <2>4, <2>5
    <2> HIDE DEF new
    <2>9. \A e \in cache' : Young(e.value, e.age + LoadTime)'
        BY <2>6, <2>7, <2>8 DEF Recent, Young
    <2>10. \A q \in Readers : at'[q] = "loaded" => at[q] = "loaded" /\ age'[q] = age[q]
        BY <1>3, <1>t DEF Insert, Goes, ReaderOK
    <2> QED BY <2>7, <2>9, <2>10 DEF Recent, Young
<1>4. ASSUME NEW r \in Readers, NotKept(r) \/ Leave(r) PROVE Recent'
    BY <1>4, <1>t DEF NotKept, Leave, Gone, Goes, db, Recent, Young, ReaderOK
<1>5. ASSUME NEW w \in Writers, Write(w) PROVE Recent'
    <2>1. UNCHANGED <<cache, at, got, age>> BY <1>5 DEF Write, reader
    <2>2. \A e \in cache : Young(e.value, e.age + LoadTime)'
        BY <1>5, <1>t, <1>e, YoungWrite DEF Recent
    <2>3. \A r \in Readers : at'[r] = "loaded" => Young(got[r], age[r])'
        <3> SUFFICES ASSUME NEW r \in Readers, at'[r] = "loaded"
                     PROVE  Young(got[r], age[r])'
            OBVIOUS
        <3>1. PICK u \in Versions : u = got[r] BY <1>t DEF ReaderOK
        <3>2. PICK t \in Nat : t = age[r] BY <1>t DEF ReaderOK
        <3>3. Young(u, t) BY <2>1, <3>1, <3>2 DEF Recent
        <3>4. Young(u, t)' BY <1>5, <1>t, <3>3, YoungWrite
        <3> QED BY <2>1, <3>1, <3>2, <3>4 DEF Young
    <2> QED BY <2>1, <2>2, <2>3 DEF Recent, Young
<1>6. ASSUME NEW w \in Writers, Invalidate(w) \/ InvalidateAll(w) \/ Drop(w) PROVE Recent'
    BY <1>6 DEF Invalidate, InvalidateAll, Drop, db, reader, Recent, Young
<1>7. ASSUME NEW e \in cache, Evict(e) PROVE Recent'
    BY <1>7 DEF Evict, db, reader, Recent, Young
<1>8. ASSUME NEW n \in Nodes, Crash(n) PROVE Recent'
    BY <1>8, <1>t DEF Crash, Gone, db, Recent, Young, ReaderOK
<1>9. CASE Tick
    <2>1. \A e \in cache' : Young(e.value, e.age + LoadTime)'
        <3> SUFFICES ASSUME NEW e \in cache' PROVE Young(e.value, e.age + LoadTime)'
            OBVIOUS
        <3>1. PICK f \in cache : e.value = f.value /\ e.age = f.age + 1
            BY <1>9 DEF Tick, Older
        <3>2. Young(f.value, f.age + LoadTime) BY DEF Recent
        <3>3. f.value \in Versions /\ f.age + LoadTime \in Nat BY <1>e
        <3>4. Young(f.value, f.age + LoadTime + 1)'
            BY <1>9, <1>t, <3>2, <3>3, YoungTick
        <3>5. e.age + LoadTime = f.age + LoadTime + 1 BY <3>1, <1>e
        <3> QED BY <3>1, <3>4, <3>5 DEF Young
    <2>2. \A r \in Readers : at'[r] = "loaded" => Young(got[r], age[r])'
        <3> SUFFICES ASSUME NEW r \in Readers, at'[r] = "loaded"
                     PROVE  Young(got[r], age[r])'
            OBVIOUS
        <3>1. PICK u \in Versions : u = got[r] BY <1>t DEF ReaderOK
        <3>2. PICK t \in Nat : t = age[r] BY <1>t DEF ReaderOK
        <3>3. at[r] = "loaded" /\ got'[r] = u /\ age'[r] = t + 1
            BY <1>9, <1>t, <3>1, <3>2 DEF Tick, ReaderOK
        <3>4. Young(u, t) BY <3>1, <3>2, <3>3 DEF Recent
        <3>5. Young(u, t + 1)' BY <1>9, <1>t, <3>4, YoungTick
        <3> QED BY <3>3, <3>5 DEF Young
    <2> QED BY <1>9, <2>1, <2>2 DEF Recent
<1>10. CASE UNCHANGED vars BY <1>10 DEF vars, db, reader, Recent, Young
<1> QED BY <1>1, <1>2, <1>3, <1>4, <1>5, <1>6, <1>7, <1>8, <1>9, <1>10 DEF Next

LEMMA RecentStep ==
    ASSUME TypeOK, Recent, [Next]_vars, NEW r \in Readers,
           at[r] # "answered", at'[r] = "answered"
    PROVE  got'[r] = data \/ gone[got'[r]] < TTL + LoadTime
<1>t. DbOK /\ ReaderOK /\ CacheOK BY Parts
<1>1. Hit(r) \/ Insert(r) \/ NotKept(r)
    <2>1. ASSUME NEW q \in Readers,
                 \/ Begin(q) \/ Hit(q) \/ Miss(q) \/ Load(q)
                 \/ Insert(q) \/ NotKept(q) \/ Leave(q)
          PROVE  q = r /\ (Hit(q) \/ Insert(q) \/ NotKept(q))
        BY <2>1, <1>t DEF Begin, Hit, Miss, Load, Insert, NotKept, Leave, Gone, Goes, ReaderOK
    <2>2. ASSUME NEW w \in Writers, Write(w) \/ Invalidate(w) \/ InvalidateAll(w) \/ Drop(w)
          PROVE  FALSE
        BY <2>2 DEF Write, Invalidate, InvalidateAll, Drop, reader
    <2>3. ASSUME NEW e \in cache, Evict(e) PROVE FALSE BY <2>3 DEF Evict, reader
    <2>4. ASSUME NEW n \in Nodes, Crash(n) PROVE FALSE BY <2>4 DEF Crash, Gone
    <2>5. CASE Tick BY <2>5 DEF Tick
    <2>6. CASE UNCHANGED vars BY <2>6 DEF vars, reader
    <2> QED BY <2>1, <2>2, <2>3, <2>4, <2>5, <2>6 DEF Next
<1>2. CASE Hit(r)
    <2>1. PICK e \in Mine(r, held[r]) : got' = [got EXCEPT ![r] = e.value]
        BY <1>2 DEF Hit
    <2>2. e \in cache /\ e \in Entry BY <1>t DEF Mine, CacheOK
    <2>3. e.value \in Versions /\ e.age \in 0 .. TTL - 1 BY <2>2 DEF Entry
    <2>4. Young(e.value, e.age + LoadTime) BY <2>2 DEF Recent
    <2>5. gone[e.value] \in Nat BY <2>3, <1>t DEF DbOK
    <2>6. got'[r] = e.value BY <2>1, <1>t DEF ReaderOK
    <2> QED BY <2>3, <2>4, <2>5, <2>6 DEF Young
<1>3. CASE Insert(r) \/ NotKept(r)
    <2>1. got' = got /\ at[r] = "loaded" BY <1>3 DEF Insert, NotKept
    <2>2. Young(got[r], age[r]) BY <2>1 DEF Recent
    <2>3. got[r] \in Versions /\ age[r] \in 0 .. LoadTime BY <1>t DEF ReaderOK
    <2>4. gone[got[r]] \in Nat BY <2>3, <1>t DEF DbOK
    <2> QED BY <2>1, <2>2, <2>3, <2>4 DEF Young
<1> QED BY <1>1, <1>2, <1>3

\* No answer shows data that was replaced longer ago than the time to live and
\* a load, even if no invalidation ever succeeds.
THEOREM StalenessIsBounded == Spec => AnswersAreRecent
<1>1. Init => Recent BY DEF Init, Recent
<1>2. TypeOK /\ Recent /\ [Next]_vars =>
          \A r \in Readers : at[r] # "answered" /\ at'[r] = "answered" =>
              got'[r] = data \/ gone[got'[r]] < TTL + LoadTime
    BY RecentStep
<1> QED BY <1>1, <1>2, TypedInit, TypedNext, RecentNext, PTL DEF Spec, AnswersAreRecent

\* Answers are fresh, and where an invalidation was lost they are recent
\* (QueryCache::get_or_try_insert), for every number of nodes and readers.
THEOREM CacheIsSound == Spec => ReadsAreSound
BY CacheRefines, StalenessIsBounded DEF ReadsAreSound
=============================================================================
