------------------------------ MODULE SumProofs ------------------------------
(***************************************************************************)
(* Sums over finite sets, as the biller forms them: SumFunctionOnSet and   *)
(* SumFunction of the community modules.  They are defined by a recursive  *)
(* function that takes the elements in the order CHOOSE gives, so first    *)
(* that function is shown to exist and to be unique, then that the order   *)
(* does not matter.  An induction is a minimal counterexample: the least   *)
(* number, or the smallest subset, for which a claim fails.                *)
(***************************************************************************)
EXTENDS FiniteSetsExt, FiniteSetTheorems, TLAPS

\* Every set of natural numbers that is not empty has a least element.
LEMMA MinimalNumber ==
    ASSUME NEW T, T \subseteq Nat, T # {}
    PROVE  \E n \in T : \A m \in T : n <= m
<1>1. IsWellFoundedOn(OpToRel(<, Nat), Nat)
    BY NatLessThanWellFounded
<1>2. PICK n \in T : \A m \in T : ~ (<<m, n>> \in OpToRel(<, Nat))
    BY <1>1, WFMin, Zenon
<1>3. ASSUME NEW m \in T PROVE n <= m
    <2>1. <<m, n>> \in OpToRel(<, Nat) <=> m < n
        BY DEF OpToRel
    <2>2. ~ (m < n)
        BY <1>2, <2>1
    <2>3. m \in Nat /\ n \in Nat
        OBVIOUS
    <2> QED BY <2>2, <2>3
<1> QED BY <1>3

\* Every set of subsets of a finite set has a smallest one, if any.
LEMMA MinimalSubset ==
    ASSUME NEW D, IsFiniteSet(D), NEW T, T \subseteq SUBSET D, T # {}
    PROVE  \E s \in T : \A t \in T : ~ (t \subseteq s /\ t # s)
<1> DEFINE R == StrictSubsetOrdering(D)
<1>1. IsWellFoundedOn(R, SUBSET D)
    BY FS_StrictSubsetOrderingWellFounded, FS_FiniteSubsetsOfFinite
<1>2. PICK s \in T : \A t \in T : ~ (<<t, s>> \in R)
    <2> HIDE DEF R
    <2> QED BY <1>1, WFMin, Zenon
<1>3. ASSUME NEW t \in T PROVE ~ (t \subseteq s /\ t # s)
    BY <1>2 DEF StrictSubsetOrdering
<1> QED BY <1>3

\* The element that a sum takes next.
Choice(s) == CHOOSE x \in s : TRUE

\* It is one of those that are left.
LEMMA ChoiceMember == ASSUME NEW s, s # {} PROVE Choice(s) \in s
BY DEF Choice

\* h maps every subset of S to the sum of f over it, in that order.
Adds(f, S, h) ==
    h = [s \in SUBSET S |-> IF s = {} THEN 0
                            ELSE f[Choice(s)] + h[s \ {Choice(s)}]]

\* There is such a function, for a finite set: otherwise take the least size of
\* subset for which there is none.
LEMMA AddsExists ==
    ASSUME NEW S, IsFiniteSet(S), NEW f, \A x \in S : f[x] \in Nat
    PROVE  \E h : Adds(f, S, h) /\ h \in [SUBSET S -> Nat]
<1> DEFINE U(n) == {s \in SUBSET S : Cardinality(s) <= n}
           Good(n, h) == /\ h \in [U(n) -> Nat]
                         /\ \A s \in U(n) :
                              h[s] = IF s = {} THEN 0
                                     ELSE f[Choice(s)] + h[s \ {Choice(s)}]
           Bad == {n \in Nat : ~ \E h : Good(n, h)}
<1>1. \A s \in SUBSET S : /\ IsFiniteSet(s) /\ Cardinality(s) \in Nat
                          /\ Cardinality(s) = 0 <=> s = {}
    BY FS_Subset, FS_CardinalityType, FS_EmptySet
<1>2. ASSUME NEW s \in SUBSET S, s # {}
      PROVE  /\ Choice(s) \in s /\ s \ {Choice(s)} \in SUBSET S
             /\ Cardinality(s \ {Choice(s)}) = Cardinality(s) - 1
    BY <1>1, <1>2, ChoiceMember, FS_RemoveElement
<1>3. 0 \notin Bad
    <2>1. U(0) = {{}}
        BY <1>1
    <2>2. Good(0, [s \in U(0) |-> 0])
        BY <2>1
    <2> QED BY <2>2
<1>4. ASSUME NEW n \in Nat, n \notin Bad PROVE n + 1 \notin Bad
    <2>1. PICK h : Good(n, h)
        BY <1>4
    <2> DEFINE k == [s \in U(n + 1) |->
                        IF s = {} THEN 0
                        ELSE f[Choice(s)] + h[s \ {Choice(s)}]]
    <2>2. ASSUME NEW s \in U(n + 1), s # {}
          PROVE  s \ {Choice(s)} \in U(n) /\ f[Choice(s)] \in Nat
        BY <1>1, <1>2, <2>2
    <2>3. U(n) \subseteq U(n + 1)
        BY <1>1
    <2>4. k \in [U(n + 1) -> Nat]
        <3> SUFFICES ASSUME NEW s \in U(n + 1) PROVE k[s] \in Nat
            OBVIOUS
        <3>1. CASE s = {}
            BY <3>1
        <3>2. CASE s # {}
            <4> HIDE DEF U
            <4> QED BY <2>1, <2>2, <3>2
        <3> QED BY <3>1, <3>2
    <2>5. \A s \in U(n) : k[s] = h[s]
        <3> HIDE DEF U
        <3> QED BY <2>1, <2>3
    <2>6. \A s \in U(n + 1) : k[s] = IF s = {} THEN 0
                                     ELSE f[Choice(s)] + k[s \ {Choice(s)}]
        <3> HIDE DEF U
        <3> QED BY <2>2, <2>5
    <2>7. Good(n + 1, k)
        BY <2>4, <2>6
    <2> QED BY <2>7
<1>5. Bad = {}
    <2> SUFFICES ASSUME Bad # {} PROVE FALSE
        OBVIOUS
    <2>1. Bad \subseteq Nat
        OBVIOUS
    <2> HIDE DEF Bad
    <2>2. PICK n \in Bad : \A m \in Bad : n <= m
        BY <2>1, MinimalNumber
    <2>3. n \in Nat /\ n # 0
        BY <1>3, <2>1
    <2>4. n - 1 \in Nat /\ n - 1 \notin Bad
        BY <2>1, <2>2, <2>3
    <2>5. (n - 1) + 1 = n
        BY <2>3
    <2> QED BY <1>4, <2>4, <2>5
<1>6. Cardinality(S) \in Nat /\ U(Cardinality(S)) = SUBSET S
    BY <1>1, FS_Subset
<1>7. PICK h : Good(Cardinality(S), h)
    BY <1>5, <1>6
<1>8. /\ h \in [SUBSET S -> Nat]
      /\ \A s \in SUBSET S : h[s] = IF s = {} THEN 0
                                     ELSE f[Choice(s)] + h[s \ {Choice(s)}]
    <2> HIDE DEF U
    <2> QED BY <1>6, <1>7
<1>9. Adds(f, S, h)
    BY <1>8 DEF Adds
<1> QED BY <1>8, <1>9

\* The sum over a finite set is what such a function makes of it.
LEMMA SumAddsUp ==
    ASSUME NEW S, IsFiniteSet(S), NEW f, \A x \in S : f[x] \in Nat
    PROVE  \E h : /\ Adds(f, S, h) /\ h \in [SUBSET S -> Nat]
                  /\ SumFunctionOnSet(f, S) = h[S]
<1> DEFINE h == CHOOSE h : Adds(f, S, h)
<1>1. PICK k : Adds(f, S, k) /\ k \in [SUBSET S -> Nat]
    BY AddsExists
<1>2. Adds(f, S, h)
    BY <1>1
<1>3. SumFunctionOnSet(f, S) = h[S]
    BY DEF Adds, Choice, SumFunctionOnSet, FoldFunctionOnSet, MapThenFoldSet
<1> HIDE DEF h
<1>4. \A s \in SUBSET S : h[s] \in Nat
    <2> DEFINE T == {s \in SUBSET S : h[s] \notin Nat}
    <2> SUFFICES ASSUME T # {} PROVE FALSE
        OBVIOUS
    <2>1. PICK s \in T : \A t \in T : ~ (t \subseteq s /\ t # s)
        <3>1. T \subseteq SUBSET S
            OBVIOUS
        <3> HIDE DEF T
        <3> QED BY <3>1, MinimalSubset
    <2>2. h[s] = IF s = {} THEN 0 ELSE f[Choice(s)] + h[s \ {Choice(s)}]
        BY <1>2 DEF Adds
    <2>3. s # {}
        BY <2>2
    <2>4. Choice(s) \in s /\ s \ {Choice(s)} \subseteq s /\ s \ {Choice(s)} # s
        BY <2>3, ChoiceMember
    <2>5. h[s \ {Choice(s)}] \in Nat
        BY <2>1, <2>4
    <2>6. f[Choice(s)] \in Nat
        BY <2>4
    <2> QED BY <2>2, <2>3, <2>5, <2>6
<1>5. h \in [SUBSET S -> Nat]
    BY <1>2, <1>4 DEF Adds
<1> QED BY <1>2, <1>3, <1>5

\* There is only one such function, and that of a subset agrees with it.
LEMMA AddsUnique ==
    ASSUME NEW S, IsFiniteSet(S), NEW f, NEW h, Adds(f, S, h),
           NEW R \in SUBSET S, NEW k, Adds(f, R, k)
    PROVE  \A s \in SUBSET R : h[s] = k[s]
<1> DEFINE T == {s \in SUBSET R : h[s] # k[s]}
<1> SUFFICES ASSUME T # {} PROVE FALSE
    OBVIOUS
<1>1. PICK s \in T : \A t \in T : ~ (t \subseteq s /\ t # s)
    <2>1. T \subseteq SUBSET S
        OBVIOUS
    <2> HIDE DEF T
    <2> QED BY <2>1, MinimalSubset
<1>2. /\ h[s] = IF s = {} THEN 0 ELSE f[Choice(s)] + h[s \ {Choice(s)}]
      /\ k[s] = IF s = {} THEN 0 ELSE f[Choice(s)] + k[s \ {Choice(s)}]
    BY DEF Adds
<1>3. s # {}
    BY <1>2
<1>4. Choice(s) \in s /\ s \ {Choice(s)} \subseteq s /\ s \ {Choice(s)} # s
    BY <1>3, ChoiceMember
<1>5. h[s \ {Choice(s)}] = k[s \ {Choice(s)}]
    BY <1>1, <1>4
<1> QED BY <1>2, <1>3, <1>5

\* A sum of natural numbers is a natural number.
LEMMA SumNat ==
    ASSUME NEW S, IsFiniteSet(S), NEW f, \A x \in S : f[x] \in Nat
    PROVE  SumFunctionOnSet(f, S) \in Nat
<1>1. PICK h : h \in [SUBSET S -> Nat] /\ SumFunctionOnSet(f, S) = h[S]
    BY SumAddsUp
<1> QED BY <1>1

\* The function of a set gives the sum over every subset.
LEMMA SumSubset ==
    ASSUME NEW S, IsFiniteSet(S), NEW f, \A x \in S : f[x] \in Nat,
           NEW h, Adds(f, S, h), NEW s \in SUBSET S
    PROVE  SumFunctionOnSet(f, s) = h[s]
<1>1. IsFiniteSet(s) /\ \A x \in s : f[x] \in Nat
    BY FS_Subset
<1>2. PICK k : Adds(f, s, k) /\ SumFunctionOnSet(f, s) = k[s]
    BY <1>1, SumAddsUp
<1> QED BY <1>2, AddsUnique

\* The sum of nothing.
LEMMA SumEmpty ==
    ASSUME NEW f
    PROVE  SumFunctionOnSet(f, {}) = 0
<1>1. PICK h : /\ Adds(f, {}, h)
               /\ SumFunctionOnSet(f, {}) = h[{}]
    BY SumAddsUp, FS_EmptySet
<1> QED BY <1>1 DEF Adds

\* One more element adds its value, whenever CHOOSE takes it up: otherwise take
\* the smallest set for which that fails.
LEMMA SumAdd ==
    ASSUME NEW S, IsFiniteSet(S), NEW f, \A x \in S : f[x] \in Nat,
           NEW x, x \notin S, f[x] \in Nat
    PROVE  SumFunctionOnSet(f, S \cup {x}) = f[x] + SumFunctionOnSet(f, S)
<1> DEFINE D == S \cup {x}
<1>1. IsFiniteSet(D) /\ \A y \in D : f[y] \in Nat
    BY FS_AddElement
<1>2. PICK h : Adds(f, D, h) /\ h \in [SUBSET D -> Nat]
    BY <1>1, SumAddsUp
<1>3. \A s \in SUBSET D : h[s] = IF s = {} THEN 0
                                 ELSE f[Choice(s)] + h[s \ {Choice(s)}]
    BY <1>2 DEF Adds
<1> HIDE DEF D
<1> DEFINE T == {s \in SUBSET D : \E y \in D \ s : h[s \cup {y}] # f[y] + h[s]}
<1>4. T = {}
    <2> SUFFICES ASSUME T # {} PROVE FALSE
        OBVIOUS
    <2>1. T \subseteq SUBSET D
        OBVIOUS
    <2>2. PICK s \in T : \A t \in T : ~ (t \subseteq s /\ t # s)
        <3> HIDE DEF T
        <3> QED BY <1>1, <2>1, MinimalSubset
    <2>3. PICK y \in D \ s : h[s \cup {y}] # f[y] + h[s]
        OBVIOUS
    <2> DEFINE c == Choice(s \cup {y})
    <2>4. /\ c \in s \cup {y}
          /\ h[s \cup {y}] = f[c] + h[(s \cup {y}) \ {c}]
        BY <1>3, ChoiceMember
    <2> HIDE DEF c
    <2>5. CASE c = y
        <3>1. (s \cup {y}) \ {c} = s
            BY <2>5
        <3> QED BY <2>3, <2>4, <2>5, <3>1
    <2>6. CASE c # y
        <3>1. c \in s /\ (s \cup {y}) \ {c} = (s \ {c}) \cup {y}
            BY <2>4, <2>6
        <3> DEFINE t == s \ {c}
        <3>2. /\ t \in SUBSET D /\ t \subseteq s /\ t # s
              /\ y \in D \ t /\ c \in D \ t /\ t \cup {c} = s
            BY <2>1, <3>1
        <3>3. t \notin T
            BY <2>2, <3>2
        <3>4. /\ h[t \cup {y}] = f[y] + h[t]
              /\ h[t \cup {c}] = f[c] + h[t]
            BY <3>2, <3>3
        <3>5. f[y] \in Nat /\ f[c] \in Nat /\ h[t] \in Nat
            BY <1>1, <1>2, <3>2
        <3>6. h[s \cup {y}] = f[c] + h[t \cup {y}] /\ h[s] = f[c] + h[t]
            BY <2>4, <3>1, <3>2, <3>4
        <3> HIDE DEF t, T
        <3> QED BY <2>3, <3>4, <3>5, <3>6
    <2> QED BY <2>5, <2>6
<1>5. h[S \cup {x}] = f[x] + h[S]
    BY <1>4 DEF D
<1>6. SumFunctionOnSet(f, S \cup {x}) = h[S \cup {x}]
    BY <1>1, <1>2, SumSubset DEF D
<1>7. SumFunctionOnSet(f, S) = h[S]
    BY <1>1, <1>2, SumSubset DEF D
<1> QED BY <1>5, <1>6, <1>7

\* Functions that agree on a set have the same sum over it.
LEMMA SumSame ==
    ASSUME NEW S, NEW f, NEW g, \A x \in S : f[x] = g[x]
    PROVE  SumFunctionOnSet(f, S) = SumFunctionOnSet(g, S)
<1>1. \A s \in SUBSET S : s # {} => f[Choice(s)] = g[Choice(s)]
    BY ChoiceMember
<1>2. \A h : Adds(f, S, h) <=> Adds(g, S, h)
    BY <1>1 DEF Adds
<1>3. SumFunctionOnSet(f, S) = (CHOOSE h : Adds(f, S, h))[S]
    BY DEF Adds, Choice, SumFunctionOnSet, FoldFunctionOnSet, MapThenFoldSet
<1>4. SumFunctionOnSet(g, S) = (CHOOSE h : Adds(g, S, h))[S]
    BY DEF Adds, Choice, SumFunctionOnSet, FoldFunctionOnSet, MapThenFoldSet
<1>5. (CHOOSE h : Adds(f, S, h)) = (CHOOSE h : Adds(g, S, h))
    BY <1>2
<1> QED BY <1>3, <1>4, <1>5

\* g is f, but for x, where it has grown by d.
Grows(f, g, S, x, d) ==
    /\ IsFiniteSet(S) /\ \A y \in S : f[y] \in Nat
    /\ x \in S /\ d \in Nat /\ g[x] = f[x] + d
    /\ \A y \in S \ {x} : g[y] = f[y]

\* When one value grows, the sum grows by as much.
THEOREM SumGrows ==
    ASSUME NEW f, NEW g, NEW S, NEW x, NEW d, Grows(f, g, S, x, d)
    PROVE  SumFunctionOnSet(g, S) = SumFunctionOnSet(f, S) + d
<1> USE DEF Grows
<1> DEFINE R == S \ {x}
<1>1. /\ IsFiniteSet(R) /\ x \notin R /\ R \cup {x} = S
      /\ \A y \in R : f[y] \in Nat /\ g[y] \in Nat /\ g[y] = f[y]
      /\ f[x] \in Nat /\ g[x] \in Nat
    BY FS_RemoveElement
<1> HIDE DEF R
<1>2. SumFunctionOnSet(f, R \cup {x}) = f[x] + SumFunctionOnSet(f, R)
    BY <1>1, SumAdd
<1>3. SumFunctionOnSet(g, R \cup {x}) = g[x] + SumFunctionOnSet(g, R)
    BY <1>1, SumAdd
<1>4. SumFunctionOnSet(g, R) = SumFunctionOnSet(f, R)
    BY <1>1, SumSame
<1>5. SumFunctionOnSet(f, R) \in Nat
    BY <1>1, SumNat
<1> QED BY <1>1, <1>2, <1>3, <1>4, <1>5

\* m matches the elements of R to those of S, one to one and with equal values.
Matches(f, S, g, R, m) ==
    /\ \A r \in R : m[r] \in S /\ g[r] = f[m[r]]
    /\ \A r, q \in R : m[r] = m[q] => r = q
    /\ \A x \in S : \E r \in R : m[r] = x

\* Values that are matched one to one have the same sum: otherwise take the
\* smallest set whose matches add up to something else.
LEMMA SumReindex ==
    ASSUME NEW f, NEW S, NEW g, NEW R, NEW m, Matches(f, S, g, R, m),
           IsFiniteSet(S), \A x \in S : f[x] \in Nat
    PROVE  SumFunctionOnSet(g, R) = SumFunctionOnSet(f, S)
<1> USE DEF Matches
<1> DEFINE Back(s) == {r \in R : m[r] \in s}
           T == {s \in SUBSET S : ~ /\ IsFiniteSet(Back(s))
                                    /\ SumFunctionOnSet(g, Back(s)) = SumFunctionOnSet(f, s)}
<1>1. T = {}
    <2> SUFFICES ASSUME T # {} PROVE FALSE
        OBVIOUS
    <2>1. T \subseteq SUBSET S
        OBVIOUS
    <2>2. PICK s \in T : \A t \in T : ~ (t \subseteq s /\ t # s)
        <3> HIDE DEF T
        <3> QED BY <2>1, MinimalSubset
    <2>3. CASE s = {}
        <3>1. Back(s) = {}
            BY <2>3
        <3> HIDE DEF Back
        <3> QED BY <2>3, <3>1, SumEmpty, FS_EmptySet
    <2>4. CASE s # {}
        <3>1. PICK x \in s : TRUE
            BY <2>4
        <3>2. PICK q \in R : m[q] = x
            BY <2>1, <3>1
        <3> DEFINE t == s \ {x}
        <3>3. t \in SUBSET S /\ t \notin T /\ t \cup {x} = s /\ x \notin t /\ x \in S
            <4>1. /\ t \in SUBSET S /\ t \subseteq s /\ t # s
                  /\ t \cup {x} = s /\ x \notin t /\ x \in S
                BY <2>1, <3>1
            <4> HIDE DEF t, T
            <4> QED BY <2>2, <4>1
        <3>4. IsFiniteSet(Back(t)) /\ SumFunctionOnSet(g, Back(t)) = SumFunctionOnSet(f, t)
            BY <3>3
        <3>5. Back(s) = Back(t) \cup {q} /\ q \notin Back(t)
            BY <3>1, <3>2, <3>3
        <3>6. IsFiniteSet(t) /\ \A y \in t \cup {x} : f[y] \in Nat
            BY <3>3, FS_Subset
        <3>7. g[q] = f[x] /\ \A r \in Back(t) \cup {q} : g[r] \in Nat
            BY <3>2, <3>3, <3>6
        <3> HIDE DEF Back, t
        <3>8. SumFunctionOnSet(f, t \cup {x}) = f[x] + SumFunctionOnSet(f, t)
            BY <3>3, <3>6, SumAdd
        <3>9. SumFunctionOnSet(g, Back(t) \cup {q}) = g[q] + SumFunctionOnSet(g, Back(t))
            BY <3>4, <3>5, <3>7, SumAdd
        <3>10. IsFiniteSet(Back(s))
            BY <3>4, <3>5, FS_AddElement
        <3>11. SumFunctionOnSet(g, Back(s)) = SumFunctionOnSet(f, s)
            BY <3>3, <3>4, <3>5, <3>7, <3>8, <3>9
        <3> QED BY <3>10, <3>11
    <2> QED BY <2>3, <2>4
<1>2. Back(S) = R
    OBVIOUS
<1> QED BY <1>1, <1>2
==============================================================================
