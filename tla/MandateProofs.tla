--------------------------- MODULE MandateProofs ----------------------------
(***************************************************************************)
(* The v1 mandates.  What `narrows` promises, for mandates of any size and *)
(* chains of any length; that the flow decides about a checkout's line     *)
(* items, for carts of any size; and what concurrent calls of the v1       *)
(* verifier authorise, for any number of threads and calls, any requests   *)
(* and any clock.                                                          *)
(***************************************************************************)
EXTENDS MandateCalls, MandateChain, FiniteSetTheorems, SequenceTheorems, TLAPS

\* A non-empty set of naturals has a least element; the inductions over data
\* below take the least counterexample.
LEMMA LeastNatural ==
    ASSUME NEW T, T \subseteq Nat, T # {}
    PROVE  \E n \in T : \A m \in T : n <= m
<1> DEFINE R == OpToRel(<, Nat)
<1>1. \A x, y \in Nat : y < x => <<y, x>> \in R
    BY DEF OpToRel
<1>2. IsWellFoundedOn(R, Nat)
    BY NatLessThanWellFounded
<1> HIDE DEF R
<1>3. PICK n \in T : \A m \in T : ~(<<m, n>> \in R)
    BY <1>2, WFMin
<1>4. ASSUME NEW m \in T PROVE n <= m
    <2>1. n \in Nat /\ m \in Nat
        OBVIOUS
    <2>2. ~(m < n)
        BY <1>1, <1>3, <2>1
    <2>3. QED  BY <2>1, <2>2
<1>5. QED  BY <1>4

-----------------------------------------------------------------------------
\* The merge loop runs: the recursive function of its iterations exists.
LEMMA MergingIsDefined ==
    ASSUME NEW ivs, NEW n \in Nat
    PROVE  merging(ivs, n) =
            [i \in 0 .. n |-> IF i = 0 THEN [rest |-> ivs, union |-> <<>>]
                              ELSE merge_step(merging(ivs, n)[i - 1])]
<1> DEFINE start == [rest |-> ivs, union |-> <<>>]
           runs(f, k) == f = [i \in 0 .. k |-> IF i = 0 THEN start ELSE merge_step(f[i - 1])]
           T == {k \in Nat : ~ \E f : runs(f, k)}
<1>1. \A k \in Nat : \E f : runs(f, k)
    <2> SUFFICES ASSUME T # {} PROVE FALSE
        OBVIOUS
    <2>1. PICK k \in T : \A m \in T : k <= m
        <3>1. T \subseteq Nat  OBVIOUS
        <3>2. QED  BY <3>1, LeastNatural
    <2>2. k \in Nat /\ ~ \E f : runs(f, k)
        OBVIOUS
    <2>3. CASE k = 0
        <3>1. runs([i \in 0 .. 0 |-> start], 0)
            OBVIOUS
        <3>2. QED  BY <2>2, <2>3, <3>1
    <2>4. CASE k # 0
        <3>1. k - 1 \in Nat /\ ~ (k <= k - 1)
            BY <2>2, <2>4
        <3>2. k - 1 \notin T
            <4> HIDE DEF T
            <4>1. QED  BY <2>1, <3>1
        <3>3. PICK g : runs(g, k - 1)
            BY <3>1, <3>2
        <3> DEFINE f == [i \in 0 .. k |-> IF i = k THEN merge_step(g[k - 1]) ELSE g[i]]
        <3>4. \A i \in 0 .. k : i # 0 => f[i - 1] = g[i - 1]
            BY <2>2
        <3>5. \A i \in 0 .. k : f[i] = IF i = 0 THEN start ELSE merge_step(f[i - 1])
            BY <2>2, <2>4, <3>3, <3>4
        <3>6. runs(f, k)
            BY <3>5
        <3>7. QED  BY <2>2, <3>6
    <2>5. QED  BY <2>3, <2>4
<1>2. \E f : runs(f, n)
    BY <1>1
<1>3. runs(CHOOSE f : runs(f, n), n)
    BY <1>2
<1>4. QED  BY <1>3 DEF merging

\* The sort has a first interval to hand to the loop while any is left.
LEMMA FirstIntervalIsLeft ==
    ASSUME NEW rest, rest \subseteq Nat \X Nat, rest # {}
    PROVE  /\ first_interval(rest) \in rest
           /\ \A q \in rest : first_interval(rest)[1] <= q[1]
<1> DEFINE A == {p[1] : p \in rest}
<1>1. A \subseteq Nat /\ A # {}
    OBVIOUS
<1>2. PICK a \in A : \A x \in A : a <= x
    <2> HIDE DEF A
    <2>1. QED  BY <1>1, LeastNatural
<1> DEFINE B == {p[2] : p \in {q \in rest : q[1] = a}}
<1>3. B \subseteq Nat /\ B # {}
    OBVIOUS
<1>4. PICK b \in B : \A x \in B : b <= x
    <2> HIDE DEF B
    <2>1. QED  BY <1>3, LeastNatural
<1>5. PICK p \in rest : p[1] = a /\ p[2] = b
    OBVIOUS
<1>6. ASSUME NEW q \in rest PROVE interval_leq(p, q)
    <2>1. a \in Nat /\ b \in Nat /\ q[1] \in Nat /\ q[2] \in Nat
        BY <1>1, <1>3
    <2>2. a <= q[1]
        BY <1>2
    <2>3. q[1] = a => b <= q[2]
        BY <1>4
    <2>4. QED  BY <1>5, <2>1, <2>2, <2>3 DEF interval_leq
<1>7. /\ first_interval(rest) \in rest
      /\ \A q \in rest : interval_leq(first_interval(rest), q)
    BY <1>6 DEF first_interval
<1> DEFINE iv == first_interval(rest)
<1> HIDE DEF iv
<1>8. ASSUME NEW q \in rest PROVE iv[1] <= q[1]
    <2>1. iv \in Nat \X Nat /\ q \in Nat \X Nat /\ interval_leq(iv, q)
        BY <1>7 DEF iv
    <2>2. QED  BY <2>1 DEF interval_leq
<1>9. QED  BY <1>7, <1>8 DEF iv

\* The minutes of an interval of the union are minutes of the intervals that
\* were merged.
Covered(ivs, lo, hi) ==
    \A m \in Nat : lo <= m /\ m < hi => \E iv \in ivs : iv[1] <= m /\ m < iv[2]

MergeSound(ivs, st) ==
    /\ st.rest \subseteq ivs
    /\ st.union \in Seq(Nat \X Nat)
    /\ \A k \in 1 .. Len(st.union) : Covered(ivs, st.union[k][1], st.union[k][2])

\* One iteration keeps the union within the intervals.
LEMMA MergeStepSound ==
    ASSUME NEW ivs, ivs \subseteq Nat \X Nat, NEW st, MergeSound(ivs, st)
    PROVE  MergeSound(ivs, merge_step(st))
<1>1. CASE st.rest = {}
    BY <1>1 DEF merge_step
<1>2. CASE st.rest # {}
    <2> DEFINE iv == first_interval(st.rest)
               u == st.union
               n == Len(u)
    <2>1. iv \in ivs /\ iv \in Nat \X Nat
        BY <1>2, FirstIntervalIsLeft DEF MergeSound
    <2> HIDE DEF iv
    <2>2. u \in Seq(Nat \X Nat) /\ n \in Nat
        BY DEF MergeSound
    <2>3. \A k \in 1 .. n : Covered(ivs, u[k][1], u[k][2])
        BY DEF MergeSound
    <2>4. Covered(ivs, iv[1], iv[2])
        BY <2>1 DEF Covered
    <2>5. /\ absorb(u, iv) \in Seq(Nat \X Nat)
          /\ \A k \in 1 .. Len(absorb(u, iv)) :
                Covered(ivs, absorb(u, iv)[k][1], absorb(u, iv)[k][2])
        <3>1. CASE n > 0 /\ iv[1] <= u[n][2]
            <4> DEFINE hi == IF u[n][2] < iv[2] THEN iv[2] ELSE u[n][2]
                       w == [u EXCEPT ![n] = <<u[n][1], hi>>]
            <4>1. u[n] \in Nat \X Nat /\ n \in 1 .. n
                BY <2>2, <3>1
            <4>2. hi \in Nat
                BY <2>1, <4>1
            <4>3. absorb(u, iv) = w
                BY <3>1 DEF absorb
            <4>4. w \in Seq(Nat \X Nat) /\ Len(w) = n
                BY <2>2, <4>1, <4>2
            <4>5. Covered(ivs, u[n][1], hi)
                <5>1. Covered(ivs, u[n][1], u[n][2])
                    BY <2>3, <4>1
                <5>2. QED  BY <2>1, <2>4, <3>1, <4>1, <5>1 DEF Covered
            <4>6. \A k \in 1 .. n : w[k] = IF k = n THEN <<u[n][1], hi>> ELSE u[k]
                BY <2>2
            <4> HIDE DEF w, hi
            <4>7. \A k \in 1 .. n : Covered(ivs, w[k][1], w[k][2])
                BY <2>3, <4>5, <4>6
            <4>8. QED  BY <4>3, <4>4, <4>7
        <3>2. CASE ~(n > 0 /\ iv[1] <= u[n][2])
            <4>1. absorb(u, iv) = Append(u, iv)
                BY <3>2 DEF absorb
            <4>2. /\ Append(u, iv) \in Seq(Nat \X Nat) /\ Len(Append(u, iv)) = n + 1
                  /\ \A k \in 1 .. n + 1 : Append(u, iv)[k] = IF k = n + 1 THEN iv ELSE u[k]
                BY <2>1, <2>2
            <4>3. \A k \in 1 .. n + 1 : k # n + 1 => k \in 1 .. n
                BY <2>2
            <4>4. QED  BY <2>3, <2>4, <4>1, <4>2, <4>3
        <3>3. QED  BY <3>1, <3>2
    <2>6. merge_step(st) = [rest |-> st.rest \ {iv}, union |-> absorb(u, iv)]
        BY <1>2 DEF merge_step, iv
    <2>7. st.rest \ {iv} \subseteq ivs
        BY DEF MergeSound
    <2>8. QED  BY <2>5, <2>6, <2>7 DEF MergeSound
<1>3. QED  BY <1>1, <1>2

\* What was merged lies within one interval of the union, these are apart from
\* each other, and what is left starts after the last of them did.
Within(iv, u) == \E k \in 1 .. Len(u) : u[k][1] <= iv[1] /\ iv[2] <= u[k][2]

Apart(u) ==
    /\ \A k \in 1 .. Len(u) : u[k][1] < u[k][2]
    /\ \A k, l \in 1 .. Len(u) : k < l => u[k][2] < u[l][1]

MergeExact(ivs, st) ==
    /\ \A iv \in ivs \ st.rest : Within(iv, st.union)
    /\ Apart(st.union)
    /\ \A q \in st.rest, k \in 1 .. Len(st.union) : st.union[k][1] <= q[1]

\* One iteration takes the next interval in and keeps the others there.
LEMMA AbsorbExact ==
    ASSUME NEW u \in Seq(Nat \X Nat), Apart(u), NEW iv \in Nat \X Nat, iv[1] < iv[2],
           \A k \in 1 .. Len(u) : u[k][1] <= iv[1]
    PROVE  /\ Apart(absorb(u, iv)) /\ Within(iv, absorb(u, iv))
           /\ \A jv \in Nat \X Nat : Within(jv, u) => Within(jv, absorb(u, iv))
           /\ \A k \in 1 .. Len(absorb(u, iv)) : absorb(u, iv)[k][1] <= iv[1]
<1> DEFINE n == Len(u)
<1>1. n \in Nat /\ iv[1] \in Nat /\ iv[2] \in Nat /\ iv[1] <= iv[1]
    OBVIOUS
<1>2. \A k \in 1 .. n : u[k][1] \in Nat /\ u[k][2] \in Nat
    <2> SUFFICES ASSUME NEW k \in 1 .. n PROVE u[k][1] \in Nat /\ u[k][2] \in Nat
        OBVIOUS
    <2>1. u[k] \in Nat \X Nat
        OBVIOUS
    <2>2. QED  BY <2>1
<1>3. CASE n > 0 /\ iv[1] <= u[n][2]
    <2> DEFINE hi == IF u[n][2] < iv[2] THEN iv[2] ELSE u[n][2]
               w == [u EXCEPT ![n] = <<u[n][1], hi>>]
    <2>1. n \in 1 .. n /\ u[n][1] \in Nat /\ u[n][2] \in Nat
        BY <1>1, <1>2, <1>3
    <2>2. absorb(u, iv) = w
        BY <1>3 DEF absorb
    <2>3. hi \in Nat /\ iv[2] <= hi /\ u[n][2] <= hi
        BY <1>1, <2>1
    <2>4. Len(w) = n
        BY <2>1, <2>3
    <2>5. \A k \in 1 .. n : /\ w[k][1] = u[k][1] /\ (k # n => w[k][2] = u[k][2])
                             /\ (k = n => w[k][2] = hi)
        <3> HIDE DEF hi
        <3>1. \A k \in 1 .. n : w[k] = IF k = n THEN <<u[n][1], hi>> ELSE u[k]
            <4> DEFINE e == <<u[n][1], hi>>
            <4> HIDE DEF e
            <4>1. w = [u EXCEPT ![n] = e] /\ DOMAIN u = 1 .. n
                BY DEF e
            <4> HIDE DEF w
            <4>2. \A k \in 1 .. n : w[k] = IF k = n THEN e ELSE u[k]
                BY <4>1
            <4>3. QED  BY <4>2 DEF e
        <3> HIDE DEF w, n
        <3>2. ASSUME NEW k \in 1 .. n
              PROVE  /\ w[k][1] = u[k][1] /\ (k # n => w[k][2] = u[k][2])
                     /\ (k = n => w[k][2] = hi)
            <4>1. CASE k = n
                <5>1. w[k] = <<u[n][1], hi>>
                    BY <3>1, <4>1
                <5>2. QED  BY <4>1, <5>1
            <4>2. CASE k # n
                <5>1. w[k] = u[k]
                    BY <3>1, <4>2
                <5>2. QED  BY <4>2, <5>1
            <4>3. QED  BY <4>1, <4>2
        <3>3. QED  BY <3>2
    <2> HIDE DEF w, hi, n
    <2>6. ASSUME NEW k \in 1 .. n PROVE u[k][2] <= w[k][2] /\ w[k][2] \in Nat
        <3>1. u[k][2] \in Nat /\ u[k][2] <= u[k][2]
            BY <1>2
        <3>2. CASE k = n
            BY <2>3, <2>5, <3>2
        <3>3. CASE k # n
            BY <2>5, <3>1, <3>3
        <3>4. QED  BY <3>2, <3>3
    <2>7. Apart(w)
        <3>1. \A k \in 1 .. n : w[k][1] < w[k][2]
            <4> SUFFICES ASSUME NEW k \in 1 .. n PROVE w[k][1] < w[k][2]
                OBVIOUS
            <4>1. u[k][1] < u[k][2]
                BY DEF Apart, n
            <4>2. QED  BY <1>2, <2>5, <2>6, <4>1
        <3>2. ASSUME NEW k \in 1 .. n, NEW l \in 1 .. n, k < l PROVE w[k][2] < w[l][1]
            <4>1. k # n
                BY <1>1, <3>2
            <4>2. u[k][2] < u[l][1]
                BY <3>2 DEF Apart, n
            <4>3. QED  BY <2>5, <4>1, <4>2
        <3>3. QED  BY <2>4, <3>1, <3>2 DEF Apart
    <2>8. Within(iv, w)
        <3>1. w[n][1] <= iv[1] /\ iv[2] <= w[n][2]
            <4>1. w[n][1] = u[n][1] /\ w[n][2] = hi
                BY <2>1, <2>5
            <4>2. u[n][1] <= iv[1]
                BY <2>1 DEF n
            <4>3. QED  BY <2>3, <4>1, <4>2
        <3>2. QED  BY <2>1, <2>4, <3>1 DEF Within
    <2>9. ASSUME NEW jv \in Nat \X Nat, Within(jv, u) PROVE Within(jv, w)
        <3>1. PICK k \in 1 .. n : u[k][1] <= jv[1] /\ jv[2] <= u[k][2]
            BY <2>9 DEF Within, n
        <3>2. jv[2] \in Nat
            OBVIOUS
        <3>3. w[k][1] <= jv[1] /\ jv[2] <= w[k][2]
            <4>1. w[k][1] = u[k][1]
                BY <2>5
            <4> DEFINE a == jv[2]
                       b == u[k][2]
                       c == w[k][2]
            <4>2. a \in Nat /\ b \in Nat /\ c \in Nat /\ a <= b /\ b <= c
                BY <1>2, <2>6, <3>1, <3>2
            <4> HIDE DEF a, b, c
            <4>3. a <= c
                BY <4>2
            <4>4. QED  BY <3>1, <4>1, <4>3 DEF a, c
        <3>4. QED  BY <2>4, <3>3 DEF Within
    <2>10. \A k \in 1 .. Len(w) : w[k][1] <= iv[1]
        BY <2>4, <2>5 DEF n
    <2>11. QED  BY <2>2, <2>7, <2>8, <2>9, <2>10
<1>4. CASE ~(n > 0 /\ iv[1] <= u[n][2])
    <2> DEFINE w == Append(u, iv)
    <2>1. absorb(u, iv) = w
        BY <1>4 DEF absorb
    <2>2. Len(w) = n + 1 /\ w[n + 1] = iv /\ \A k \in 1 .. n : w[k] = u[k]
        OBVIOUS
    <2> HIDE DEF w, n
    <2>3. \A k \in 1 .. n + 1 : k = n + 1 \/ k \in 1 .. n
        BY <1>1
    <2>4. \A k \in 1 .. n : u[k][2] < iv[1]
        <3> SUFFICES ASSUME NEW k \in 1 .. n PROVE u[k][2] < iv[1]
            OBVIOUS
        <3>1. n \in 1 .. n /\ u[n][2] < iv[1]
            <4>1. n \in 1 .. n
                BY <1>1
            <4>2. u[n][2] \in Nat
                BY <1>2, <4>1
            <4> DEFINE x == u[n][2]
                       y == iv[1]
            <4>3. x \in Nat /\ y \in Nat /\ ~(y <= x)
                <5>1. n > 0
                    BY <1>1, <4>1
                <5>2. ~(iv[1] <= u[n][2])
                    BY <1>4, <5>1, Zenon
                <5>3. QED  BY <1>1, <4>2, <5>2
            <4> HIDE DEF x, y
            <4>4. x < y
                BY <4>3
            <4>5. QED  BY <4>1, <4>4 DEF x, y
        <3>2. CASE k = n
            BY <3>1, <3>2
        <3>3. CASE k # n
            <4>1. k < n
                BY <1>1, <3>3
            <4>2. u[k][2] < u[n][1] /\ u[n][1] < u[n][2]
                BY <3>1, <4>1 DEF Apart, n
            <4>3. u[k][2] \in Nat /\ u[n][1] \in Nat /\ u[n][2] \in Nat
                BY <1>2, <3>1
            <4> DEFINE a == u[k][2]
                       b == u[n][1]
                       x == u[n][2]
                       y == iv[1]
            <4>4. a \in Nat /\ b \in Nat /\ x \in Nat /\ y \in Nat /\ a < b /\ b < x /\ x < y
                BY <1>1, <3>1, <4>2, <4>3
            <4> HIDE DEF a, b, x, y
            <4>5. a < y
                BY <4>4
            <4>6. QED  BY <4>5 DEF a, y
        <3>4. QED  BY <3>2, <3>3
    <2>5. Apart(w)
        <3>1. \A k \in 1 .. n + 1 : w[k][1] < w[k][2]
            BY <2>2, <2>3 DEF Apart, n
        <3>2. ASSUME NEW k \in 1 .. n + 1, NEW l \in 1 .. n + 1, k < l PROVE w[k][2] < w[l][1]
            <4>1. k \in 1 .. n
                BY <1>1, <3>2
            <4>2. CASE l = n + 1
                BY <2>2, <2>4, <4>1, <4>2
            <4>3. CASE l \in 1 .. n
                BY <2>2, <3>2, <4>1, <4>3 DEF Apart, n
            <4>4. QED  BY <2>3, <4>2, <4>3
        <3>3. QED  BY <2>2, <3>1, <3>2 DEF Apart
    <2>6. Within(iv, w)
        <3>1. n + 1 \in 1 .. n + 1 /\ iv[2] <= iv[2]
            BY <1>1
        <3>2. QED  BY <1>1, <2>2, <3>1 DEF Within
    <2>7. ASSUME NEW jv \in Nat \X Nat, Within(jv, u) PROVE Within(jv, w)
        <3>1. PICK k \in 1 .. n : u[k][1] <= jv[1] /\ jv[2] <= u[k][2]
            BY <2>7 DEF Within, n
        <3>2. k \in 1 .. n + 1
            BY <1>1
        <3>3. QED  BY <2>2, <3>1, <3>2 DEF Within
    <2>8. \A k \in 1 .. Len(w) : w[k][1] <= iv[1]
        BY <1>1, <2>2, <2>3 DEF n
    <2>9. QED  BY <2>1, <2>5, <2>6, <2>7, <2>8
<1>5. QED  BY <1>3, <1>4

LEMMA MergeStepExact ==
    ASSUME NEW ivs, ivs \subseteq Nat \X Nat, \A iv \in ivs : iv[1] < iv[2],
           NEW st, MergeSound(ivs, st), MergeExact(ivs, st), st.rest # {}
    PROVE  /\ MergeExact(ivs, merge_step(st))
           /\ \E iv \in st.rest : merge_step(st).rest = st.rest \ {iv}
<1> DEFINE iv == first_interval(st.rest)
           u == st.union
           w == absorb(u, iv)
<1>1. iv \in st.rest /\ iv \in ivs /\ \A q \in st.rest : iv[1] <= q[1]
    BY FirstIntervalIsLeft DEF MergeSound
<1> HIDE DEF iv
<1>2. iv \in Nat \X Nat /\ iv[1] < iv[2] /\ u \in Seq(Nat \X Nat)
    BY <1>1 DEF MergeSound
<1>3. /\ Apart(w) /\ Within(iv, w)
      /\ \A jv \in Nat \X Nat : Within(jv, u) => Within(jv, w)
      /\ \A k \in 1 .. Len(w) : w[k][1] <= iv[1]
    BY <1>1, <1>2, AbsorbExact DEF MergeExact
<1>4. merge_step(st) = [rest |-> st.rest \ {iv}, union |-> w]
    BY DEF merge_step, iv
<1>5. w \in Seq(Nat \X Nat)
    <2>1. MergeSound(ivs, merge_step(st))
        BY MergeStepSound
    <2>2. merge_step(st).union = w
        BY <1>4
    <2>3. QED  BY <2>1, <2>2 DEF MergeSound
<1> HIDE DEF w
<1>6. ASSUME NEW jv \in ivs \ (st.rest \ {iv}) PROVE Within(jv, w)
    BY <1>3 DEF MergeExact
<1>7. ASSUME NEW q \in st.rest \ {iv}, NEW k \in 1 .. Len(w) PROVE w[k][1] <= q[1]
    <2>1. q \in Nat \X Nat /\ w[k] \in Nat \X Nat
        BY <1>5 DEF MergeSound
    <2>2. w[k][1] <= iv[1] /\ iv[1] <= q[1]
        BY <1>1, <1>3
    <2>3. QED  BY <1>2, <2>1, <2>2
<1>8. MergeExact(ivs, merge_step(st))
    BY <1>3, <1>4, <1>6, <1>7 DEF MergeExact
<1>9. QED  BY <1>1, <1>4, <1>8

\* The loop after some iterations, with so many intervals left.
MergeInv(ivs, st, left) ==
    /\ MergeSound(ivs, st) /\ MergeExact(ivs, st)
    /\ IsFiniteSet(st.rest) /\ Cardinality(st.rest) = left

\* The whole loop: the union is made of the minutes of the intervals and of no
\* others, in intervals that do not touch.
LEMMA MergedIsExact ==
    ASSUME NEW ivs, ivs \subseteq (0 .. WEEK) \X (0 .. WEEK), \A iv \in ivs : iv[1] < iv[2]
    PROVE  /\ merged(ivs) \in Seq(Nat \X Nat)
           /\ \A k \in 1 .. Len(merged(ivs)) : Covered(ivs, merged(ivs)[k][1], merged(ivs)[k][2])
           /\ Apart(merged(ivs)) /\ \A iv \in ivs : Within(iv, merged(ivs))
<1> DEFINE n == Cardinality(ivs)
           st == merging(ivs, n)
<1>1. WEEK \in Nat
    BY DAYAssumption DEF WEEK
<1>2. ivs \subseteq Nat \X Nat
    BY <1>1
<1>3. n \in Nat /\ IsFiniteSet(ivs)
    <2>1. IsFiniteSet(0 .. WEEK)
        BY <1>1, FS_Interval
    <2>2. IsFiniteSet((0 .. WEEK) \X (0 .. WEEK))
        BY <2>1, FS_Product
    <2>3. QED  BY <2>2, FS_Subset, FS_CardinalityType
<1> HIDE DEF n
<1>4. st = [i \in 0 .. n |-> IF i = 0 THEN [rest |-> ivs, union |-> <<>>]
                             ELSE merge_step(st[i - 1])]
    BY <1>3, MergingIsDefined
<1> HIDE DEF st
<1> DEFINE T == {i \in 0 .. n : ~ MergeInv(ivs, st[i], n - i)}
<1>5. T = {}
    <2> SUFFICES ASSUME T # {} PROVE FALSE
        OBVIOUS
    <2>1. T \subseteq Nat
        BY <1>3
    <2>2. PICK i \in T : \A j \in T : i <= j
        <3> HIDE DEF T
        <3>1. QED  BY <2>1, LeastNatural
    <2>3. i \in 0 .. n /\ ~ MergeInv(ivs, st[i], n - i)
        OBVIOUS
    <2>4. CASE i = 0
        <3>1. st[0] = [rest |-> ivs, union |-> <<>>]
            BY <1>3, <1>4
        <3>2. <<>> \in Seq(Nat \X Nat) /\ Len(<<>>) = 0
            OBVIOUS
        <3>3. MergeSound(ivs, st[0]) /\ MergeExact(ivs, st[0])
            BY <3>1, <3>2 DEF MergeSound, MergeExact, Apart
        <3>4. Cardinality(st[0].rest) = n - 0
            BY <1>3, <3>1 DEF n
        <3>5. MergeInv(ivs, st[0], n - 0)
            BY <1>3, <3>1, <3>3, <3>4 DEF MergeInv
        <3>6. QED  BY <2>3, <2>4, <3>5
    <2>5. CASE i # 0
        <3>1. i - 1 \in 0 .. n /\ ~(i <= i - 1) /\ n - (i - 1) \in Nat /\ n - (i - 1) # 0
            BY <1>3, <2>3, <2>5
        <3>2. i - 1 \notin T
            <4> HIDE DEF T
            <4>1. QED  BY <2>2, <3>1
        <3>3. MergeInv(ivs, st[i - 1], n - (i - 1))
            BY <3>1, <3>2
        <3>4. st[i] = merge_step(st[i - 1])
            BY <1>4, <2>3, <2>5
        <3>5. st[i - 1].rest # {}
            BY <3>1, <3>3, FS_EmptySet DEF MergeInv
        <3>6. MergeSound(ivs, st[i])
            BY <1>2, <3>3, <3>4, MergeStepSound DEF MergeInv
        <3>7. /\ MergeExact(ivs, st[i])
              /\ \E iv \in st[i - 1].rest : st[i].rest = st[i - 1].rest \ {iv}
            <4>1. MergeSound(ivs, st[i - 1]) /\ MergeExact(ivs, st[i - 1])
                BY <3>3 DEF MergeInv
            <4>2. /\ MergeExact(ivs, merge_step(st[i - 1]))
                  /\ \E iv \in st[i - 1].rest : merge_step(st[i - 1]).rest = st[i - 1].rest \ {iv}
                BY <1>2, <3>5, <4>1, MergeStepExact
            <4>3. QED  BY <3>4, <4>2
        <3>8. IsFiniteSet(st[i].rest) /\ Cardinality(st[i].rest) = n - i
            <4>1. PICK iv \in st[i - 1].rest : st[i].rest = st[i - 1].rest \ {iv}
                BY <3>7
            <4>2. IsFiniteSet(st[i - 1].rest) /\ Cardinality(st[i - 1].rest) = n - (i - 1)
                BY <3>3 DEF MergeInv
            <4>3. /\ IsFiniteSet(st[i - 1].rest \ {iv})
                  /\ Cardinality(st[i - 1].rest \ {iv}) = Cardinality(st[i - 1].rest) - 1
                <5> DEFINE S == st[i - 1].rest
                <5>1. IsFiniteSet(S) /\ iv \in S
                    BY <4>1, <4>2
                <5> HIDE DEF S
                <5>2. IsFiniteSet(S \ {iv}) /\ Cardinality(S \ {iv}) = Cardinality(S) - 1
                    BY <5>1, FS_RemoveElement
                <5>3. QED  BY <5>2 DEF S
            <4>4. (n - (i - 1)) - 1 = n - i
                BY <1>3, <2>3
            <4>5. QED  BY <4>1, <4>2, <4>3, <4>4
        <3>9. QED  BY <2>3, <3>6, <3>7, <3>8 DEF MergeInv
    <2>6. QED  BY <2>4, <2>5
<1>6. MergeInv(ivs, st[n], n - n)
    <2>1. n \in 0 .. n
        BY <1>3
    <2>2. QED  BY <1>5, <2>1
<1>7. merged(ivs) = st[n].union
    BY DEF merged, st, n
<1>8. st[n].rest = {}
    <2>1. n - n = 0
        BY <1>3
    <2>2. QED  BY <1>6, <2>1, FS_EmptySet DEF MergeInv
<1>9. QED  BY <1>6, <1>7, <1>8 DEF MergeInv, MergeSound, MergeExact

-----------------------------------------------------------------------------
\* A window's intervals lie within the week, and none is empty.
LEMMA IntervalsInWeek ==
    ASSUME NEW w \in TimeWindow
    PROVE  /\ intervals(w) \subseteq (0 .. WEEK) \X (0 .. WEEK)
           /\ \A iv \in intervals(w) : iv[1] < iv[2]
<1>1. /\ DAY \in Nat /\ w.start \in 0 .. DAY - 1 /\ w.end \in 0 .. DAY
      /\ w.days \subseteq 0 .. 6
    BY DAYAssumption DEF TimeWindow
<1>2. ASSUME NEW d \in 0 .. 6
      PROVE  d * DAY \in Nat /\ d * DAY + DAY <= WEEK /\ WEEK \in Nat
    <2>1. d = 0 \/ d = 1 \/ d = 2 \/ d = 3 \/ d = 4 \/ d = 5 \/ d = 6
        OBVIOUS
    <2>2. QED  BY <1>1, <2>1 DEF WEEK
<1>3. ASSUME NEW d \in w.days
      PROVE  /\ intervals_of_day(w, d) \subseteq (0 .. WEEK) \X (0 .. WEEK)
             /\ \A iv \in intervals_of_day(w, d) : iv[1] < iv[2]
    <2> DEFINE base == d * DAY
               next == ((d + 1) % 7) * DAY
    <2>1. d \in 0 .. 6 /\ (d + 1) % 7 \in 0 .. 6
        BY <1>1
    <2>2. /\ base \in Nat /\ base + DAY <= WEEK
          /\ next \in Nat /\ next + DAY <= WEEK /\ WEEK \in Nat
        BY <1>2, <2>1
    <2>3. intervals_of_day(w, d) =
            IF w.start < w.end THEN {<<base + w.start, base + w.end>>}
            ELSE {<<base + w.start, base + DAY>>}
                 \cup (IF w.end > 0 THEN {<<next, next + w.end>>} ELSE {})
        BY DEF intervals_of_day
    <2> HIDE DEF base, next
    <2>4. /\ base + w.start \in 0 .. WEEK /\ base + w.end \in 0 .. WEEK
          /\ base + DAY \in 0 .. WEEK /\ next \in 0 .. WEEK /\ next + w.end \in 0 .. WEEK
        BY <1>1, <2>2
    <2>5. /\ base + w.start < base + DAY /\ (w.start < w.end => base + w.start < base + w.end)
          /\ (w.end > 0 => next < next + w.end)
        BY <1>1, <2>2
    <2>6. QED  BY <2>3, <2>4, <2>5
<1>4. QED  BY <1>3 DEF intervals

\* A covered window accepts no instant that all its parents refuse.
LEMMA CoveredBySound ==
    ASSUME NEW w \in TimeWindow, NEW parents, parents \subseteq TimeWindow,
           covered_by(w, parents), NEW env, env_ok(env), contains(w, env.now)
    PROVE  \E p \in parents : contains(p, env.now)
<1> DEFINE m == local_minute(w.timezone, env.now)
           ivs == same_zone_intervals(w, parents)
           union == merged(ivs)
<1>1. w.timezone \in Zones
    BY DEF TimeWindow
<1>2. m \in Nat /\ m # None
    BY <1>1 DEF env_ok, contains
<1>3. PICK iv \in intervals(w) : iv[1] <= m /\ m < iv[2]
    BY DEF contains
<1>4. ivs \subseteq (0 .. WEEK) \X (0 .. WEEK) /\ \A jv \in ivs : jv[1] < jv[2]
    BY IntervalsInWeek DEF same_zone_intervals
<1>5. PICK k \in 1 .. Len(union) : union[k][1] <= iv[1] /\ iv[2] <= union[k][2]
    BY DEF covered_by
<1>6. union[k] \in Nat \X Nat /\ Covered(ivs, union[k][1], union[k][2])
    BY <1>4, MergedIsExact
<1>7. iv[1] \in Nat /\ iv[2] \in Nat
    <2>1. WEEK \in Nat
        BY DAYAssumption DEF WEEK
    <2>2. QED  BY <2>1, IntervalsInWeek
<1> HIDE DEF m, ivs, union
<1>8. union[k][1] <= m /\ m < union[k][2]
    BY <1>2, <1>3, <1>5, <1>6, <1>7
<1>9. PICK jv \in ivs : jv[1] <= m /\ m < jv[2]
    BY <1>2, <1>6, <1>8 DEF Covered
<1>10. PICK p \in parents : p.timezone = w.timezone /\ jv \in intervals(p)
    BY DEF ivs, same_zone_intervals
<1>11. QED  BY <1>2, <1>9, <1>10 DEF contains, m

\* covered_by decides the inclusion of the minutes, both ways.
LEMMA CoveredByIsExact ==
    ASSUME NEW w \in TimeWindow, NEW parents, parents \subseteq TimeWindow
    PROVE  covered_by(w, parents) <=>
                minutes({w}) \subseteq minutes({q \in parents : q.timezone = w.timezone})
<1> DEFINE ivs == same_zone_intervals(w, parents)
           u == merged(ivs)
           inside(m, iv) == iv[1] <= m /\ m < iv[2]
<1>0. WEEK \in Nat
    BY DAYAssumption DEF WEEK
<1>1. ivs \subseteq (0 .. WEEK) \X (0 .. WEEK) /\ \A jv \in ivs : jv[1] < jv[2]
    BY IntervalsInWeek DEF same_zone_intervals
<1>2. /\ u \in Seq(Nat \X Nat) /\ \A k \in 1 .. Len(u) : Covered(ivs, u[k][1], u[k][2])
      /\ Apart(u) /\ \A iv \in ivs : Within(iv, u)
    BY <1>1, MergedIsExact
<1>3. covered_by(w, parents) <=> \A iv \in intervals(w) : Within(iv, u)
    BY DEF covered_by, Within
<1>4. /\ intervals(w) \subseteq (0 .. WEEK) \X (0 .. WEEK)
      /\ \A iv \in intervals(w) : iv[1] < iv[2]
    BY IntervalsInWeek
<1>5. minutes({w}) = {m \in 0 .. WEEK - 1 : \E iv \in intervals(w) : inside(m, iv)}
    BY DEF minutes
<1>6. minutes({q \in parents : q.timezone = w.timezone}) =
            {m \in 0 .. WEEK - 1 : \E iv \in ivs : inside(m, iv)}
    BY DEF minutes, same_zone_intervals
<1> HIDE DEF ivs, u
<1>7. ASSUME \A iv \in intervals(w) : Within(iv, u),
             NEW m \in 0 .. WEEK - 1, NEW iv \in intervals(w), inside(m, iv)
      PROVE  \E jv \in ivs : inside(m, jv)
    <2>1. PICK k \in 1 .. Len(u) : u[k][1] <= iv[1] /\ iv[2] <= u[k][2]
        BY <1>7 DEF Within
    <2>2. u[k] \in Nat \X Nat /\ Covered(ivs, u[k][1], u[k][2])
        BY <1>2
    <2>3. iv[1] \in Nat /\ iv[2] \in Nat /\ m \in Nat
        BY <1>0, <1>4
    <2>4. u[k][1] <= m /\ m < u[k][2]
        BY <1>7, <2>1, <2>2, <2>3
    <2>5. QED  BY <2>2, <2>3, <2>4 DEF Covered
<1>8. ASSUME \A m \in 0 .. WEEK - 1 :
                (\E iv \in intervals(w) : inside(m, iv)) => \E jv \in ivs : inside(m, jv),
             NEW iv \in intervals(w)
      PROVE  Within(iv, u)
    <2>1. iv[1] \in 0 .. WEEK /\ iv[2] \in 0 .. WEEK /\ iv[1] < iv[2]
        BY <1>4
    <2>2. ASSUME NEW m \in Nat, iv[1] <= m, m < iv[2]
          PROVE  \E l \in 1 .. Len(u) : u[l][1] <= m /\ m < u[l][2]
        <3>1. m \in 0 .. WEEK - 1 /\ inside(m, iv)
            BY <1>0, <2>1, <2>2
        <3> HIDE DEF inside
        <3>2. PICK jv \in ivs : inside(m, jv)
            BY <1>8, <3>1
        <3>3. PICK l \in 1 .. Len(u) : u[l][1] <= jv[1] /\ jv[2] <= u[l][2]
            BY <1>2 DEF Within
        <3>4. jv[1] \in Nat /\ jv[2] \in Nat
            BY <1>0, <1>1
        <3>5. u[l][1] \in Nat /\ u[l][2] \in Nat
            <4>1. u[l] \in Nat \X Nat
                BY <1>2
            <4>2. QED  BY <4>1
        <3>6. jv[1] <= m /\ m < jv[2]
            BY <3>2 DEF inside
        <3>7. u[l][1] <= m /\ m < u[l][2]
            <4> DEFINE a == u[l][1]
                       b == jv[1]
                       c == jv[2]
                       d == u[l][2]
            <4>1. /\ a \in Nat /\ b \in Nat /\ c \in Nat /\ d \in Nat
                  /\ a <= b /\ b <= m /\ m < c /\ c <= d
                BY <3>3, <3>4, <3>5, <3>6
            <4> HIDE DEF a, b, c, d
            <4>2. a <= m /\ m < d
                BY <4>1
            <4>3. QED  BY <4>2 DEF a, d
        <3>8. QED  BY <3>7
    <2>3. PICK k \in 1 .. Len(u) : u[k][1] <= iv[1] /\ iv[1] < u[k][2]
        <3>1. iv[1] \in Nat /\ iv[1] <= iv[1]
            BY <1>0, <2>1
        <3>2. QED  BY <2>1, <2>2, <3>1
    <2> DEFINE y == u[k][2]
    <2>4. u[k][1] \in Nat /\ y \in Nat
        <3>1. u[k] \in Nat \X Nat
            BY <1>2
        <3>2. QED  BY <3>1
    <2>5. iv[2] <= y
        <3> SUFFICES ASSUME ~(iv[2] <= y) PROVE FALSE
            OBVIOUS
        <3>1. iv[1] <= y /\ y < iv[2]
            <4> DEFINE a == iv[1]
                       b == iv[2]
            <4>1. a \in Nat /\ b \in Nat /\ a < y /\ ~(b <= y)
                BY <1>0, <2>1, <2>3
            <4> HIDE DEF a, b, y
            <4>2. a <= y /\ y < b
                BY <2>4, <4>1
            <4>3. QED  BY <4>2 DEF a, b
        <3>2. PICK l \in 1 .. Len(u) : u[l][1] <= y /\ y < u[l][2]
            BY <2>2, <2>4, <3>1
        <3>3. u[l][1] \in Nat /\ u[l][2] \in Nat
            <4>1. u[l] \in Nat \X Nat
                BY <1>2
            <4>2. QED  BY <4>1
        <3>4. k \in Nat /\ l \in Nat
            BY <1>2
        <3>5. CASE k < l
            <4>1. y < u[l][1]
                BY <1>2, <3>5 DEF Apart
            <4> HIDE DEF y
            <4>2. QED  BY <2>4, <3>2, <3>3, <4>1
        <3>6. CASE l < k
            <4>1. u[l][2] < u[k][1] /\ u[k][1] < y
                BY <1>2, <3>6 DEF Apart
            <4> HIDE DEF y
            <4>2. QED  BY <2>4, <3>2, <3>3, <4>1
        <3>7. CASE k = l
            <4>1. y < y
                BY <3>2, <3>7
            <4> HIDE DEF y
            <4>2. QED  BY <2>4, <4>1
        <3>8. QED  BY <3>4, <3>5, <3>6, <3>7
    <2>6. QED  BY <2>3, <2>5 DEF Within
<1> HIDE DEF inside
<1>9. QED  BY <1>3, <1>5, <1>6, <1>7, <1>8

-----------------------------------------------------------------------------
\* A constraint that covers another accepts whatever the other accepts, the
\* constraints that count uses aside.
LEMMA CoversSound ==
    ASSUME NEW p, NEW c, parses(p), parses(c), covers(p, c), p.type \notin Stateful,
           NEW closed, closed_ok(closed), NEW env, env_ok(env), NEW pkey, NEW ckey,
           evaluate(c, closed, env, ckey) = "ok"
    PROVE  evaluate(p, closed, env, pkey) = "ok"
<1>1. c.type = p.type
    BY DEF covers
<1>2. family(c) = family(p)
    BY <1>1 DEF family
<1>3. p.type = "aap.delegation" \/ family(p) = closed.family
    BY <1>1, <1>2 DEF evaluate
<1>4. \/ p.type \in ListTypes \/ p.type = "aap.amount" \/ p.type = "aap.counterparties"
      \/ p.type = "aap.time_windows" \/ p.type = "aap.delegation"
      \/ p.type = "checkout.line_items" \/ p.type = "payment.amount_range"
      \/ p.type = "payment.execution_date" \/ p.type = "payment.reference"
    BY DEF parses, Stateful
<1>5. CASE p.type \in ListTypes
    <2>1. c.allowed \subseteq p.allowed
        BY <1>5 DEF covers, ListTypes
    <2>2. p.type = "aap.actions" => evaluate(p, closed, env, pkey) = "ok"
        BY <1>1, <1>3, <2>1 DEF evaluate, actions, ok_if
    <2>3. p.type = "aap.resources" => evaluate(p, closed, env, pkey) = "ok"
        BY <1>1, <1>3, <2>1 DEF evaluate, resources, ok_if
    <2>4. p.type = "aap.data_categories" => evaluate(p, closed, env, pkey) = "ok"
        BY <1>1, <1>3, <2>1 DEF evaluate, data_categories, ok_if
    <2>5. p.type = "checkout.allowed_merchants" => evaluate(p, closed, env, pkey) = "ok"
        BY <1>1, <1>3, <2>1 DEF evaluate, allowed_merchants, ok_if
    <2>6. p.type = "payment.allowed_payees" => evaluate(p, closed, env, pkey) = "ok"
        BY <1>1, <1>3, <2>1 DEF evaluate, allowed_payees, ok_if
    <2>7. p.type = "payment.allowed_payment_instruments" =>
            evaluate(p, closed, env, pkey) = "ok"
        BY <1>1, <1>3, <2>1 DEF evaluate, allowed_instruments, ok_if
    <2>8. p.type = "payment.allowed_pisps" => evaluate(p, closed, env, pkey) = "ok"
        BY <1>1, <1>3, <2>1 DEF evaluate, allowed_pisps, ok_if
    <2>9. QED  BY <1>5, <2>2, <2>3, <2>4, <2>5, <2>6, <2>7, <2>8 DEF ListTypes
<1>6. CASE p.type = "aap.amount"
    <2>1. c.currency = p.currency /\ c.max <= p.max
        BY <1>6 DEF covers, amount_covers, ListTypes
    <2>2. c.max \in Nat /\ p.max \in Nat
        BY <1>1, <1>6 DEF parses, ListTypes
    <2>3. amount(c, closed.claims) = "ok" /\ family(p) = closed.family
        BY <1>1, <1>3, <1>6 DEF evaluate
    <2>4. amount(p, closed.claims) = "ok"
        BY <2>1, <2>2, <2>3 DEF amount, ok_if, closed_ok
    <2>5. QED  BY <1>6, <2>3, <2>4 DEF evaluate
<1>7. CASE p.type = "aap.counterparties"
    <2>1. counterparties_covers(p, c)
        BY <1>7 DEF covers, ListTypes
    <2>2. counterparties(c, closed.claims) = "ok" /\ family(p) = closed.family
        BY <1>1, <1>3, <1>7 DEF evaluate
    <2>3. counterparties(p, closed.claims) = "ok"
        BY <2>1, <2>2 DEF counterparties, counterparties_covers, ok_if
    <2>4. QED  BY <1>7, <2>2, <2>3 DEF evaluate
<1>8. CASE p.type = "aap.time_windows"
    <2>1. \A w \in c.windows : covered_by(w, p.windows)
        BY <1>8 DEF covers, ListTypes
    <2>2. c.windows \subseteq TimeWindow /\ p.windows \subseteq TimeWindow
        BY <1>1, <1>8 DEF parses, ListTypes
    <2>3. time_windows(c, env.now) = "ok" /\ family(p) = closed.family
        BY <1>1, <1>3, <1>8 DEF evaluate
    <2>4. PICK w \in c.windows : contains(w, env.now)
        BY <2>3 DEF time_windows, ok_if
    <2>5. \E v \in p.windows : contains(v, env.now)
        BY <2>1, <2>2, <2>4, CoveredBySound
    <2>6. QED  BY <1>8, <2>3, <2>5 DEF evaluate, time_windows, ok_if
<1>9. CASE p.type = "aap.delegation"
    BY <1>9 DEF evaluate
<1>10. CASE p.type = "checkout.line_items"
    <2>1. p.items = c.items
        BY <1>10 DEF covers, ListTypes
    <2>2. checkout_line_items(c, env.checkout) = "ok" /\ family(p) = closed.family
        BY <1>1, <1>3, <1>10 DEF evaluate
    <2>3. checkout_line_items(p, env.checkout) = "ok"
        BY <2>1, <2>2 DEF checkout_line_items
    <2>4. QED  BY <1>10, <2>2, <2>3 DEF evaluate
<1>11. CASE p.type = "payment.amount_range"
    <2>1. amount_range_covers(p, c)
        BY <1>11 DEF covers, ListTypes
    <2>2. /\ c.max \in Nat /\ p.max \in Nat
          /\ c.min # None => c.min \in Nat
          /\ p.min # None => p.min \in Nat
        BY <1>1, <1>11 DEF parses, ListTypes
    <2>3. amount_range(c, closed.claims) = "ok" /\ family(p) = closed.family
        BY <1>1, <1>3, <1>11 DEF evaluate
    <2>4. closed.claims.payment_amount.minor \in Nat
        BY <1>11, <2>3 DEF closed_ok, family
    <2>5. amount_range(p, closed.claims) = "ok"
        BY <2>1, <2>2, <2>3, <2>4
        DEF amount_range, amount_range_covers, amount_covers, unwrap_or_0, ok_if
    <2>6. QED  BY <1>11, <2>3, <2>5 DEF evaluate
<1>12. CASE p.type = "payment.execution_date"
    <2>1. execution_date_covers(p, c)
        BY <1>12 DEF covers, ListTypes
    <2>2. /\ c.not_before # None => c.not_before \in Int
          /\ p.not_before # None => p.not_before \in Int
          /\ c.not_after # None => c.not_after \in Int
          /\ p.not_after # None => p.not_after \in Int
        BY <1>1, <1>12 DEF parses, ListTypes
    <2>3. execution_date(c, closed.claims, env.now) = "ok" /\ family(p) = closed.family
        BY <1>1, <1>3, <1>12 DEF evaluate
    <2> DEFINE range == IF get(closed.claims, "execution_date") = None
                        THEN <<env.now, env.now>>
                        ELSE instant_range(closed.claims.execution_date)
    <2>4. range # None => range[1] \in Int /\ range[2] \in Int
        BY DEF closed_ok, env_ok
    <2>5. execution_date(p, closed.claims, env.now) = "ok"
        BY <2>1, <2>2, <2>3, <2>4 DEF execution_date, execution_date_covers, ok_if
    <2>6. QED  BY <1>12, <2>3, <2>5 DEF evaluate
<1>13. CASE p.type = "payment.reference"
    <2>1. p.conditional_transaction_id = c.conditional_transaction_id
        BY <1>13 DEF covers, ListTypes
    <2>2. reference(c, env.open_checkout_hash) = "ok" /\ family(p) = closed.family
        BY <1>1, <1>3, <1>13 DEF evaluate
    <2>3. reference(p, env.open_checkout_hash) = "ok"
        BY <2>1, <2>2 DEF reference
    <2>4. QED  BY <1>13, <2>2, <2>3 DEF evaluate
<1>14. QED
    BY <1>4, <1>5, <1>6, <1>7, <1>8, <1>9, <1>10, <1>11, <1>12, <1>13

\* What `narrows` promises of one sub-delegation: the parent accepts whatever
\* the child accepts, the constraints that count uses aside.
THEOREM NarrowsSound ==
    ASSUME NEW parent, NEW child, narrows(parent, child), drafted(parent), drafted(child),
           NEW closed, closed_ok(closed), NEW env, env_ok(env),
           accepts_stateless(child, closed, env)
    PROVE  accepts_stateless(parent, closed, env)
<1>1. structural_failure(child, closed) = "ok"
    BY DEF accepts_stateless
<1>2. /\ child.family = closed.family
      /\ \A k \in DOMAIN child.presets :
            k \in DOMAIN closed.claims /\ closed.claims[k] = child.presets[k]
      /\ closed.family = "authority" /\ get(closed.claims, "amount") # None =>
            has(child.constraints, "aap.amount")
    BY <1>1 DEF structural_failure
<1>3. /\ parent.family = child.family
      /\ \A k \in DOMAIN parent.presets :
            k \in DOMAIN child.presets /\ child.presets[k] = parent.presets[k]
      /\ has(child.constraints, "aap.amount") => has(parent.constraints, "aap.amount")
      /\ \A i \in DOMAIN parent.constraints :
            parent.constraints[i].type # "aap.delegation" =>
                \E j \in DOMAIN child.constraints :
                    covers(parent.constraints[i], child.constraints[j])
    BY DEF narrows
<1>4. structural_failure(parent, closed) = "ok"
    BY <1>2, <1>3 DEF structural_failure
<1>5. ASSUME NEW i \in DOMAIN parent.constraints, parent.constraints[i].type \notin Stateful
      PROVE  evaluate(parent.constraints[i], closed, env, parent.ledger_key) = "ok"
    <2>1. CASE parent.constraints[i].type = "aap.delegation"
        BY <2>1 DEF evaluate
    <2>2. CASE parent.constraints[i].type # "aap.delegation"
        <3>1. PICK j \in DOMAIN child.constraints :
                    covers(parent.constraints[i], child.constraints[j])
            BY <1>3, <2>2
        <3>2. child.constraints[j].type = parent.constraints[i].type
            BY <3>1 DEF covers
        <3>3. evaluate(child.constraints[j], closed, env, child.ledger_key) = "ok"
            BY <1>5, <3>2 DEF accepts_stateless
        <3>4. parses(parent.constraints[i]) /\ parses(child.constraints[j])
            BY DEF drafted, parse_error
        <3>5. QED  BY <1>5, <3>1, <3>3, <3>4, CoversSound
    <2>3. QED  BY <2>1, <2>2
<1>6. QED  BY <1>4, <1>5 DEF accepts_stateless

\* A mandate that accepts has no constraint that fails.
LEMMA AcceptsMeansEveryConstraint ==
    ASSUME NEW open, DOMAIN open.constraints \subseteq Nat, NEW closed, NEW env,
           accepts(open, closed, env) = "ok"
    PROVE  /\ accepts_stateless(open, closed, env)
           /\ \A i \in DOMAIN open.constraints :
                evaluate(open.constraints[i], closed, env, open.ledger_key) = "ok"
<1> DEFINE result(i) == evaluate(open.constraints[i], closed, env, open.ledger_key)
           failing == {i \in DOMAIN open.constraints : result(i) # "ok"}
<1>1. structural_failure(open, closed) = "ok" /\ first_failure(open, closed, env) = "ok"
    BY DEF accepts
<1>2. failing = {}
    <2> SUFFICES ASSUME failing # {} PROVE FALSE
        OBVIOUS
    <2>1. failing \subseteq Nat
        OBVIOUS
    <2>2. \E i \in failing : \A j \in failing : i <= j
        <3> HIDE DEF failing
        <3>1. QED  BY <2>1, LeastNatural
    <2> DEFINE least == CHOOSE i \in failing : \A j \in failing : i <= j
    <2>3. least \in failing
        <3> HIDE DEF failing
        <3>1. QED  BY <2>2
    <2>4. first_failure(open, closed, env) = result(least)
        BY DEF first_failure
    <2>5. QED  BY <1>1, <2>3, <2>4
<1>3. QED  BY <1>1, <1>2 DEF accepts_stateless

-----------------------------------------------------------------------------
\* The depth a mandate allows is a number the code can hold.
LEMMA DepthInRange ==
    ASSUME NEW m, drafted(m)
    PROVE  m.max_depth \in 0 .. U32Max
<1> DEFINE depths == {m.constraints[i].max_depth :
                i \in {j \in DOMAIN m.constraints : m.constraints[j].type = "aap.delegation"}}
<1>1. depths \subseteq 0 .. U32Max
    BY DEF drafted, parse_error, parses, ListTypes
<1>2. m.max_depth = IF depths = {} THEN 0
                    ELSE CHOOSE d \in depths : \A e \in depths : d <= e
    BY DEF drafted, max_depth
<1> HIDE DEF depths
<1>3. CASE depths = {}
    BY <1>2, <1>3, U32MaxAssumption
<1>4. CASE depths # {}
    <2>1. depths \subseteq Nat
        BY <1>1, U32MaxAssumption
    <2>2. \E d \in depths : \A e \in depths : d <= e
        BY <1>4, <2>1, LeastNatural
    <2>3. QED  BY <1>1, <1>2, <1>4, <2>2
<1>5. QED  BY <1>3, <1>4

\* The chain holds drafted mandates, each of which accepts, its counters
\* aside, what the leaf accepts, and allows the links that follow it.  The
\* leaf's own budget says nothing about its parent's, so the statement that
\* is inductive is the one without the counters; and the depths shrink by
\* one per link unless they are saturated.
ChainInv ==
    /\ ChainType
    /\ \A i \in 1 .. Len(chain) : drafted(chain[i])
    /\ \A m \in Closed, e \in Envs :
            accepts_stateless(chain[Len(chain)], m, e) =>
                \A i \in 1 .. Len(chain) : accepts_stateless(chain[i], m, e)
    /\ \A i \in 1 .. Len(chain) :
            \/ chain[i].max_depth >= U32Max
            \/ chain[i].max_depth >= chain[Len(chain)].max_depth + (Len(chain) - i)

\* ChainInv holds of every chain that grows by narrowing.
LEMMA ChainInvariant == ChainSpec => []ChainInv
<1>1. ChainInit => ChainInv
    <2> SUFFICES ASSUME ChainInit PROVE ChainInv
        OBVIOUS
    <2>1. PICK m \in Mandates : drafted(m) /\ chain = <<m>>
        BY DEF ChainInit
    <2>2. chain \in Seq(Mandates) /\ Len(chain) = 1 /\ chain[1] = m
        BY <2>1
    <2>3. m.max_depth \in Nat
        BY <2>1, DepthInRange, U32MaxAssumption
    <2>4. \A i \in 1 .. Len(chain) : i = 1
        BY <2>2
    <2>5. ChainType
        BY <2>2, MaxLinksAssumption, U32MaxAssumption DEF ChainType
    <2>6. QED  BY <2>1, <2>2, <2>3, <2>4, <2>5 DEF ChainInv
<1>2. ChainInv /\ [ChainNext]_chain_vars => ChainInv'
    <2> SUFFICES ASSUME ChainInv, [ChainNext]_chain_vars PROVE ChainInv'
        OBVIOUS
    <2>1. CASE UNCHANGED chain_vars
        BY <2>1 DEF ChainInv, ChainType, chain_vars
    <2>2. CASE ChainNext
        <3> DEFINE n == Len(chain)
        <3>1. PICK child \in Mandates : SubDelegate(child)
            BY <2>2 DEF ChainNext
        <3>2. /\ chain \in Seq(Mandates) /\ n \in Nat /\ n >= 1 /\ n < MaxLinks
              /\ n \in 1 .. n
            BY <3>1, MaxLinksAssumption, U32MaxAssumption DEF ChainInv, ChainType, SubDelegate
        <3>3. /\ chain' \in Seq(Mandates) /\ Len(chain') = n + 1
              /\ chain'[n + 1] = child
              /\ \A i \in 1 .. n : chain'[i] = chain[i]
            BY <3>1, <3>2 DEF SubDelegate
        <3>4. drafted(child) /\ narrows(chain[n], child) /\ drafted(chain[n])
            BY <3>1, <3>2 DEF SubDelegate, ChainInv
        <3>5. \A i \in 1 .. n + 1 : i = n + 1 \/ i \in 1 .. n
            BY <3>2
        <3> HIDE DEF n
        <3>6. ChainType'
            BY <3>2, <3>3, MaxLinksAssumption, U32MaxAssumption DEF ChainType
        <3>7. \A i \in 1 .. Len(chain') : drafted(chain'[i])
            BY <3>3, <3>4, <3>5 DEF ChainInv, n
        <3>8. ASSUME NEW m \in Closed, NEW e \in Envs, accepts_stateless(child, m, e),
                     NEW i \in 1 .. n + 1
              PROVE  accepts_stateless(chain'[i], m, e)
            <4>1. accepts_stateless(chain[n], m, e)
                BY <3>4, <3>8, NarrowsSound, InputsAssumption
            <4>2. \A j \in 1 .. n : accepts_stateless(chain[j], m, e)
                BY <4>1 DEF ChainInv, n
            <4>3. QED  BY <3>3, <3>5, <3>8, <4>2
        <3>9. ASSUME NEW i \in 1 .. n + 1
              PROVE  \/ chain'[i].max_depth >= U32Max
                     \/ chain'[i].max_depth >= child.max_depth + ((n + 1) - i)
            <4>1. child.max_depth \in 0 .. U32Max /\ chain[n].max_depth \in 0 .. U32Max
                BY <3>4, DepthInRange
            <4>2. CASE i = n + 1
                BY <3>2, <3>3, <4>1, <4>2, U32MaxAssumption
            <4>3. CASE i \in 1 .. n
                <5>1. \/ chain[n].max_depth >= U32Max
                      \/ chain[n].max_depth >= child.max_depth + 1
                    BY <3>4, <4>1, U32MaxAssumption DEF narrows, saturating_add_1
                <5>2. drafted(chain[i])
                    BY <4>3 DEF ChainInv, n
                <5>3. chain[i].max_depth \in 0 .. U32Max
                    BY <5>2, DepthInRange
                <5>4. \/ chain[i].max_depth >= U32Max
                      \/ chain[i].max_depth >= chain[n].max_depth + (n - i)
                    BY <4>3 DEF ChainInv, n
                <5>5. chain'[i] = chain[i]
                    BY <3>3, <4>3
                <5>6. i \in Nat /\ i <= n
                    BY <3>2, <4>3
                <5>7. ASSUME NEW x \in Nat, NEW y \in Nat, NEW z \in Nat, NEW u \in Nat,
                             NEW k \in Nat, NEW j \in Nat, j <= k,
                             x >= u \/ x >= y + (k - j), y >= u \/ y >= z + 1
                      PROVE  x >= u \/ x >= z + ((k + 1) - j)
                    BY <5>7
                <5>8. /\ chain[i].max_depth \in Nat /\ chain[n].max_depth \in Nat
                      /\ child.max_depth \in Nat /\ U32Max \in Nat
                    BY <4>1, <5>3, U32MaxAssumption
                <5>9. QED  BY <3>2, <5>1, <5>4, <5>5, <5>6, <5>7, <5>8
            <4>4. QED  BY <3>5, <4>2, <4>3
        <3>10. QED  BY <3>3, <3>6, <3>7, <3>8, <3>9 DEF ChainInv
    <2>3. QED  BY <2>1, <2>2
<1>3. QED  BY <1>1, <1>2, PTL DEF ChainSpec

\* A chain whose links were each compared with their parent alone accepts at
\* its leaf only what every link accepts (evaluate.rs, narrows), for
\* mandates and chains of every size.
THEOREM LeafWithinEveryLinkTheorem == ChainSpec => []LeafWithinEveryLink
<1>1. ChainInv => LeafWithinEveryLink
    <2> SUFFICES ASSUME ChainInv, NEW m \in Closed, NEW e \in Envs,
                        accepts(chain[Len(chain)], m, e) = "ok"
                 PROVE  \A i \in 1 .. Len(chain) : accepts_stateless(chain[i], m, e)
        BY DEF LeafWithinEveryLink
    <2>1. DOMAIN chain[Len(chain)].constraints \subseteq Nat
        <3>1. chain[Len(chain)] \in Mandates
            BY DEF ChainInv, ChainType
        <3>2. QED  BY <3>1, MandatesAssumption DEF is_list
    <2>2. accepts_stateless(chain[Len(chain)], m, e)
        BY <2>1, AcceptsMeansEveryConstraint
    <2>3. QED  BY <2>2 DEF ChainInv
<1>2. QED  BY <1>1, ChainInvariant, PTL

\* time_window.rs, covered_by: "child window inside parent window" decides the
\* inclusion of the minutes of the week exactly, for windows of any number and
\* length: the sort-and-merge loop neither lets a window through that is open a
\* minute longer than its parents together, nor refuses one that is not.
THEOREM CoverageIsExactTheorem == ChainSpec => []CoverageIsExact
<1>1. ChainInv => CoverageIsExact
    <2> DEFINE exact(pc, cc) ==
                \A w \in cc.windows :
                    covered_by(w, pc.windows) <=>
                        minutes({w}) \subseteq
                            minutes({q \in pc.windows : q.timezone = w.timezone})
               windows(x) == x.type = "aap.time_windows"
    <2>1. ASSUME NEW pc, NEW cc, windows(pc), windows(cc), parses(pc), parses(cc)
          PROVE  exact(pc, cc)
        <3>1. pc.windows \subseteq TimeWindow /\ cc.windows \subseteq TimeWindow
            BY <2>1 DEF parses, ListTypes
        <3>2. QED  BY <3>1, CoveredByIsExact
    <2>2. ASSUME ChainInv, NEW i \in 1 .. Len(chain), NEW p \in DOMAIN chain[i].constraints
          PROVE  parses(chain[i].constraints[p])
        BY <2>2 DEF ChainInv, drafted, parse_error
    <2>3. CoverageIsExact <=>
            \A i, j \in 1 .. Len(chain) :
                \A p \in DOMAIN chain[i].constraints, c \in DOMAIN chain[j].constraints :
                    windows(chain[i].constraints[p]) /\ windows(chain[j].constraints[c]) =>
                        exact(chain[i].constraints[p], chain[j].constraints[c])
        BY DEF CoverageIsExact
    <2> HIDE DEF exact, windows
    <2>4. QED  BY <2>1, <2>2, <2>3
<1>2. QED  BY <1>1, ChainInvariant, PTL

\* Every link of such a chain allows the links that follow it, so the
\* verifier's depth check never refuses it.
THEOREM DepthAllowsChainTheorem == ChainSpec => []DepthAllowsChain
<1>1. ChainInv => DepthAllowsChain
    <2> SUFFICES ASSUME ChainInv, NEW i \in 1 .. Len(chain)
                 PROVE  Len(chain) - i <= chain[i].max_depth
        BY DEF DepthAllowsChain
    <2>1. Len(chain) \in Nat /\ Len(chain) <= U32Max + 1 /\ Len(chain) \in 1 .. Len(chain)
        BY MaxLinksAssumption, U32MaxAssumption DEF ChainInv, ChainType
    <2>2. drafted(chain[i]) /\ drafted(chain[Len(chain)])
        BY <2>1 DEF ChainInv
    <2>3. chain[i].max_depth \in 0 .. U32Max /\ chain[Len(chain)].max_depth \in 0 .. U32Max
        BY <2>2, DepthInRange
    <2>4. \/ chain[i].max_depth >= U32Max
          \/ chain[i].max_depth >= chain[Len(chain)].max_depth + (Len(chain) - i)
        BY DEF ChainInv
    <2>5. QED  BY <2>1, <2>3, <2>4, U32MaxAssumption
<1>2. QED  BY <1>1, ChainInvariant, PTL

-----------------------------------------------------------------------------
(***************************************************************************)
(* Sums of quantities (LineItems.tla, total)                               *)
(***************************************************************************)
\* What holds of 0, and of n + 1 if of n below m, holds up to m.
LEMMA UpTo ==
    ASSUME NEW m \in Nat, NEW S, 0 \in S, \A n \in 0 .. m - 1 : n \in S => n + 1 \in S
    PROVE  \A n \in 0 .. m : n \in S
<1> DEFINE T == {n \in 0 .. m : n \notin S}
<1> SUFFICES ASSUME T # {} PROVE FALSE
    OBVIOUS
<1>1. PICK n \in T : \A k \in T : n <= k
    <2>1. T \subseteq Nat /\ T # {}
        OBVIOUS
    <2> HIDE DEF T
    <2>2. QED  BY <2>1, LeastNatural
<1>2. n \in 0 .. m /\ n # 0 /\ n \notin S
    OBVIOUS
<1>3. n - 1 \in 0 .. m - 1 /\ n - 1 \notin T
    BY <1>1, <1>2
<1>4. n - 1 \in S
    BY <1>2, <1>3
<1>5. (n - 1) + 1 \in S
    BY <1>3, <1>4
<1>6. QED  BY <1>2, <1>5

Summed(f, q, m) == f = [k \in 0 .. m |-> IF k = 0 THEN 0 ELSE f[k - 1] + q[k]]

\* The loop over the quantities runs.
LEMMA SummedExists ==
    ASSUME NEW q, NEW m \in Nat
    PROVE  \E f : Summed(f, q, m)
<1> DEFINE S == {n \in Nat : \E f : Summed(f, q, n)}
<1>1. 0 \in S
    <2>1. Summed([k \in 0 .. 0 |-> 0], q, 0)
        BY DEF Summed
    <2>2. QED  BY <2>1
<1>2. ASSUME NEW n \in 0 .. m - 1, n \in S PROVE n + 1 \in S
    <2>1. PICK f : Summed(f, q, n)
        BY <1>2
    <2> DEFINE g == [k \in 0 .. n + 1 |-> IF k = n + 1 THEN f[n] + q[n + 1] ELSE f[k]]
    <2>2. \A k \in 0 .. n : g[k] = f[k]
        OBVIOUS
    <2>3. \A k \in 0 .. n : f[k] = IF k = 0 THEN 0 ELSE f[k - 1] + q[k]
        BY <2>1 DEF Summed
    <2>4. ASSUME NEW k \in 0 .. n + 1
          PROVE  g[k] = IF k = 0 THEN 0 ELSE g[k - 1] + q[k]
        <3>1. CASE k = n + 1
            <4>1. g[k] = f[n] + q[n + 1] /\ g[n] = f[n]
                BY <3>1, <2>2
            <4>2. k - 1 = n /\ k # 0
                BY <3>1
            <4> HIDE DEF g
            <4>3. QED  BY <3>1, <4>1, <4>2
        <3>2. CASE k \in 0 .. n
            <4>1. k # 0 => k - 1 \in 0 .. n
                BY <3>2
            <4>2. g[k] = f[k] /\ (k # 0 => g[k - 1] = f[k - 1])
                BY <3>2, <4>1, <2>2
            <4> HIDE DEF g
            <4>3. QED  BY <3>2, <4>2, <2>3
        <3>3. QED  BY <3>1, <3>2
    <2>5. Summed(g, q, n + 1)
        <3>1. g = [k \in 0 .. n + 1 |-> g[k]]
            OBVIOUS
        <3> HIDE DEF g
        <3>2. QED  BY <3>1, <2>4 DEF Summed
    <2>6. QED  BY <2>5
<1> HIDE DEF S
<1>3. m \in S
    BY <1>1, <1>2, UpTo
<1>4. QED  BY <1>3 DEF S

\* A longer loop computes the same on the way.
LEMMA SummedAgree ==
    ASSUME NEW q, NEW m \in Nat, NEW l \in Nat, m <= l,
           NEW f, Summed(f, q, m), NEW g, Summed(g, q, l)
    PROVE  f[m] = g[m]
<1> DEFINE S == {n \in Nat : f[n] = g[n]}
<1>0. /\ \A k \in 0 .. m : f[k] = IF k = 0 THEN 0 ELSE f[k - 1] + q[k]
      /\ \A k \in 0 .. l : g[k] = IF k = 0 THEN 0 ELSE g[k - 1] + q[k]
    BY DEF Summed
<1>1. 0 \in S
    BY <1>0
<1>2. ASSUME NEW n \in 0 .. m - 1, n \in S PROVE n + 1 \in S
    <2>1. n + 1 \in 0 .. m /\ n + 1 \in 0 .. l /\ n + 1 # 0 /\ (n + 1) - 1 = n
        OBVIOUS
    <2>2. f[n + 1] = f[n] + q[n + 1] /\ g[n + 1] = g[n] + q[n + 1]
        BY <1>0, <2>1
    <2>3. f[n] = g[n]
        BY <1>2
    <2>4. QED  BY <2>1, <2>2, <2>3
<1> HIDE DEF S
<1>3. m \in S
    BY <1>1, <1>2, UpTo
<1>4. QED  BY <1>3 DEF S

\* The sum is the last value of the loop.
LEMMA TotalIs ==
    ASSUME NEW q, NEW m \in Nat
    PROVE  \E f : Summed(f, q, m) /\ total(q, m) = f[m]
<1>1. Summed(CHOOSE f : Summed(f, q, m), q, m)
    BY SummedExists
<1>2. total(q, m) = (CHOOSE f : Summed(f, q, m))[m]
    BY DEF total, Summed
<1>3. QED  BY <1>1, <1>2

\* The sum of nothing, and of one more.
LEMMA TotalZero ==
    ASSUME NEW q
    PROVE  total(q, 0) = 0
<1>1. PICK f : Summed(f, q, 0) /\ total(q, 0) = f[0]
    BY TotalIs
<1>2. \A k \in 0 .. 0 : f[k] = IF k = 0 THEN 0 ELSE f[k - 1] + q[k]
    BY <1>1 DEF Summed
<1>3. f[0] = 0
    BY <1>2
<1>4. QED  BY <1>1, <1>3

\* One quantity more.
LEMMA TotalNext ==
    ASSUME NEW q, NEW m \in Nat
    PROVE  total(q, m + 1) = total(q, m) + q[m + 1]
<1>1. PICK f : Summed(f, q, m) /\ total(q, m) = f[m]
    BY TotalIs
<1>2. m + 1 \in Nat
    OBVIOUS
<1>3. PICK g : Summed(g, q, m + 1) /\ total(q, m + 1) = g[m + 1]
    BY <1>2, TotalIs
<1>4. f[m] = g[m]
    BY <1>1, <1>2, <1>3, SummedAgree
<1>5. \A k \in 0 .. m + 1 : g[k] = IF k = 0 THEN 0 ELSE g[k - 1] + q[k]
    BY <1>3 DEF Summed
<1>6. g[m + 1] = g[(m + 1) - 1] + q[m + 1]
    <2>1. m + 1 \in 0 .. m + 1 /\ m + 1 # 0
        OBVIOUS
    <2>2. QED  BY <1>5, <2>1
<1>7. (m + 1) - 1 = m
    OBVIOUS
<1>8. QED  BY <1>1, <1>3, <1>4, <1>6, <1>7

IsInts(q, m) == \A i \in 1 .. m : q[i] \in Int

\* A sum of integers is one.
LEMMA TotalInt ==
    ASSUME NEW m \in Nat, NEW q, IsInts(q, m)
    PROVE  total(q, m) \in Int
<1> DEFINE S == {n \in Nat : total(q, n) \in Int}
<1>1. 0 \in S
    BY TotalZero
<1>2. ASSUME NEW n \in 0 .. m - 1, n \in S PROVE n + 1 \in S
    <2>1. total(q, n + 1) = total(q, n) + q[n + 1]
        BY TotalNext
    <2>2. q[n + 1] \in Int
        BY DEF IsInts
    <2>3. QED  BY <1>2, <2>1, <2>2
<1> HIDE DEF S
<1>3. m \in S
    BY <1>1, <1>2, UpTo
<1>4. QED  BY <1>3 DEF S

\* Equal quantities have equal sums.
LEMMA TotalSame ==
    ASSUME NEW m \in Nat, NEW p, NEW q, \A i \in 1 .. m : p[i] = q[i]
    PROVE  total(p, m) = total(q, m)
<1> DEFINE S == {n \in Nat : total(p, n) = total(q, n)}
<1>1. 0 \in S
    BY TotalZero
<1>2. ASSUME NEW n \in 0 .. m - 1, n \in S PROVE n + 1 \in S
    <2>1. total(q, n + 1) = total(q, n) + q[n + 1]
        BY TotalNext
    <2>2. total(p, n + 1) = total(p, n) + p[n + 1]
        BY TotalNext
    <2>3. p[n + 1] = q[n + 1]
        OBVIOUS
    <2>4. total(p, n) = total(q, n)
        BY <1>2
    <2>5. QED  BY <2>1, <2>2, <2>3, <2>4
<1> HIDE DEF S
<1>3. m \in S
    BY <1>1, <1>2, UpTo
<1>4. QED  BY <1>3 DEF S

\* The sum of sums.
LEMMA TotalAdd ==
    ASSUME NEW m \in Nat, NEW p, IsInts(p, m), NEW q, IsInts(q, m),
           NEW r, \A i \in 1 .. m : r[i] = p[i] + q[i]
    PROVE  total(r, m) = total(p, m) + total(q, m)
<1> DEFINE S == {n \in Nat : /\ total(p, n) \in Int /\ total(q, n) \in Int
                             /\ total(r, n) = total(p, n) + total(q, n)}
<1>1. 0 \in S
    BY TotalZero
<1>2. ASSUME NEW n \in 0 .. m - 1, n \in S PROVE n + 1 \in S
    <2>1. total(q, n + 1) = total(q, n) + q[n + 1]
        BY TotalNext
    <2>2. total(p, n + 1) = total(p, n) + p[n + 1]
        BY TotalNext
    <2>3. total(r, n + 1) = total(r, n) + r[n + 1]
        BY TotalNext
    <2>4. p[n + 1] \in Int /\ q[n + 1] \in Int /\ r[n + 1] = p[n + 1] + q[n + 1]
        BY DEF IsInts
    <2>5. /\ total(p, n) \in Int /\ total(q, n) \in Int
          /\ total(r, n) = total(p, n) + total(q, n)
        BY <1>2
    <2>6. QED  BY <2>1, <2>2, <2>3, <2>4, <2>5
<1> HIDE DEF S
<1>3. m \in S
    BY <1>1, <1>2, UpTo
<1>4. QED  BY <1>3 DEF S

\* The sum of what is taken away.
LEMMA TotalNegated ==
    ASSUME NEW m \in Nat, NEW q, IsInts(q, m),
           NEW r, \A i \in 1 .. m : r[i] = - q[i]
    PROVE  total(r, m) = - total(q, m)
<1> DEFINE S == {n \in Nat : total(q, n) \in Int /\ total(r, n) = - total(q, n)}
<1>1. 0 \in S
    BY TotalZero
<1>2. ASSUME NEW n \in 0 .. m - 1, n \in S PROVE n + 1 \in S
    <2>1. total(q, n + 1) = total(q, n) + q[n + 1]
        BY TotalNext
    <2>3. total(r, n + 1) = total(r, n) + r[n + 1]
        BY TotalNext
    <2>4. q[n + 1] \in Int /\ r[n + 1] = - q[n + 1]
        BY DEF IsInts
    <2>5. total(q, n) \in Int /\ total(r, n) = - total(q, n)
        BY <1>2
    <2>6. QED  BY <2>1, <2>3, <2>4, <2>5
<1> HIDE DEF S
<1>3. m \in S
    BY <1>1, <1>2, UpTo
<1>4. QED  BY <1>3 DEF S

\* A sum of parts that are none of them more is no more, and strictly less when
\* one of them is.
LEMMA TotalLess ==
    ASSUME NEW m \in Nat, NEW p, IsInts(p, m), NEW q, IsInts(q, m),
           \A i \in 1 .. m : p[i] <= q[i]
    PROVE  /\ total(p, m) <= total(q, m)
           /\ total(p, m) = total(q, m) => \A i \in 1 .. m : p[i] = q[i]
<1> DEFINE S == {n \in Nat : /\ total(p, n) \in Int /\ total(q, n) \in Int
                             /\ total(p, n) <= total(q, n)
                             /\ total(p, n) = total(q, n) => \A i \in 1 .. n : p[i] = q[i]}
<1>1. 0 \in S
    <2>1. total(p, 0) = 0 /\ total(q, 0) = 0
        BY TotalZero
    <2>2. \A i \in 1 .. 0 : p[i] = q[i]
        OBVIOUS
    <2>3. QED  BY <2>1, <2>2
<1>2. ASSUME NEW n \in 0 .. m - 1, n \in S PROVE n + 1 \in S
    <2>1. total(q, n + 1) = total(q, n) + q[n + 1]
        BY TotalNext
    <2>2. total(p, n + 1) = total(p, n) + p[n + 1]
        BY TotalNext
    <2>4. p[n + 1] \in Int /\ q[n + 1] \in Int /\ p[n + 1] <= q[n + 1]
        BY DEF IsInts
    <2>5. /\ total(p, n) \in Int /\ total(q, n) \in Int
          /\ total(p, n) <= total(q, n)
          /\ total(p, n) = total(q, n) => \A i \in 1 .. n : p[i] = q[i]
        BY <1>2
    <2>6. /\ total(p, n + 1) \in Int /\ total(q, n + 1) \in Int
          /\ total(p, n + 1) <= total(q, n + 1)
        BY <2>1, <2>2, <2>4, <2>5
    <2>7. ASSUME total(p, n + 1) = total(q, n + 1), NEW i \in 1 .. n + 1 PROVE p[i] = q[i]
        <3>1. total(p, n) = total(q, n) /\ p[n + 1] = q[n + 1]
            BY <2>1, <2>2, <2>4, <2>5, <2>7
        <3>2. i \in 1 .. n \/ i = n + 1
            OBVIOUS
        <3>3. QED  BY <2>5, <3>1, <3>2
    <2>8. QED  BY <2>6, <2>7
<1> HIDE DEF S
<1>3. m \in S
    BY <1>1, <1>2, UpTo
<1>4. QED  BY <1>3 DEF S

\* Nothing sums up to nothing.
LEMMA TotalNull ==
    ASSUME NEW m \in Nat, NEW q, \A i \in 1 .. m : q[i] = 0
    PROVE  total(q, m) = 0
<1> DEFINE S == {n \in Nat : total(q, n) = 0}
<1>1. 0 \in S
    BY TotalZero
<1>2. ASSUME NEW n \in 0 .. m - 1, n \in S PROVE n + 1 \in S
    <2>1. total(q, n + 1) = total(q, n) + q[n + 1]
        BY TotalNext
    <2>2. q[n + 1] = 0 /\ total(q, n) = 0
        BY <1>2
    <2>3. QED  BY <2>1, <2>2
<1> HIDE DEF S
<1>3. m \in S
    BY <1>1, <1>2, UpTo
<1>4. QED  BY <1>3 DEF S

\* A sum of quantities is a quantity.
LEMMA TotalNat ==
    ASSUME NEW m \in Nat, NEW q, \A i \in 1 .. m : q[i] \in Nat
    PROVE  total(q, m) \in Nat
<1> DEFINE S == {n \in Nat : total(q, n) \in Nat}
<1>1. 0 \in S
    BY TotalZero
<1>2. ASSUME NEW n \in 0 .. m - 1, n \in S PROVE n + 1 \in S
    <2>1. total(q, n + 1) = total(q, n) + q[n + 1]
        BY TotalNext
    <2>2. q[n + 1] \in Nat
        OBVIOUS
    <2>3. QED  BY <1>2, <2>1, <2>2
<1> HIDE DEF S
<1>3. m \in S
    <2>1. m \in Nat
        OBVIOUS
    <2>2. QED  BY ONLY <1>1, <1>2, <2>1, UpTo
<1>4. QED  BY <1>3 DEF S

\* A sum with one part that is not zero is that part.
LEMMA TotalOne ==
    ASSUME NEW m \in Nat, NEW p \in 1 .. m, NEW q, q[p] \in Int,
           \A i \in 1 .. m : i # p => q[i] = 0
    PROVE  total(q, m) = q[p]
<1> DEFINE S == {n \in Nat : total(q, n) = IF n < p THEN 0 ELSE q[p]}
<1>1. 0 \in S
    BY TotalZero
<1>2. ASSUME NEW n \in 0 .. m - 1, n \in S PROVE n + 1 \in S
    <2>1. total(q, n + 1) = total(q, n) + q[n + 1]
        BY TotalNext
    <2>2. total(q, n) = IF n < p THEN 0 ELSE q[p]
        BY <1>2
    <2>3. CASE n + 1 = p
        BY <2>1, <2>2, <2>3
    <2>4. CASE n + 1 # p
        <3>1. q[n + 1] = 0
            BY <2>4
        <3>2. (n + 1 < p) <=> (n < p)
            BY <2>4
        <3>3. total(q, n + 1) = total(q, n)
            BY <2>1, <2>2, <3>1
        <3>4. QED  BY <2>2, <3>2, <3>3
    <2>5. QED  BY <2>3, <2>4
<1> HIDE DEF S
<1>3. m \in S
    <2>1. m \in Nat /\ m \in 0 .. m
        OBVIOUS
    <2>2. \A n \in 0 .. m : n \in S
        BY ONLY <1>1, <1>2, <2>1, UpTo
    <2>3. QED  BY ONLY <2>1, <2>2
<1>4. QED  BY <1>3 DEF S

\* A sum in two parts.
LEMMA TotalSplit ==
    ASSUME NEW a \in Nat, NEW b \in Nat, NEW q, IsInts(q, a + b)
    PROVE  total(q, a + b) = total(q, a) + total([j \in 1 .. b |-> q[a + j]], b)
<1> DEFINE tail == [j \in 1 .. b |-> q[a + j]]
           S == {n \in Nat : total(tail, n) \in Int /\ total(q, a + n) = total(q, a) + total(tail, n)}
<1>0. total(q, a) \in Int
    <2>1. IsInts(q, a)
        BY DEF IsInts
    <2>2. QED  BY <2>1, TotalInt
<1>1. 0 \in S
    <2>1. total(tail, 0) = 0
        BY TotalZero
    <2>2. a + 0 = a
        OBVIOUS
    <2> HIDE DEF tail
    <2>3. QED  BY <1>0, <2>1, <2>2
<1>2. ASSUME NEW n \in 0 .. b - 1, n \in S PROVE n + 1 \in S
    <2>1. tail[n + 1] = q[a + (n + 1)] /\ q[a + (n + 1)] \in Int
        BY DEF IsInts
    <2> HIDE DEF tail
    <2>2. total(tail, n + 1) = total(tail, n) + tail[n + 1]
        BY TotalNext
    <2>3. a + n \in Nat /\ a + (n + 1) = (a + n) + 1
        OBVIOUS
    <2>4. total(q, (a + n) + 1) = total(q, a + n) + q[(a + n) + 1]
        BY <2>3, TotalNext
    <2>5. total(tail, n) \in Int /\ total(q, a + n) = total(q, a) + total(tail, n)
        BY <1>2
    <2>6. total(q, a + (n + 1)) = total(q, a) + total(tail, n + 1)
        BY <1>0, <2>1, <2>2, <2>3, <2>4, <2>5
    <2>7. total(tail, n + 1) \in Int
        BY <2>1, <2>2, <2>5
    <2>8. QED  BY <2>6, <2>7
<1> HIDE DEF S, tail
<1>3. b \in S
    BY <1>1, <1>2, UpTo
<1>4. QED  BY <1>3 DEF S, tail

-----------------------------------------------------------------------------
\* Tables of quantities: the sums of the rows and of the columns.
IsTable(M, a, b) == \A u \in 1 .. a, v \in 1 .. b : M[<<u, v>>] \in Int
Row(M, u, b) == [v \in 1 .. b |-> M[<<u, v>>]]
Col(M, v, a) == [u \in 1 .. a |-> M[<<u, v>>]]
RowSums(M, a, b) == [u \in 1 .. a |-> total(Row(M, u, b), b)]
ColSums(M, a, b) == [v \in 1 .. b |-> total(Col(M, v, a), a)]

\* The rows and the columns of a table have sums.
LEMMA RowInt ==
    ASSUME NEW a \in Nat, NEW b \in Nat, NEW M, IsTable(M, a, b)
    PROVE  /\ \A u \in 1 .. a : IsInts(Row(M, u, b), b) /\ total(Row(M, u, b), b) \in Int
           /\ \A v \in 1 .. b : IsInts(Col(M, v, a), a) /\ total(Col(M, v, a), a) \in Int
           /\ IsInts(RowSums(M, a, b), a) /\ IsInts(ColSums(M, a, b), b)
<1>1. ASSUME NEW u \in 1 .. a
      PROVE  IsInts(Row(M, u, b), b) /\ total(Row(M, u, b), b) \in Int
    <2>1. IsInts(Row(M, u, b), b)
        BY DEF IsInts, IsTable, Row
    <2>2. QED  BY <2>1, TotalInt
<1>2. ASSUME NEW v \in 1 .. b
      PROVE  IsInts(Col(M, v, a), a) /\ total(Col(M, v, a), a) \in Int
    <2>1. IsInts(Col(M, v, a), a)
        BY DEF IsInts, IsTable, Col
    <2>2. QED  BY <2>1, TotalInt
<1>3. IsInts(RowSums(M, a, b), a) /\ IsInts(ColSums(M, a, b), b)
    BY <1>1, <1>2 DEF IsInts, RowSums, ColSums
<1>4. QED  BY <1>1, <1>2, <1>3

\* Summed up by rows or by columns, a table has one total.
LEMMA RowsAreCols ==
    ASSUME NEW a \in Nat, NEW b \in Nat, NEW M, IsTable(M, a, b)
    PROVE  total(RowSums(M, a, b), a) = total(ColSums(M, a, b), b)
<1> DEFINE S == {n \in Nat : total(RowSums(M, n, b), n) = total(ColSums(M, n, b), b)}
<1>1. 0 \in S
    <2>1. \A v \in 1 .. b : ColSums(M, 0, b)[v] = 0
        BY TotalZero DEF ColSums
    <2>2. total(ColSums(M, 0, b), b) = 0
        BY <2>1, TotalNull
    <2>3. total(RowSums(M, 0, b), 0) = 0
        BY TotalZero
    <2>4. QED  BY <2>2, <2>3
<1>2. ASSUME NEW n \in 0 .. a - 1, n \in S PROVE n + 1 \in S
    <2>0. n \in Nat /\ n + 1 \in Nat /\ n + 1 \in 1 .. n + 1
        OBVIOUS
    <2>1. IsTable(M, n + 1, b) /\ IsTable(M, n, b)
        BY DEF IsTable
    <2>2. total(RowSums(M, n + 1, b), n + 1) = total(RowSums(M, n + 1, b), n) + RowSums(M, n + 1, b)[n + 1]
        BY <2>0, TotalNext
    <2>3. total(RowSums(M, n + 1, b), n) = total(RowSums(M, n, b), n)
        <3>1. \A i \in 1 .. n : RowSums(M, n + 1, b)[i] = RowSums(M, n, b)[i]
            BY DEF RowSums
        <3>2. QED  BY <2>0, <3>1, TotalSame
    <2>4. RowSums(M, n + 1, b)[n + 1] = total(Row(M, n + 1, b), b)
        BY <2>0 DEF RowSums
    <2>5. ASSUME NEW v \in 1 .. b
          PROVE  ColSums(M, n + 1, b)[v] = ColSums(M, n, b)[v] + Row(M, n + 1, b)[v]
        <3>1. ColSums(M, n + 1, b)[v] = total(Col(M, v, n + 1), n + 1)
            BY DEF ColSums
        <3>2. total(Col(M, v, n + 1), n + 1) = total(Col(M, v, n + 1), n) + Col(M, v, n + 1)[n + 1]
            BY <2>0, TotalNext
        <3>3. total(Col(M, v, n + 1), n) = total(Col(M, v, n), n)
            <4>1. \A i \in 1 .. n : Col(M, v, n + 1)[i] = Col(M, v, n)[i]
                BY DEF Col
            <4>2. QED  BY <2>0, <4>1, TotalSame
        <3>4. Col(M, v, n + 1)[n + 1] = M[<<n + 1, v>>] /\ Row(M, n + 1, b)[v] = M[<<n + 1, v>>]
            BY <2>0 DEF Col, Row
        <3>5. ColSums(M, n, b)[v] = total(Col(M, v, n), n)
            BY DEF ColSums
        <3>6. QED  BY ONLY <3>1, <3>2, <3>3, <3>4, <3>5
    <2>6. IsInts(ColSums(M, n, b), b) /\ IsInts(Row(M, n + 1, b), b)
        BY <2>0, <2>1, RowInt
    <2>7. total(ColSums(M, n + 1, b), b) = total(ColSums(M, n, b), b) + total(Row(M, n + 1, b), b)
        BY <2>5, <2>6, TotalAdd
    <2>8. total(RowSums(M, n, b), n) = total(ColSums(M, n, b), b)
        BY <1>2
    <2>9. total(RowSums(M, n + 1, b), n + 1) = total(ColSums(M, n + 1, b), b)
        BY ONLY <2>2, <2>3, <2>4, <2>7, <2>8
    <2>10. QED  BY <2>0, <2>9
<1>3. \A n \in 0 .. a : n \in S
    <2>1. a \in Nat
        OBVIOUS
    <2> HIDE DEF S
    <2>2. QED  BY ONLY <1>1, <1>2, <2>1, UpTo
<1>4. a \in S
    <2>1. a \in 0 .. a
        OBVIOUS
    <2>2. QED  BY <1>3, <2>1
<1>5. QED  BY <1>4

\* What is taken from one is given to the other: in all, nothing.
LEMMA AllIsNothing ==
    ASSUME NEW n \in Nat, NEW M, IsTable(M, n, n), \A u, v \in 1 .. n : M[<<v, u>>] = - M[<<u, v>>]
    PROVE  total(RowSums(M, n, n), n) = 0
<1>1. total(RowSums(M, n, n), n) = total(ColSums(M, n, n), n)
    BY RowsAreCols
<1>2. ASSUME NEW u \in 1 .. n PROVE ColSums(M, n, n)[u] = - RowSums(M, n, n)[u]
    <2>1. IsInts(Row(M, u, n), n)
        BY RowInt
    <2>2. \A v \in 1 .. n : Col(M, u, n)[v] = - Row(M, u, n)[v]
        BY DEF Row, Col
    <2>3. total(Col(M, u, n), n) = - total(Row(M, u, n), n)
        BY <2>1, <2>2, TotalNegated
    <2>4. QED  BY <2>3 DEF RowSums, ColSums
<1>3. IsInts(RowSums(M, n, n), n)
    BY RowInt
<1>4. total(ColSums(M, n, n), n) = - total(RowSums(M, n, n), n)
    BY <1>2, <1>3, TotalNegated
<1>5. total(RowSums(M, n, n), n) \in Int
    BY <1>3, TotalInt
<1>6. QED  BY <1>1, <1>4, <1>5

-----------------------------------------------------------------------------
\* What flows between the nodes 0 .. n - 1: from u to v as much as not from v
\* to u; `out` is what leaves u.
IsFlow(F, n) == \A u, v \in 0 .. n - 1 : F[<<u, v>>] \in Int /\ F[<<v, u>>] = - F[<<u, v>>]
from(F, u, n) == [k \in 1 .. n |-> F[<<u, k - 1>>]]
out(F, u, n) == total(from(F, u, n), n)

\* Where nothing flows into R and nothing is lost in it but at the source, the
\* source is left with nothing less than nothing.
LEMMA Cut ==
    ASSUME NEW n \in Nat, n > 0, NEW F, IsFlow(F, n), NEW R, R \subseteq 0 .. n - 1, 0 \in R,
           \A u \in R : u # 0 => out(F, u, n) = 0,
           \A u \in R, v \in 0 .. n - 1 : v \notin R => F[<<u, v>>] >= 0
    PROVE  out(F, 0, n) >= 0
<1> DEFINE M == [e \in (1 .. n) \X (1 .. n) |->
                    IF e[1] - 1 \in R /\ e[2] - 1 \in R THEN F[e[1] - 1, e[2] - 1] ELSE 0]
<1>0. \A i \in 1 .. n : i - 1 \in 0 .. n - 1
    OBVIOUS
<1>1. \A i, j \in 1 .. n : M[<<i, j>>] = IF i - 1 \in R /\ j - 1 \in R THEN F[<<i - 1, j - 1>>] ELSE 0
    OBVIOUS
<1> HIDE DEF M
<1>2. IsTable(M, n, n)
    <2>1. \A i, j \in 1 .. n : F[<<i - 1, j - 1>>] \in Int
        BY <1>0 DEF IsFlow
    <2>2. ASSUME NEW i \in 1 .. n, NEW j \in 1 .. n PROVE M[<<i, j>>] \in Int
        <3>1. F[<<i - 1, j - 1>>] \in Int
            BY <2>1
        <3>2. M[<<i, j>>] = F[<<i - 1, j - 1>>] \/ M[<<i, j>>] = 0
            BY <1>1
        <3>3. QED  BY <3>1, <3>2
    <2>3. QED  BY ONLY <2>2 DEF IsTable
<1>3. ASSUME NEW i \in 1 .. n, NEW j \in 1 .. n PROVE M[<<j, i>>] = - M[<<i, j>>]
    <2>1. F[<<j - 1, i - 1>>] = - F[<<i - 1, j - 1>>] /\ F[<<i - 1, j - 1>>] \in Int
        BY <1>0 DEF IsFlow
    <2>2. QED  BY <1>1, <2>1
<1>4. total(RowSums(M, n, n), n) = 0
    BY <1>2, <1>3, AllIsNothing
<1> DEFINE q == [i \in 1 .. n |-> IF i = 1 THEN out(F, 0, n) ELSE 0]
<1>5. \A u \in 0 .. n - 1 : IsInts(from(F, u, n), n) /\ out(F, u, n) \in Int
    <2> SUFFICES ASSUME NEW u \in 0 .. n - 1
                 PROVE  IsInts(from(F, u, n), n) /\ out(F, u, n) \in Int
        OBVIOUS
    <2>1. IsInts(from(F, u, n), n)
        BY <1>0 DEF from, IsInts, IsFlow
    <2>2. QED  BY <2>1, TotalInt DEF out
<1>6. IsInts(q, n)
    <2>1. 0 \in 0 .. n - 1
        OBVIOUS
    <2>2. QED  BY <1>5, <2>1 DEF IsInts
<1>7. ASSUME NEW i \in 1 .. n PROVE RowSums(M, n, n)[i] <= q[i]
    <2>1. RowSums(M, n, n)[i] = total(Row(M, i, n), n)
        BY DEF RowSums
    <2>2. CASE i - 1 \in R
        <3>1. \A j \in 1 .. n : Row(M, i, n)[j] <= from(F, i - 1, n)[j]
            <4> SUFFICES ASSUME NEW j \in 1 .. n PROVE Row(M, i, n)[j] <= from(F, i - 1, n)[j]
                OBVIOUS
            <4>1. Row(M, i, n)[j] = M[<<i, j>>] /\ from(F, i - 1, n)[j] = F[<<i - 1, j - 1>>]
                BY DEF Row, from
            <4>2. F[<<i - 1, j - 1>>] \in Int
                BY <1>0 DEF IsFlow
            <4>3. j - 1 \notin R => F[<<i - 1, j - 1>>] >= 0
                BY <1>0, <2>2
            <4>4. QED  BY <1>1, <2>2, <4>1, <4>2, <4>3
        <3>2. IsInts(Row(M, i, n), n) /\ IsInts(from(F, i - 1, n), n)
            BY <1>0, <1>2, <1>5, RowInt
        <3>3. total(Row(M, i, n), n) <= out(F, i - 1, n)
            BY <3>1, <3>2, TotalLess DEF out
        <3>4. out(F, i - 1, n) = q[i]
            <4>1. i - 1 # 0 => out(F, i - 1, n) = 0
                BY <2>2
            <4>2. i - 1 = 0 <=> i = 1
                OBVIOUS
            <4>3. QED  BY <4>1, <4>2
        <3>5. QED  BY <2>1, <3>3, <3>4
    <2>3. CASE i - 1 \notin R
        <3>1. \A j \in 1 .. n : Row(M, i, n)[j] = 0
            BY <1>1, <2>3 DEF Row
        <3>2. total(Row(M, i, n), n) = 0
            BY <3>1, TotalNull
        <3>3. i # 1
            BY <2>3
        <3>4. q[i] = 0
            BY <3>3
        <3>5. QED  BY <2>1, <3>2, <3>4
    <2>4. QED  BY <2>2, <2>3
<1>8. total(q, n) = out(F, 0, n)
    <2>1. 1 \in 1 .. n /\ q[1] = out(F, 0, n) /\ 0 \in 0 .. n - 1
        OBVIOUS
    <2>2. q[1] \in Int
        BY <1>5, <2>1
    <2>3. \A i \in 1 .. n : i # 1 => q[i] = 0
        OBVIOUS
    <2> HIDE DEF q
    <2>4. QED  BY <2>1, <2>2, <2>3, TotalOne
<1>9. IsInts(RowSums(M, n, n), n)
    BY <1>2, RowInt
<1> HIDE DEF q
<1>10. total(RowSums(M, n, n), n) <= total(q, n)
    BY <1>6, <1>7, <1>9, TotalLess
<1>11. QED  BY <1>4, <1>8, <1>10

-----------------------------------------------------------------------------
(***************************************************************************)
(* The search (max_flow's inner loops): a tree of parents over the nodes   *)
(* reached, every node of it waiting in the queue or done with.            *)
(***************************************************************************)
Residual(cap, n) == \A u, v \in 0 .. n - 1 : cap[<<u, v>>] \in Nat

Tree(cap, par, n) ==
    /\ DOMAIN par \subseteq 0 .. n - 1 /\ 0 \in DOMAIN par /\ par[0] = 0
    /\ \A v \in DOMAIN par : v # 0 => par[v] \in DOMAIN par /\ cap[<<par[v], v>>] # 0

\* The length of the way to the source.
Depths(par, d, l) ==
    /\ \A v \in DOMAIN par : d[v] \in Nat /\ d[v] < l
    /\ \A v \in DOMAIN par : d[v] = IF v = 0 THEN 0 ELSE d[par[v]] + 1

\* c nodes have left the queue.
Searching(cap, st, n, c) ==
    /\ Tree(cap, st.parent, n)
    /\ \E d : Depths(st.parent, d, Cardinality(DOMAIN st.parent))
    /\ st.queue \in Seq(DOMAIN st.parent)
    /\ Cardinality(DOMAIN st.parent) = Len(st.queue) + c

Waiting(st, u) == \E i \in 1 .. Len(st.queue) : st.queue[i] = u
Done(cap, st, u, k) == \A v \in 0 .. k - 1 : cap[<<u, v>>] # 0 => v \in DOMAIN st.parent

\* A set of nodes is finite, and has no more than there are.
LEMMA NodesFinite ==
    ASSUME NEW n \in Nat, NEW D, D \subseteq 0 .. n - 1
    PROVE  IsFiniteSet(D) /\ Cardinality(D) \in Nat /\ Cardinality(D) <= n
<1>1. 0 \in Int /\ n - 1 \in Int
    OBVIOUS
<1>2. IsFiniteSet(0 .. n - 1) /\ Cardinality(0 .. n - 1) = IF 0 > n - 1 THEN 0 ELSE (n - 1) - 0 + 1
    BY <1>1, FS_Interval
<1>3. Cardinality(0 .. n - 1) = n
    BY <1>2
<1>4. IsFiniteSet(D) /\ Cardinality(D) <= Cardinality(0 .. n - 1)
    BY <1>2, FS_Subset
<1>5. Cardinality(D) \in Nat
    BY <1>4, FS_CardinalityType
<1>6. QED  BY <1>3, <1>4, <1>5

Grown(cap, st, r, n, c, u, v) ==
    /\ Searching(cap, r, n, c)
    /\ DOMAIN st.parent \subseteq DOMAIN r.parent
    /\ cap[<<u, v>>] # 0 => v \in DOMAIN r.parent
    /\ \A w : Waiting(st, w) => Waiting(r, w)
    /\ \A w \in DOMAIN r.parent : w \in DOMAIN st.parent \/ Waiting(r, w)

\* A node that is reached joins the tree and the queue.
LEMMA ReachStep ==
    ASSUME NEW n \in Nat, NEW cap, NEW st, NEW c \in Nat, Searching(cap, st, n, c),
           NEW u \in DOMAIN st.parent, NEW v \in 0 .. n - 1
    PROVE  Grown(cap, st, reach(cap, st, u, v), n, c, u, v)
<1> DEFINE r == reach(cap, st, u, v)
           D == DOMAIN st.parent
           par == [w \in D \cup {v} |-> IF w = v THEN u ELSE st.parent[w]]
           que == Append(st.queue, v)
<1>1. CASE v \in DOMAIN st.parent \/ cap[<<u, v>>] = 0
    <2>1. r = st
        BY <1>1 DEF reach
    <2> HIDE DEF r
    <2>2. Grown(cap, st, r, n, c, u, v)
        BY <1>1, <2>1 DEF Grown
    <2>3. QED  BY <2>2 DEF r
<1>2. CASE v \notin D /\ cap[<<u, v>>] # 0
    <2>1. r = [queue |-> que, parent |-> par]
        BY <1>2 DEF reach
    <2>2. r.queue = que /\ r.parent = par
        BY <2>1
    <2>3. /\ DOMAIN par = D \cup {v}
          /\ par[v] = u
          /\ \A w \in D : par[w] = st.parent[w]
        BY <1>2
    <2>4. Tree(cap, st.parent, n) /\ st.queue \in Seq(D) /\ Cardinality(D) = Len(st.queue) + c
        BY DEF Searching
    <2>5. PICK d : Depths(st.parent, d, Cardinality(D))
        BY DEF Searching
    <2>6. D \subseteq 0 .. n - 1 /\ 0 \in D /\ v # 0
        BY <1>2, <2>4 DEF Tree
    <2>7. /\ IsFiniteSet(D) /\ Cardinality(D) \in Nat
          /\ Cardinality(D \cup {v}) = Cardinality(D) + 1
        BY <1>2, <2>6, NodesFinite, FS_AddElement
    <2>8. /\ que \in Seq(D \cup {v}) /\ Len(que) = Len(st.queue) + 1
          /\ \A i \in 1 .. Len(st.queue) : que[i] = st.queue[i]
          /\ que[Len(que)] = v /\ Len(st.queue) \in Nat
        <3>1. st.queue \in Seq(D \cup {v}) /\ v \in D \cup {v}
            BY <2>4, SeqMonotonic
        <3> HIDE DEF D
        <3>2. QED  BY <3>1, AppendProperties, LenProperties
    <2> DEFINE dd == [w \in D \cup {v} |-> IF w = v THEN d[u] + 1 ELSE d[w]]
    <2>9. Depths(par, dd, Cardinality(D) + 1)
        <3>1. /\ dd[v] = d[u] + 1
              /\ \A w \in D : dd[w] = d[w]
            BY <1>2
        <3>2. /\ \A w \in D : d[w] \in Nat /\ d[w] < Cardinality(D)
              /\ \A w \in D : d[w] = IF w = 0 THEN 0 ELSE d[st.parent[w]] + 1
            BY <2>5 DEF Depths
        <3>3. \A w \in D : w # 0 => st.parent[w] \in D
            BY <2>4 DEF Tree
        <3>4. u \in D
            OBVIOUS
        <3> HIDE DEF dd, par, D
        <3>5. ASSUME NEW w \in DOMAIN par
              PROVE  /\ dd[w] \in Nat /\ dd[w] < Cardinality(D) + 1
                     /\ dd[w] = IF w = 0 THEN 0 ELSE dd[par[w]] + 1
            <4>1. CASE w = v
                <5>1. d[u] \in Nat /\ d[u] < Cardinality(D) /\ dd[u] = d[u]
                    BY <3>1, <3>2, <3>4
                <5>2. QED  BY <2>3, <2>6, <2>7, <3>1, <4>1, <5>1
            <4>2. CASE w \in D
                <5>1. w # 0 => par[w] = st.parent[w] /\ dd[st.parent[w]] = d[st.parent[w]]
                    BY <2>3, <3>1, <3>3, <4>2
                <5>2. d[w] \in Nat /\ d[w] < Cardinality(D) /\ dd[w] = d[w]
                    BY <3>1, <3>2, <4>2
                <5>3. d[w] = IF w = 0 THEN 0 ELSE d[st.parent[w]] + 1
                    BY <3>2, <4>2
                <5>4. QED  BY <2>7, <5>1, <5>2, <5>3
            <4>3. QED  BY <2>3, <4>1, <4>2
        <3>6. QED  BY <3>5 DEF Depths
    <2>10. Tree(cap, par, n)
        <3>1. \A w \in D : w # 0 => st.parent[w] \in D /\ cap[<<st.parent[w], w>>] # 0
            BY <2>4 DEF Tree
        <3>2. u \in D
            OBVIOUS
        <3> HIDE DEF par, D
        <3>3. DOMAIN par \subseteq 0 .. n - 1 /\ 0 \in DOMAIN par /\ par[0] = 0
            BY <2>3, <2>4, <2>6 DEF Tree
        <3>4. \A w \in DOMAIN par : w # 0 => par[w] \in DOMAIN par /\ cap[<<par[w], w>>] # 0
            BY <1>2, <2>3, <3>1, <3>2
        <3>5. QED  BY <3>3, <3>4 DEF Tree
    <2> HIDE DEF par, que, dd, D, r
    <2>11. Searching(cap, r, n, c)
        <3>1. Cardinality(DOMAIN par) = Cardinality(D) + 1
            BY <2>3, <2>7
        <3>2. \E e : Depths(par, e, Cardinality(DOMAIN par))
            BY <2>9, <3>1
        <3>3. que \in Seq(DOMAIN par)
            BY <2>3, <2>8
        <3>4. Cardinality(DOMAIN par) = Len(que) + c
            BY <2>4, <2>7, <2>8, <3>1
        <3>5. QED  BY <2>2, <2>10, <3>2, <3>3, <3>4 DEF Searching
    <2>12. \A w : Waiting(st, w) => Waiting(r, w)
        <3> SUFFICES ASSUME NEW w, Waiting(st, w) PROVE Waiting(r, w)
            OBVIOUS
        <3>1. PICK i \in 1 .. Len(st.queue) : st.queue[i] = w
            BY DEF Waiting
        <3>2. i \in 1 .. Len(que) /\ que[i] = w
            BY <2>8, <3>1
        <3>3. QED  BY <2>2, <3>2 DEF Waiting
    <2>13. Waiting(r, v)
        <3>1. Len(que) \in 1 .. Len(que) /\ que[Len(que)] = v
            BY <2>8
        <3>2. QED  BY <2>2, <3>1 DEF Waiting
    <2>14. /\ D \subseteq DOMAIN r.parent /\ v \in DOMAIN r.parent
           /\ \A w \in DOMAIN r.parent : w \in D \/ w = v
        BY <2>2, <2>3
    <2>15. Grown(cap, st, r, n, c, u, v)
        BY <2>11, <2>12, <2>13, <2>14 DEF Grown, D
    <2>16. QED  BY <2>15 DEF r
<1>3. QED  BY <1>1, <1>2

popped(st) == [queue |-> Tail(st.queue), parent |-> st.parent]

Passing(f, cap, st, n) ==
    f = [k \in 0 .. n |-> IF k = 0 THEN popped(st) ELSE reach(cap, f[k - 1], Head(st.queue), k - 1)]

\* The turn of the loop for the head of the queue runs through the nodes.
LEMMA PassingExists ==
    ASSUME NEW cap, NEW st, NEW n \in Nat
    PROVE  \E f : Passing(f, cap, st, n)
<1> DEFINE S == {m \in Nat : \E f : Passing(f, cap, st, m)}
<1>1. 0 \in S
    <2> DEFINE g == [k \in 0 .. 0 |-> popped(st)]
    <2>1. Passing(g, cap, st, 0)
        BY DEF Passing
    <2>2. QED  BY <2>1
<1>2. ASSUME NEW m \in 0 .. n - 1, m \in S PROVE m + 1 \in S
    <2>1. PICK f : Passing(f, cap, st, m)
        BY <1>2
    <2> DEFINE g == [k \in 0 .. m + 1 |-> IF k = m + 1 THEN reach(cap, f[m], Head(st.queue), (m + 1) - 1) ELSE f[k]]
    <2>2. \A k \in 0 .. m : g[k] = f[k]
        OBVIOUS
    <2>3. \A k \in 0 .. m : f[k] = IF k = 0 THEN popped(st) ELSE reach(cap, f[k - 1], Head(st.queue), k - 1)
        BY <2>1 DEF Passing
    <2>4. ASSUME NEW k \in 0 .. m + 1
          PROVE  g[k] = IF k = 0 THEN popped(st) ELSE reach(cap, g[k - 1], Head(st.queue), k - 1)
        <3>1. CASE k = m + 1
            <4>1. g[m + 1] = reach(cap, f[m], Head(st.queue), (m + 1) - 1) /\ g[m] = f[m]
                BY <2>2
            <4>2. k - 1 = m /\ k # 0
                BY <3>1
            <4> HIDE DEF g
            <4>3. QED  BY <3>1, <4>1, <4>2
        <3>2. CASE k \in 0 .. m
            <4>1. k # 0 => k - 1 \in 0 .. m
                BY <3>2
            <4>2. g[k] = f[k] /\ (k # 0 => g[k - 1] = f[k - 1])
                BY <3>2, <4>1, <2>2
            <4> HIDE DEF g
            <4>3. QED  BY <3>2, <4>2, <2>3
        <3>3. QED  BY <3>1, <3>2
    <2>5. Passing(g, cap, st, m + 1)
        <3>1. g = [k \in 0 .. m + 1 |-> g[k]]
            OBVIOUS
        <3> HIDE DEF g
        <3>2. QED  BY <3>1, <2>4 DEF Passing
    <2>6. QED  BY <2>5
<1> HIDE DEF S
<1>3. n \in S
    BY <1>1, <1>2, UpTo
<1>4. QED  BY <1>3 DEF S


\* The loop over v runs.
LEMMA VisitIs ==
    ASSUME NEW cap, NEW st, NEW n \in Nat
    PROVE  \E f : Passing(f, cap, st, n) /\ visit(cap, st, n) = f[n]
<1>1. Passing(CHOOSE f : Passing(f, cap, st, n), cap, st, n)
    BY PassingExists
<1>2. visit(cap, st, n) = (CHOOSE f : Passing(f, cap, st, n))[n]
    BY DEF visit, Passing, popped
<1>3. QED  BY <1>1, <1>2

Known(cap, st, n) == \A w \in DOMAIN st.parent : Waiting(st, w) \/ Done(cap, st, w, n)

\* While u is looked from, its own nodes are not all seen.
Looking(cap, st, n, c, u, k) ==
    /\ Searching(cap, st, n, c) /\ u \in DOMAIN st.parent /\ Done(cap, st, u, k)
    /\ \A w \in DOMAIN st.parent : w = u \/ Waiting(st, w) \/ Done(cap, st, w, n)

\* One more v is looked at from u.
LEMMA LookingStep ==
    ASSUME NEW n \in Nat, NEW cap, NEW st, NEW c \in Nat, NEW u, NEW k \in 0 .. n - 1,
           Looking(cap, st, n, c, u, k)
    PROVE  Looking(cap, reach(cap, st, u, k), n, c, u, k + 1)
<1> DEFINE r == reach(cap, st, u, k)
<1>1. Searching(cap, st, n, c) /\ u \in DOMAIN st.parent
    BY DEF Looking
<1>2. Grown(cap, st, r, n, c, u, k)
    BY <1>1, ReachStep
<1> HIDE DEF r
<1>3. Searching(cap, r, n, c) /\ DOMAIN st.parent \subseteq DOMAIN r.parent
    BY <1>2 DEF Grown
<1>4. Done(cap, r, u, k + 1)
    <2> SUFFICES ASSUME NEW v \in 0 .. (k + 1) - 1, cap[<<u, v>>] # 0 PROVE v \in DOMAIN r.parent
        BY DEF Done
    <2>1. CASE v = k
        BY <1>2, <2>1 DEF Grown
    <2>2. CASE v \in 0 .. k - 1
        BY <1>3, <2>2 DEF Looking, Done
    <2>3. QED  BY <2>1, <2>2
<1>5. ASSUME NEW w \in DOMAIN r.parent PROVE w = u \/ Waiting(r, w) \/ Done(cap, r, w, n)
    <2>1. CASE Waiting(r, w)
        BY <2>1
    <2>2. CASE w \in DOMAIN st.parent
        <3>1. w = u \/ Waiting(st, w) \/ Done(cap, st, w, n)
            BY <2>2 DEF Looking
        <3>2. Waiting(st, w) => Waiting(r, w)
            BY <1>2 DEF Grown
        <3>3. Done(cap, st, w, n) => Done(cap, r, w, n)
            BY <1>3 DEF Done
        <3>4. QED  BY <3>1, <3>2, <3>3
    <2>3. QED  BY <1>2, <2>1, <2>2 DEF Grown
<1>6. Looking(cap, r, n, c, u, k + 1)
    BY <1>1, <1>3, <1>4, <1>5 DEF Looking
<1>7. QED  BY <1>6 DEF r

\* u has been taken from the queue.
LEMMA PoppedLooks ==
    ASSUME NEW n \in Nat, NEW cap, NEW st, NEW c \in Nat,
           Searching(cap, st, n, c), Known(cap, st, n), st.queue # <<>>
    PROVE  Looking(cap, popped(st), n, c + 1, Head(st.queue), 0)
<1> DEFINE r == popped(st)
           D == DOMAIN st.parent
           q == st.queue
           u == Head(q)
<1>1. r.queue = Tail(q) /\ r.parent = st.parent
    BY DEF popped
<1>2. q \in Seq(D) /\ q # <<>> /\ Cardinality(D) = Len(q) + c
    BY DEF Searching
<1>3. /\ u = q[1] /\ u \in D
      /\ Tail(q) \in Seq(D) /\ Len(Tail(q)) = Len(q) - 1 /\ Len(q) \in Nat
      /\ \A i \in 1 .. Len(q) - 1 : Tail(q)[i] = q[i + 1]
    <2> HIDE DEF q, D
    <2>1. QED  BY <1>2, HeadTailProperties, EmptySeq, LenProperties DEF u
<1>4. Searching(cap, r, n, c + 1)
    <2>1. Cardinality(D) = Len(Tail(q)) + (c + 1)
        <3> DEFINE a == Cardinality(D)
                   l == Len(q)
                   m == Len(Tail(q))
        <3>1. a = l + c /\ m = l - 1 /\ l \in Nat
            BY <1>2, <1>3
        <3> HIDE DEF a, l, m
        <3>2. a = m + (c + 1)
            BY <3>1
        <3>3. QED  BY <3>2 DEF a, m
    <2>2. QED  BY <1>1, <1>3, <2>1 DEF Searching
<1>5. ASSUME NEW w \in D PROVE w = u \/ Waiting(r, w) \/ Done(cap, r, w, n)
    <2>1. CASE Done(cap, st, w, n)
        BY <1>1, <2>1 DEF Done
    <2>2. CASE Waiting(st, w)
        <3>1. PICK i \in 1 .. Len(q) : q[i] = w
            BY <2>2 DEF Waiting
        <3>2. CASE i = 1
            BY <1>3, <3>1, <3>2
        <3>3. CASE i # 1
            <4>1. i - 1 \in 1 .. Len(q) - 1 /\ (i - 1) + 1 = i
                BY <1>3, <3>3
            <4>2. i - 1 \in 1 .. Len(Tail(q)) /\ Tail(q)[i - 1] = w
                BY <1>3, <3>1, <4>1
            <4>3. QED  BY <1>1, <4>2 DEF Waiting
        <3>4. QED  BY <3>2, <3>3
    <2>3. QED  BY <2>1, <2>2 DEF Known
<1>6. Done(cap, r, u, 0)
    BY DEF Done
<1>7. Looking(cap, r, n, c + 1, u, 0)
    BY <1>1, <1>3, <1>4, <1>5, <1>6 DEF Looking
<1>8. QED  BY <1>7

\* One turn of the loop: one node more is done with.
LEMMA VisitStep ==
    ASSUME NEW n \in Nat, NEW cap, NEW st, NEW c \in Nat,
           Searching(cap, st, n, c), Known(cap, st, n), st.queue # <<>>
    PROVE  Searching(cap, visit(cap, st, n), n, c + 1) /\ Known(cap, visit(cap, st, n), n)
<1> DEFINE u == Head(st.queue)
<1>1. PICK f : Passing(f, cap, st, n) /\ visit(cap, st, n) = f[n]
    BY VisitIs
<1>2. \A k \in 0 .. n : f[k] = IF k = 0 THEN popped(st) ELSE reach(cap, f[k - 1], u, k - 1)
    BY <1>1 DEF Passing
<1> DEFINE S == {k \in Nat : Looking(cap, f[k], n, c + 1, u, k)}
<1>3. 0 \in S
    <2>1. f[0] = popped(st)
        BY <1>2
    <2>2. QED  BY <2>1, PoppedLooks
<1>4. ASSUME NEW k \in 0 .. n - 1, k \in S PROVE k + 1 \in S
    <2>1. k + 1 \in 0 .. n /\ k + 1 # 0 /\ (k + 1) - 1 = k /\ c + 1 \in Nat
        OBVIOUS
    <2>2. f[k + 1] = reach(cap, f[k], u, k)
        <3> HIDE DEF u
        <3>1. QED  BY <1>2, <2>1
    <2>3. Looking(cap, f[k], n, c + 1, u, k)
        BY <1>4
    <2> HIDE DEF u
    <2>4. Looking(cap, reach(cap, f[k], u, k), n, c + 1, u, k + 1)
        BY <2>1, <2>3, LookingStep
    <2>5. QED  BY <2>1, <2>2, <2>4
<1>5. \A k \in 0 .. n : k \in S
    <2>1. n \in Nat
        OBVIOUS
    <2> HIDE DEF S
    <2>2. QED  BY ONLY <1>3, <1>4, <2>1, UpTo
<1>6. Looking(cap, f[n], n, c + 1, u, n)
    BY <1>5
<1> HIDE DEF u
<1>7. QED  BY <1>1, <1>6 DEF Looking, Known

start == [queue |-> <<0>>, parent |-> [v \in {0} |-> 0]]
turn(cap, st, w) == IF st.queue = <<>> THEN st ELSE visit(cap, st, w)


Turning(f, cap, w, n) ==
    f = [k \in 0 .. n |-> IF k = 0 THEN start ELSE turn(cap, f[k - 1], w)]

\* The loop runs.
LEMMA TurningExists ==
    ASSUME NEW cap, NEW w, NEW n \in Nat
    PROVE  \E f : Turning(f, cap, w, n)
<1> DEFINE S == {m \in Nat : \E f : Turning(f, cap, w, m)}
<1>1. 0 \in S
    <2> DEFINE g == [k \in 0 .. 0 |-> start]
    <2>1. Turning(g, cap, w, 0)
        BY DEF Turning
    <2>2. QED  BY <2>1
<1>2. ASSUME NEW m \in 0 .. n - 1, m \in S PROVE m + 1 \in S
    <2>1. PICK f : Turning(f, cap, w, m)
        BY <1>2
    <2> DEFINE g == [k \in 0 .. m + 1 |-> IF k = m + 1 THEN turn(cap, f[m], w) ELSE f[k]]
    <2>2. \A k \in 0 .. m : g[k] = f[k]
        OBVIOUS
    <2>3. \A k \in 0 .. m : f[k] = IF k = 0 THEN start ELSE turn(cap, f[k - 1], w)
        BY <2>1 DEF Turning
    <2>4. ASSUME NEW k \in 0 .. m + 1
          PROVE  g[k] = IF k = 0 THEN start ELSE turn(cap, g[k - 1], w)
        <3>1. CASE k = m + 1
            <4>1. g[m + 1] = turn(cap, f[m], w) /\ g[m] = f[m]
                BY <2>2
            <4>2. k - 1 = m /\ k # 0
                BY <3>1
            <4> HIDE DEF g
            <4>3. QED  BY <3>1, <4>1, <4>2
        <3>2. CASE k \in 0 .. m
            <4>1. k # 0 => k - 1 \in 0 .. m
                BY <3>2
            <4>2. g[k] = f[k] /\ (k # 0 => g[k - 1] = f[k - 1])
                BY <3>2, <4>1, <2>2
            <4> HIDE DEF g
            <4>3. QED  BY <3>2, <4>2, <2>3
        <3>3. QED  BY <3>1, <3>2
    <2>5. Turning(g, cap, w, m + 1)
        <3>1. g = [k \in 0 .. m + 1 |-> g[k]]
            OBVIOUS
        <3> HIDE DEF g
        <3>2. QED  BY <3>1, <2>4 DEF Turning
    <2>6. QED  BY <2>5
<1> HIDE DEF S
<1>3. n \in S
    BY <1>1, <1>2, UpTo
<1>4. QED  BY <1>3 DEF S


\* The loop over the queue runs.
LEMMA SearchIs ==
    ASSUME NEW cap, NEW n \in Nat
    PROVE  \E f : Turning(f, cap, n, n) /\ search(cap, n) = f[n].parent
<1>1. Turning(CHOOSE f : Turning(f, cap, n, n), cap, n, n)
    BY TurningExists
<1>2. search(cap, n) = (CHOOSE f : Turning(f, cap, n, n))[n].parent
    BY DEF search, Turning, turn, start
<1>3. QED  BY <1>1, <1>2

\* The search begins at the source.
LEMMA StartSearches ==
    ASSUME NEW n \in Nat, n > 0, NEW cap
    PROVE  Searching(cap, start, n, 0) /\ Known(cap, start, n)
<1> DEFINE par == [v \in {0} |-> 0]
<1>1. start.queue = <<0>> /\ start.parent = par
    BY DEF start
<1>2. DOMAIN par = {0} /\ par[0] = 0
    OBVIOUS
<1>3. Cardinality({0}) = 1
    BY FS_Singleton
<1>4. <<0>> \in Seq({0}) /\ Len(<<0>>) = 1 /\ <<0>>[1] = 0
    OBVIOUS
<1>5. Depths(par, [v \in {0} |-> 0], 1)
    BY DEF Depths
<1>6. Tree(cap, par, n)
    BY DEF Tree
<1> HIDE DEF par
<1>7. \E d : Depths(par, d, Cardinality(DOMAIN par))
    BY <1>2, <1>3, <1>5
<1>8. /\ <<0>> \in Seq(DOMAIN par)
      /\ Cardinality(DOMAIN par) = Len(<<0>>) + 0
    BY <1>2, <1>3, <1>4
<1>9. Searching(cap, start, n, 0)
    BY ONLY <1>1, <1>6, <1>7, <1>8 DEF Searching
<1>10. \A w \in DOMAIN start.parent : Waiting(start, w)
    BY <1>1, <1>2, <1>4 DEF Waiting
<1>11. QED  BY <1>9, <1>10 DEF Known

\* The nodes the search reaches: a tree that no residual capacity leaves.
Reached(cap, par, n) ==
    /\ Tree(cap, par, n)
    /\ \E d : Depths(par, d, n)
    /\ \A u \in DOMAIN par, v \in 0 .. n - 1 : cap[<<u, v>>] # 0 => v \in DOMAIN par

\* The search ends with the nodes that residual capacity joins to the source, in
\* a tree: n turns are enough, as every node is queued once.
LEMMA SearchReaches ==
    ASSUME NEW n \in Nat, n > 0, NEW cap
    PROVE  Reached(cap, search(cap, n), n)
<1>1. PICK f : Turning(f, cap, n, n) /\ search(cap, n) = f[n].parent
    BY SearchIs
<1>2. \A k \in 0 .. n : f[k] = IF k = 0 THEN start ELSE turn(cap, f[k - 1], n)
    BY <1>1 DEF Turning
<1> DEFINE S == {k \in Nat : \E c \in Nat : /\ Searching(cap, f[k], n, c) /\ Known(cap, f[k], n)
                                            /\ c = k \/ f[k].queue = <<>>}
<1>3. 0 \in S
    <2>1. f[0] = start
        BY <1>2
    <2>2. Searching(cap, f[0], n, 0) /\ Known(cap, f[0], n)
        BY <2>1, StartSearches
    <2>3. QED  BY <2>2
<1>4. ASSUME NEW k \in 0 .. n - 1, k \in S PROVE k + 1 \in S
    <2>1. k + 1 \in 0 .. n /\ k + 1 # 0 /\ (k + 1) - 1 = k /\ k + 1 \in Nat
        OBVIOUS
    <2>2. f[k + 1] = turn(cap, f[k], n)
        BY <1>2, <2>1
    <2>3. PICK c \in Nat : /\ Searching(cap, f[k], n, c) /\ Known(cap, f[k], n)
                           /\ c = k \/ f[k].queue = <<>>
        BY <1>4
    <2>4. CASE f[k].queue = <<>>
        <3>1. f[k + 1] = f[k]
            BY <2>2, <2>4 DEF turn
        <3>2. QED  BY <2>1, <2>3, <2>4, <3>1
    <2>5. CASE f[k].queue # <<>>
        <3>1. f[k + 1] = visit(cap, f[k], n) /\ c = k
            BY <2>2, <2>3, <2>5 DEF turn
        <3>2. Searching(cap, f[k + 1], n, k + 1) /\ Known(cap, f[k + 1], n)
            BY <2>3, <2>5, <3>1, VisitStep
        <3>3. QED  BY <2>1, <3>2
    <2>6. QED  BY <2>4, <2>5
<1>5. n \in S
    <2>1. n \in Nat
        OBVIOUS
    <2> HIDE DEF S
    <2>2. \A k \in 0 .. n : k \in S
        BY ONLY <1>3, <1>4, <2>1, UpTo
    <2>3. QED  BY <2>2
<1> DEFINE st == f[n]
           par == f[n].parent
<1>6. PICK c \in Nat : /\ Searching(cap, st, n, c) /\ Known(cap, st, n)
                       /\ c = n \/ st.queue = <<>>
    BY <1>5
<1> HIDE DEF S
<1>7. /\ Tree(cap, par, n)
      /\ \E d : Depths(par, d, Cardinality(DOMAIN par))
      /\ st.queue \in Seq(DOMAIN par)
      /\ Cardinality(DOMAIN par) = Len(st.queue) + c
    BY <1>6 DEF Searching
<1>8. Cardinality(DOMAIN par) <= n /\ Cardinality(DOMAIN par) \in Nat
    BY <1>7, NodesFinite DEF Tree
<1>9. st.queue = <<>>
    <2> DEFINE q == st.queue
               D == DOMAIN par
    <2>1. q \in Seq(D) /\ Cardinality(D) = Len(q) + c
        BY <1>7
    <2> HIDE DEF q, D
    <2>2. Len(q) \in Nat /\ (q # <<>> => Len(q) > 0)
        BY <2>1, LenProperties, EmptySeq
    <2>3. c = n => Len(q) = 0
        BY <1>8, <2>1, <2>2 DEF D
    <2>4. QED  BY <1>6, <2>2, <2>3 DEF q
<1>10. \A u \in DOMAIN par : Done(cap, st, u, n)
    <2>1. Len(st.queue) = 0
        BY <1>9
    <2>2. \A u : ~ Waiting(st, u)
        BY <2>1 DEF Waiting
    <2>3. QED  BY <1>6, <2>2 DEF Known
<1>11. \E d : Depths(par, d, n)
    <2>1. PICK d : Depths(par, d, Cardinality(DOMAIN par))
        BY <1>7
    <2>2. Depths(par, d, n)
        BY <1>8, <2>1 DEF Depths
    <2>3. QED  BY <2>2
<1>12. \A u \in DOMAIN par, v \in 0 .. n - 1 : cap[<<u, v>>] # 0 => v \in DOMAIN par
    BY <1>10 DEF Done
<1>13. Reached(cap, par, n)
    BY <1>7, <1>11, <1>12 DEF Reached
<1>14. QED  BY <1>1, <1>13

-----------------------------------------------------------------------------
(***************************************************************************)
(* The path from the source to the sink along the parents.                 *)
(***************************************************************************)
Climbing(f, par, w, n) ==
    f = [k \in 0 .. n |-> IF k = 0 THEN w - 1 ELSE par[f[k - 1]]]

\* The walk from the sink runs.
LEMMA ClimbingExists ==
    ASSUME NEW par, NEW w, NEW n \in Nat
    PROVE  \E f : Climbing(f, par, w, n)
<1> DEFINE S == {m \in Nat : \E f : Climbing(f, par, w, m)}
<1>1. 0 \in S
    <2> DEFINE g == [k \in 0 .. 0 |-> w - 1]
    <2>1. Climbing(g, par, w, 0)
        BY DEF Climbing
    <2>2. QED  BY <2>1
<1>2. ASSUME NEW m \in 0 .. n - 1, m \in S PROVE m + 1 \in S
    <2>1. PICK f : Climbing(f, par, w, m)
        BY <1>2
    <2> DEFINE g == [k \in 0 .. m + 1 |-> IF k = m + 1 THEN par[f[m]] ELSE f[k]]
    <2>2. \A k \in 0 .. m : g[k] = f[k]
        OBVIOUS
    <2>3. \A k \in 0 .. m : f[k] = IF k = 0 THEN w - 1 ELSE par[f[k - 1]]
        BY <2>1 DEF Climbing
    <2>4. ASSUME NEW k \in 0 .. m + 1
          PROVE  g[k] = IF k = 0 THEN w - 1 ELSE par[g[k - 1]]
        <3>1. CASE k = m + 1
            <4>1. g[m + 1] = par[f[m]] /\ g[m] = f[m]
                BY <2>2
            <4>2. k - 1 = m /\ k # 0
                BY <3>1
            <4> HIDE DEF g
            <4>3. QED  BY <3>1, <4>1, <4>2
        <3>2. CASE k \in 0 .. m
            <4>1. k # 0 => k - 1 \in 0 .. m
                BY <3>2
            <4>2. g[k] = f[k] /\ (k # 0 => g[k - 1] = f[k - 1])
                BY <3>2, <4>1, <2>2
            <4> HIDE DEF g
            <4>3. QED  BY <3>2, <4>2, <2>3
        <3>3. QED  BY <3>1, <3>2
    <2>5. Climbing(g, par, w, m + 1)
        <3>1. g = [k \in 0 .. m + 1 |-> g[k]]
            OBVIOUS
        <3> HIDE DEF g
        <3>2. QED  BY <3>1, <2>4 DEF Climbing
    <2>6. QED  BY <2>5
<1> HIDE DEF S
<1>3. n \in S
    BY <1>1, <1>2, UpTo
<1>4. QED  BY <1>3 DEF S


\* The nodes after the source on a path to the sink n - 1.
IsPath(P, par, n) ==
    /\ P \subseteq DOMAIN par /\ 0 \notin P /\ n - 1 \in P
    /\ \A v \in P : par[v] # n - 1 /\ (par[v] # 0 => par[v] \in P)
    /\ \A w \in P : w # n - 1 => \E v \in P : par[v] = w
    /\ \E v \in P : par[v] = 0
    /\ \A v, w \in P : par[v] = par[w] => v = w
    /\ \A v, w \in P : ~ (par[v] = w /\ par[w] = v)

\* The parents lead from the sink to the source, over each node once.
LEMMA PathIs ==
    ASSUME NEW cap, NEW par, NEW n \in Nat, n > 1, Reached(cap, par, n), n - 1 \in DOMAIN par
    PROVE  \E P : path(par, n) = {<<par[v], v>> : v \in P} /\ IsPath(P, par, n)
<1>1. PICK at : /\ Climbing(at, par, n, n)
                /\ path(par, n) = {<<par[v], v>> : v \in {at[k] : k \in 0 .. n} \ {0}}
    <2>1. Climbing(CHOOSE f : Climbing(f, par, n, n), par, n, n)
        BY ClimbingExists
    <2> DEFINE at == CHOOSE f : Climbing(f, par, n, n)
    <2>2. path(par, n) = {<<par[v], v>> : v \in {at[k] : k \in 0 .. n} \ {0}}
        BY DEF path, Climbing
    <2> HIDE DEF at
    <2>3. QED  BY <2>1, <2>2 DEF at
<1>2. \A k \in 0 .. n : at[k] = IF k = 0 THEN n - 1 ELSE par[at[k - 1]]
    BY <1>1 DEF Climbing
<1>3. /\ DOMAIN par \subseteq 0 .. n - 1 /\ 0 \in DOMAIN par /\ par[0] = 0
      /\ \A v \in DOMAIN par : v # 0 => par[v] \in DOMAIN par
    BY DEF Reached, Tree
<1>4. PICK d : Depths(par, d, n)
    BY DEF Reached
<1>5. /\ \A v \in DOMAIN par : d[v] \in Nat /\ d[v] < n
      /\ d[0] = 0
      /\ \A v \in DOMAIN par : v # 0 => d[v] = d[par[v]] + 1
    BY <1>3, <1>4 DEF Depths
<1> DEFINE D == d[n - 1]
<1>6. D \in Nat /\ 0 < D /\ D < n
    <2>1. D \in Nat /\ D < n
        BY <1>5
    <2>2. n - 1 # 0
        OBVIOUS
    <2>3. D = d[par[n - 1]] + 1 /\ d[par[n - 1]] \in Nat
        BY <1>3, <1>5, <2>2
    <2> HIDE DEF D
    <2>4. QED  BY <2>1, <2>3
<1> HIDE DEF D
<1> DEFINE S == {k \in Nat : /\ k <= D => at[k] \in DOMAIN par /\ d[at[k]] = D - k
                             /\ k >= D => at[k] = 0}
<1>7. 0 \in S
    <2>1. at[0] = n - 1
        BY <1>2
    <2>2. d[at[0]] = D - 0
        BY <1>6, <2>1 DEF D
    <2>3. QED  BY <1>6, <2>1, <2>2
<1>8. ASSUME NEW k \in 0 .. n - 1, k \in S PROVE k + 1 \in S
    <2>1. k + 1 \in 0 .. n /\ k + 1 # 0 /\ (k + 1) - 1 = k /\ k \in Nat
        OBVIOUS
    <2>2. at[k + 1] = par[at[k]]
        BY <1>2, <2>1
    <2>3. /\ k <= D => at[k] \in DOMAIN par /\ d[at[k]] = D - k
          /\ k >= D => at[k] = 0
        BY <1>8
    <2>4. CASE k >= D
        <3>1. at[k + 1] = 0
            BY <1>3, <2>2, <2>3, <2>4
        <3>2. ~ (k + 1 <= D)
            BY <1>6, <2>1, <2>4
        <3>3. QED  BY <3>1, <3>2
    <2>5. CASE k < D
        <3> DEFINE v == at[k]
                   x == at[k + 1]
        <3>1. v \in DOMAIN par /\ d[v] = D - k /\ x = par[v]
            BY <1>6, <2>1, <2>2, <2>3, <2>5
        <3> HIDE DEF v, x
        <3>2. v # 0
            BY <1>5, <1>6, <2>1, <2>5, <3>1
        <3>3. x \in DOMAIN par /\ d[v] = d[x] + 1 /\ d[x] \in Nat
            BY <1>3, <1>5, <3>1, <3>2
        <3>4. d[x] = D - (k + 1)
            BY <1>6, <2>1, <3>1, <3>3
        <3>5. k + 1 >= D => x = 0
            <4>1. k + 1 >= D => d[x] = 0
                BY <1>6, <2>1, <2>5, <3>4
            <4>2. x # 0 => d[par[x]] \in Nat /\ d[x] = d[par[x]] + 1
                BY <1>3, <1>5, <3>3
            <4>3. x # 0 => d[x] # 0
                BY <4>2
            <4>4. QED  BY <4>1, <4>3
        <3>6. QED  BY <3>3, <3>4, <3>5 DEF x
    <2>6. QED  BY <1>6, <2>1, <2>4, <2>5
<1>9. \A k \in 0 .. n : k \in S
    <2>1. n \in Nat
        OBVIOUS
    <2> HIDE DEF S
    <2>2. QED  BY ONLY <1>7, <1>8, <2>1, UpTo
<1>10. ASSUME NEW k \in 0 .. n
       PROVE  /\ k <= D => at[k] \in DOMAIN par /\ d[at[k]] = D - k
              /\ k >= D => at[k] = 0
    BY <1>9
<1> HIDE DEF S
<1> DEFINE P == {at[k] : k \in 0 .. n} \ {0}
<1>11. ASSUME NEW v \in P
       PROVE  /\ \E k \in 0 .. n : k < D /\ v = at[k] /\ d[v] = D - k
              /\ v \in DOMAIN par /\ v # 0
    <2>1. PICK k \in 0 .. n : v = at[k] /\ v # 0
        OBVIOUS
    <2>2. k < D
        BY <1>6, <1>10, <2>1
    <2>3. v \in DOMAIN par /\ d[v] = D - k
        BY <1>6, <1>10, <2>1, <2>2
    <2>4. QED  BY <2>1, <2>2, <2>3
<1>12. ASSUME NEW k \in 0 .. n, k < D
       PROVE  /\ at[k] \in P /\ d[at[k]] = D - k
              /\ k + 1 \in 0 .. n /\ par[at[k]] = at[k + 1]
    <2>1. at[k] \in DOMAIN par /\ d[at[k]] = D - k
        BY <1>6, <1>10, <1>12
    <2>2. D - k # 0
        BY <1>6, <1>12
    <2>3. at[k] # 0
        BY <1>5, <2>1, <2>2
    <2>4. k + 1 \in 0 .. n /\ k + 1 # 0 /\ (k + 1) - 1 = k
        BY <1>6, <1>12
    <2>5. at[k + 1] = par[at[k]]
        BY <1>2, <2>4
    <2>6. QED  BY <2>1, <2>3, <2>4, <2>5
<1>13. at[0] = n - 1 /\ at[D] = 0
    BY <1>2, <1>6, <1>10
<1> HIDE DEF P
<1>14. P \subseteq DOMAIN par /\ 0 \notin P
    BY <1>11
<1>15. n - 1 \in P
    <2>1. 0 \in 0 .. n /\ 0 < D
        BY <1>6
    <2>2. QED  BY <1>12, <1>13, <2>1
<1>16. ASSUME NEW v \in P PROVE par[v] # n - 1 /\ (par[v] # 0 => par[v] \in P)
    <2>1. PICK k \in 0 .. n : k < D /\ v = at[k] /\ d[v] = D - k
        BY <1>11
    <2>2. par[v] = at[k + 1] /\ k + 1 \in 0 .. n
        BY <1>12, <2>1
    <2>3. k + 1 <= D
        BY <1>6, <2>1
    <2>4. d[par[v]] = D - (k + 1)
        BY <1>10, <2>2, <2>3
    <2>5. D - (k + 1) # D
        BY <1>6, <2>1
    <2>6. par[v] # n - 1
        BY <2>4, <2>5 DEF D
    <2>7. CASE k + 1 = D
        BY <1>13, <2>2, <2>6, <2>7
    <2>8. CASE k + 1 < D
        BY <1>12, <2>2, <2>6, <2>8
    <2>9. QED  BY <1>6, <2>3, <2>7, <2>8
<1>17. ASSUME NEW w \in P, w # n - 1 PROVE \E v \in P : par[v] = w
    <2>1. PICK k \in 0 .. n : k < D /\ w = at[k]
        BY <1>11
    <2>2. k # 0
        BY <1>13, <1>17, <2>1
    <2>3. k - 1 \in 0 .. n /\ k - 1 < D /\ (k - 1) + 1 = k
        BY <1>6, <2>1, <2>2
    <2>4. at[k - 1] \in P /\ par[at[k - 1]] = w
        BY <1>12, <2>1, <2>3
    <2>5. QED  BY <2>4
<1>18. \E v \in P : par[v] = 0
    <2>1. D - 1 \in 0 .. n /\ D - 1 < D /\ (D - 1) + 1 = D
        BY <1>6
    <2>2. at[D - 1] \in P /\ par[at[D - 1]] = at[D]
        BY <1>12, <2>1
    <2>3. QED  BY <1>13, <2>2
<1>19. ASSUME NEW v \in P, NEW w \in P, par[v] = par[w] PROVE v = w
    <2>1. PICK k \in 0 .. n : k < D /\ v = at[k] /\ d[v] = D - k
        BY <1>11
    <2>2. PICK l \in 0 .. n : l < D /\ w = at[l] /\ d[w] = D - l
        BY <1>11
    <2>3. d[v] = d[par[v]] + 1 /\ d[w] = d[par[w]] + 1
        BY <1>5, <1>11
    <2>4. D - k = D - l
        BY <1>19, <2>1, <2>2, <2>3
    <2>5. k = l
        BY <1>6, <2>4
    <2>6. QED  BY <2>1, <2>2, <2>5
<1>20. ASSUME NEW v \in P, NEW w \in P, par[v] = w, par[w] = v PROVE FALSE
    <2>1. d[v] = d[w] + 1 /\ d[w] = d[v] + 1
        BY <1>5, <1>11, <1>20
    <2>2. d[v] \in Nat /\ d[w] \in Nat
        BY <1>5, <1>11
    <2>3. QED  BY <2>1, <2>2
<1>21. IsPath(P, par, n)
    BY <1>14, <1>15, <1>16, <1>17, <1>18, <1>19, <1>20 DEF IsPath
<1>22. path(par, n) = {<<par[v], v>> : v \in P}
    BY <1>1 DEF P
<1>23. QED  BY <1>21, <1>22

-----------------------------------------------------------------------------
(***************************************************************************)
(* What one path adds to the flow.                                         *)
(***************************************************************************)
along(P, par, b, u, v) == IF v \in P /\ par[v] = u THEN b ELSE 0

sends(P, par, b, n) ==
    [e \in (0 .. n - 1) \X (0 .. n - 1) |->
        along(P, par, b, e[1], e[2]) - along(P, par, b, e[2], e[1])]

IsWay(P, par, n) ==
    IsPath(P, par, n) /\ DOMAIN par \subseteq 0 .. n - 1 /\ \A v \in P : par[v] \in 0 .. n - 1

\* b leaves the source and is passed on by every other node but the sink.
Carries(F, b, n) ==
    IsFlow(F, n) /\ out(F, 0, n) = b /\ \A u \in 1 .. n - 2 : out(F, u, n) = 0

\* A path takes from the source and gives on whatever it takes.
LEMMA PathCarries ==
    ASSUME NEW n \in Nat, n > 1, NEW par, NEW P, IsWay(P, par, n), NEW b \in Nat
    PROVE  Carries(sends(P, par, b, n), b, n)
<1> DEFINE F == sends(P, par, b, n)
<1>0. /\ IsPath(P, par, n) /\ DOMAIN par \subseteq 0 .. n - 1
      /\ \A v \in P : par[v] \in 0 .. n - 1
    BY DEF IsWay
<1>1. \A u, v \in 0 .. n - 1 : F[<<u, v>>] = along(P, par, b, u, v) - along(P, par, b, v, u)
    BY DEF sends
<1>2. \A u, v : along(P, par, b, u, v) \in Int
    BY DEF along
<1>3. \A k \in 1 .. n : k - 1 \in 0 .. n - 1
    OBVIOUS
<1> HIDE DEF F
<1>4. IsFlow(F, n)
    <2> SUFFICES ASSUME NEW u \in 0 .. n - 1, NEW v \in 0 .. n - 1
                 PROVE  F[<<u, v>>] \in Int /\ F[<<v, u>>] = - F[<<u, v>>]
        BY DEF IsFlow
    <2> DEFINE x == along(P, par, b, u, v)
               y == along(P, par, b, v, u)
    <2>1. F[<<u, v>>] = x - y /\ F[<<v, u>>] = y - x
        BY <1>1
    <2>2. x \in Int /\ y \in Int
        BY <1>2
    <2> HIDE DEF x, y
    <2>3. QED  BY <2>1, <2>2
<1>5. ASSUME NEW u \in 0 .. n - 1
      PROVE  out(F, u, n) = total([k \in 1 .. n |-> along(P, par, b, u, k - 1)], n)
                                - total([k \in 1 .. n |-> along(P, par, b, k - 1, u)], n)
    <2> DEFINE p == [k \in 1 .. n |-> along(P, par, b, u, k - 1)]
               q == [k \in 1 .. n |-> along(P, par, b, k - 1, u)]
               r == [k \in 1 .. n |-> - along(P, par, b, k - 1, u)]
    <2>1. IsInts(p, n) /\ IsInts(q, n)
        BY <1>2 DEF IsInts
    <2>2. IsInts(r, n) /\ \A k \in 1 .. n : r[k] = - q[k]
        <3>1. \A k \in 1 .. n : r[k] = - q[k]
            OBVIOUS
        <3> HIDE DEF q, r
        <3>2. QED  BY <2>1, <3>1 DEF IsInts
    <2>3. \A k \in 1 .. n : from(F, u, n)[k] = p[k] + r[k]
        BY <1>1, <1>2, <1>3 DEF from
    <2> HIDE DEF p, q, r
    <2>4. total(from(F, u, n), n) = total(p, n) + total(r, n)
        BY <2>1, <2>2, <2>3, TotalAdd
    <2>5. total(r, n) = - total(q, n) /\ total(q, n) \in Int /\ total(p, n) \in Int
        BY <2>1, <2>2, TotalNegated, TotalInt
    <2>6. total(from(F, u, n), n) = total(p, n) - total(q, n)
        BY <2>4, <2>5
    <2>7. QED  BY <2>6 DEF out, p, q
<1>6. ASSUME NEW u \in 0 .. n - 1, NEW v \in P, par[v] = u
      PROVE  total([k \in 1 .. n |-> along(P, par, b, u, k - 1)], n) = b
    <2> DEFINE p == [k \in 1 .. n |-> along(P, par, b, u, k - 1)]
    <2>1. v \in 0 .. n - 1
        BY <1>0, <1>0 DEF IsPath
    <2>2. v + 1 \in 1 .. n /\ (v + 1) - 1 = v
        BY <2>1
    <2>3. p[v + 1] = b
        BY <1>6, <2>2 DEF along
    <2>4. ASSUME NEW k \in 1 .. n, k # v + 1 PROVE p[k] = 0
        <3>1. k - 1 # v
            BY <2>1, <2>4
        <3>2. ~ (k - 1 \in P /\ par[k - 1] = u)
            BY <1>0, <1>6, <3>1 DEF IsPath
        <3>3. QED  BY <3>2 DEF along
    <2> HIDE DEF p
    <2>5. total(p, n) = p[v + 1]
        <3>1. p[v + 1] \in Int
            BY <2>3
        <3>2. QED  BY <2>2, <2>4, <3>1, TotalOne
    <2>6. QED  BY <2>3, <2>5 DEF p
<1>7. ASSUME NEW u \in 0 .. n - 1, \A v \in P : par[v] # u
      PROVE  total([k \in 1 .. n |-> along(P, par, b, u, k - 1)], n) = 0
    <2> DEFINE p == [k \in 1 .. n |-> along(P, par, b, u, k - 1)]
    <2>1. \A k \in 1 .. n : p[k] = 0
        BY <1>7 DEF along
    <2> HIDE DEF p
    <2>2. total(p, n) = 0
        BY <2>1, TotalNull
    <2>3. QED  BY <2>2 DEF p
<1>8. ASSUME NEW u \in P
      PROVE  total([k \in 1 .. n |-> along(P, par, b, k - 1, u)], n) = b
    <2> DEFINE q == [k \in 1 .. n |-> along(P, par, b, k - 1, u)]
               i == par[u] + 1
    <2>1. i \in 1 .. n /\ i - 1 = par[u]
        BY <1>0
    <2>2. q[i] = b
        BY <2>1 DEF along
    <2>3. ASSUME NEW k \in 1 .. n, k # i PROVE q[k] = 0
        <3>1. k - 1 # par[u]
            BY <2>1, <2>3
        <3>2. QED  BY <3>1 DEF along
    <2> HIDE DEF q, i
    <2>4. total(q, n) = q[i]
        <3>1. q[i] \in Int
            BY <2>2
        <3>2. QED  BY <2>1, <2>3, <3>1, TotalOne
    <2>5. QED  BY <2>2, <2>4 DEF q
<1>9. ASSUME NEW u \in 0 .. n - 1, u \notin P
      PROVE  total([k \in 1 .. n |-> along(P, par, b, k - 1, u)], n) = 0
    <2> DEFINE q == [k \in 1 .. n |-> along(P, par, b, k - 1, u)]
    <2>1. \A k \in 1 .. n : q[k] = 0
        BY <1>9 DEF along
    <2> HIDE DEF q
    <2>2. total(q, n) = 0
        BY <2>1, TotalNull
    <2>3. QED  BY <2>2 DEF q
<1>10. out(F, 0, n) = b
    <2>1. PICK v \in P : par[v] = 0
        BY <1>0, <1>0 DEF IsPath
    <2>2. 0 \in 0 .. n - 1 /\ 0 \notin P
        BY <1>0, <1>0 DEF IsPath
    <2>3. total([k \in 1 .. n |-> along(P, par, b, 0, k - 1)], n) = b
        BY <1>6, <2>1, <2>2
    <2>4. total([k \in 1 .. n |-> along(P, par, b, k - 1, 0)], n) = 0
        BY <1>9, <2>2
    <2>5. out(F, 0, n) = b - 0
        BY <1>5, <2>2, <2>3, <2>4
    <2>6. QED  BY <2>5
<1>11. ASSUME NEW u \in 1 .. n - 2 PROVE out(F, u, n) = 0
    <2>1. u \in 0 .. n - 1 /\ u # n - 1 /\ u # 0
        OBVIOUS
    <2>2. CASE u \in P
        <3>1. PICK v \in P : par[v] = u
            BY <1>0, <2>1, <2>2 DEF IsPath
        <3>2. total([k \in 1 .. n |-> along(P, par, b, u, k - 1)], n) = b
            BY <1>6, <2>1, <3>1
        <3>3. total([k \in 1 .. n |-> along(P, par, b, k - 1, u)], n) = b
            BY <1>8, <2>2
        <3>4. out(F, u, n) = b - b
            BY <1>5, <2>1, <3>2, <3>3
        <3>5. QED  BY <3>4
    <2>3. CASE u \notin P
        <3>1. \A v \in P : par[v] # u
            BY <1>0, <2>1, <2>3 DEF IsPath
        <3>2. total([k \in 1 .. n |-> along(P, par, b, u, k - 1)], n) = 0
            BY <1>7, <2>1, <3>1
        <3>3. total([k \in 1 .. n |-> along(P, par, b, k - 1, u)], n) = 0
            BY <1>9, <2>1, <2>3
        <3>4. out(F, u, n) = 0 - 0
            BY <1>5, <2>1, <3>2, <3>3
        <3>5. QED  BY <3>4
    <2>4. QED  BY <2>2, <2>3
<1>12. Carries(F, b, n)
    BY <1>4, <1>10, <1>11 DEF Carries
<1>13. QED  BY <1>12 DEF F

-----------------------------------------------------------------------------
(***************************************************************************)
(* The flow so far: what the residual capacities have lost.                *)
(***************************************************************************)
Edges(n) == (0 .. n - 1) \X (0 .. n - 1)
net(cap0, cap, n) == [e \in Edges(n) |-> cap0[e] - cap[e]]

FlowOK(flow, cap0, n) ==
    /\ flow.cap \in [Edges(n) -> Nat]
    /\ flow.total \in Nat
    /\ IsFlow(net(cap0, flow.cap, n), n)
    /\ out(net(cap0, flow.cap, n), 0, n) = flow.total
    /\ \A u \in 1 .. n - 2 : out(net(cap0, flow.cap, n), u, n) = 0

Stuck(flow, n) == n - 1 \notin DOMAIN search(flow.cap, n)

\* Two flows together are a flow.
LEMMA OutAdds ==
    ASSUME NEW n \in Nat, NEW F, IsFlow(F, n), NEW G, IsFlow(G, n),
           NEW H, \A u, v \in 0 .. n - 1 : H[<<u, v>>] = F[<<u, v>>] + G[<<u, v>>]
    PROVE  /\ IsFlow(H, n)
           /\ \A u \in 0 .. n - 1 : /\ out(H, u, n) = out(F, u, n) + out(G, u, n)
                                    /\ out(F, u, n) \in Int /\ out(G, u, n) \in Int
<1>1. ASSUME NEW u \in 0 .. n - 1, NEW v \in 0 .. n - 1
      PROVE  H[<<u, v>>] \in Int /\ H[<<v, u>>] = - H[<<u, v>>]
    <2> DEFINE a == F[<<u, v>>]
               b == G[<<u, v>>]
    <2>1. a \in Int /\ b \in Int /\ F[<<v, u>>] = - a /\ G[<<v, u>>] = - b
        BY DEF IsFlow
    <2>2. H[<<u, v>>] = a + b /\ H[<<v, u>>] = (- a) + (- b)
        BY <2>1
    <2> HIDE DEF a, b
    <2>3. QED  BY <2>1, <2>2
<1>2. IsFlow(H, n)
    BY <1>1 DEF IsFlow
<1>3. ASSUME NEW u \in 0 .. n - 1
      PROVE  /\ out(H, u, n) = out(F, u, n) + out(G, u, n)
             /\ out(F, u, n) \in Int /\ out(G, u, n) \in Int
    <2>1. \A k \in 1 .. n : k - 1 \in 0 .. n - 1
        OBVIOUS
    <2>2. IsInts(from(F, u, n), n) /\ IsInts(from(G, u, n), n)
        BY <2>1 DEF IsInts, IsFlow, from
    <2>3. \A k \in 1 .. n : from(H, u, n)[k] = from(F, u, n)[k] + from(G, u, n)[k]
        BY <2>1 DEF from
    <2>4. total(from(H, u, n), n) = total(from(F, u, n), n) + total(from(G, u, n), n)
        BY <2>2, <2>3, TotalAdd
    <2>5. QED  BY <2>2, <2>4, TotalInt DEF out
<1>4. QED  BY <1>2, <1>3

\* The bottleneck is the least of the capacities along the path.
LEMMA Bottleneck ==
    ASSUME NEW S, S \subseteq Nat, S # {}, 0 \notin S
    PROVE  Min(S) \in Nat /\ Min(S) > 0 /\ \A x \in S : Min(S) <= x
<1>1. \E x \in S : \A y \in S : x <= y
    BY LeastNatural
<1>2. Min(S) \in S /\ \A y \in S : Min(S) <= y
    BY <1>1 DEF Min
<1> DEFINE x == Min(S)
<1>3. x \in S /\ \A y \in S : x <= y
    BY <1>2
<1> HIDE DEF x
<1>4. x \in Nat /\ x # 0
    BY <1>3
<1>5. x \in Nat /\ x > 0 /\ \A y \in S : x <= y
    BY ONLY <1>3, <1>4
<1>6. QED  BY <1>5 DEF x

\* What is left when F has been taken.
LeftOf(sent, cap, F, n) ==
    /\ sent \in [Edges(n) -> Nat]
    /\ \A u, v \in 0 .. n - 1 : sent[<<u, v>>] = cap[<<u, v>>] - F[<<u, v>>]

HasRoom(cap, P, par, b) == \A v \in P : b <= cap[<<par[v], v>>]
EdgesOf(P, par) == {<<par[v], v>> : v \in P}

\* Along the path, capacity moves from each edge to its reverse (max_flow).
LEMMA AugmentIs ==
    ASSUME NEW n \in Nat, n > 1, NEW par, NEW P, IsWay(P, par, n),
           NEW cap, cap \in [Edges(n) -> Nat], NEW b \in Nat, HasRoom(cap, P, par, b)
    PROVE  LeftOf(augment(cap, EdgesOf(P, par), b), cap, sends(P, par, b, n), n)
<1> DEFINE E == EdgesOf(P, par)
           sent == augment(cap, E, b)
           F == sends(P, par, b, n)
<1>0. IsPath(P, par, n)
    BY DEF IsWay
<1>1. ASSUME NEW u \in 0 .. n - 1, NEW v \in 0 .. n - 1
      PROVE  sent[<<u, v>>] \in Nat /\ sent[<<u, v>>] = cap[<<u, v>>] - F[<<u, v>>]
    <2>1. <<u, v>> \in Edges(n) /\ <<u, v>> \in DOMAIN cap /\ cap[<<u, v>>] \in Nat
        BY DEF Edges
    <2>2. /\ <<u, v>> \in E <=> v \in P /\ par[v] = u
          /\ <<v, u>> \in E <=> u \in P /\ par[u] = v
        BY DEF EdgesOf
    <2>3. sent[<<u, v>>] = IF <<u, v>> \in E THEN cap[<<u, v>>] - b
                           ELSE IF <<v, u>> \in E THEN cap[<<u, v>>] + b
                           ELSE cap[<<u, v>>]
        <3> HIDE DEF E
        <3>1. QED  BY <2>1 DEF augment
    <2>4. F[<<u, v>>] = along(P, par, b, u, v) - along(P, par, b, v, u)
        BY DEF sends
    <2> HIDE DEF E, F, sent
    <2>5. CASE <<u, v>> \in E
        <3>1. v \in P /\ par[v] = u /\ ~ (u \in P /\ par[u] = v)
            BY <1>0, <2>2, <2>5 DEF IsPath
        <3>2. F[<<u, v>>] = b - 0
            BY <2>4, <3>1 DEF along
        <3>3. b <= cap[<<u, v>>]
            BY <3>1 DEF HasRoom
        <3>4. sent[<<u, v>>] = cap[<<u, v>>] - b
            BY <2>3, <2>5
        <3>5. QED  BY <2>1, <3>2, <3>3, <3>4
    <2>6. CASE <<u, v>> \notin E /\ <<v, u>> \in E
        <3>1. F[<<u, v>>] = 0 - b
            BY <2>2, <2>4, <2>6 DEF along
        <3>2. sent[<<u, v>>] = cap[<<u, v>>] + b
            BY <2>3, <2>6
        <3>3. QED  BY <2>1, <3>1, <3>2
    <2>7. CASE <<u, v>> \notin E /\ <<v, u>> \notin E
        <3>1. F[<<u, v>>] = 0 - 0
            BY <2>2, <2>4, <2>7 DEF along
        <3>2. sent[<<u, v>>] = cap[<<u, v>>]
            BY <2>3, <2>7
        <3>3. QED  BY <2>1, <3>1, <3>2
    <2>8. QED  BY <2>5, <2>6, <2>7
<1>2. sent \in [Edges(n) -> Nat]
    <2>1. DOMAIN sent = Edges(n) /\ sent = [e \in Edges(n) |-> sent[e]]
        <3> HIDE DEF E
        <3>1. QED  BY DEF augment
    <2>2. ASSUME NEW e \in Edges(n) PROVE sent[e] \in Nat
        <3>1. e[1] \in 0 .. n - 1 /\ e[2] \in 0 .. n - 1 /\ e = <<e[1], e[2]>>
            BY DEF Edges
        <3> HIDE DEF sent
        <3>2. QED  BY <1>1, <3>1
    <2> HIDE DEF sent
    <2>3. QED  BY <2>1, <2>2
<1> HIDE DEF sent, F
<1>3. LeftOf(sent, cap, F, n)
    BY <1>1, <1>2 DEF LeftOf
<1>4. QED  BY <1>3 DEF sent, F

\* One turn of the outer loop: it keeps a flow, and adds to it until it is stuck.
LEMMA FlowStep ==
    ASSUME NEW n \in Nat, n > 1, NEW cap0, cap0 \in [Edges(n) -> Nat],
           NEW flow, FlowOK(flow, cap0, n)
    PROVE  /\ FlowOK(flow_step(flow, n), cap0, n)
           /\ Stuck(flow, n) => flow_step(flow, n) = flow
           /\ ~ Stuck(flow, n) => flow_step(flow, n).total > flow.total
<1> DEFINE cap == flow.cap
           par == search(cap, n)
<1>1. CASE Stuck(flow, n)
    <2>1. flow_step(flow, n) = flow
        BY <1>1 DEF flow_step, Stuck
    <2>2. QED  BY <1>1, <2>1
<1>2. CASE ~ Stuck(flow, n)
    <2>1. n - 1 \in DOMAIN par
        BY <1>2 DEF Stuck
    <2>2. Reached(cap, par, n)
        BY SearchReaches
    <2> DEFINE E == path(par, n)
               b == Min({cap[e] : e \in E})
               sent == augment(cap, E, b)
    <2>3. flow_step(flow, n) = [cap |-> sent, total |-> flow.total + b]
        BY <2>1 DEF flow_step
    <2> HIDE DEF par
    <2>4. PICK P : E = {<<par[v], v>> : v \in P} /\ IsPath(P, par, n)
        BY <2>1, <2>2, PathIs
    <2>5. cap \in [Edges(n) -> Nat]
        BY DEF FlowOK
    <2>6. /\ DOMAIN par \subseteq 0 .. n - 1
          /\ \A v \in P : /\ v \in 0 .. n - 1 /\ par[v] \in 0 .. n - 1
                          /\ cap[<<par[v], v>>] # 0
        BY <2>2, <2>4 DEF Reached, Tree, IsPath
    <2>7. \A v \in P : <<par[v], v>> \in Edges(n) /\ cap[<<par[v], v>>] \in Nat
        BY <2>5, <2>6 DEF Edges
    <2> DEFINE C == {cap[e] : e \in E}
    <2>8. C \subseteq Nat /\ C # {} /\ 0 \notin C
        <3>1. \A v \in P : cap[<<par[v], v>>] \in C
            BY <2>4
        <3>2. \A x \in C : \E v \in P : x = cap[<<par[v], v>>]
            BY <2>4
        <3>3. n - 1 \in P
            BY <2>4 DEF IsPath
        <3> HIDE DEF C, cap, E
        <3>4. QED  BY <2>6, <2>7, <3>1, <3>2, <3>3
    <2>9. b \in Nat /\ b > 0 /\ \A v \in P : b <= cap[<<par[v], v>>]
        <3>1. \A v \in P : cap[<<par[v], v>>] \in C
            BY <2>4
        <3>2. b = Min(C)
            OBVIOUS
        <3> HIDE DEF C, b
        <3>3. QED  BY <2>8, <3>1, <3>2, Bottleneck
    <2> HIDE DEF b, C
    <2> DEFINE F == sends(P, par, b, n)
    <2>10. /\ sent \in [Edges(n) -> Nat]
           /\ \A u, v \in 0 .. n - 1 : sent[<<u, v>>] = cap[<<u, v>>] - F[<<u, v>>]
        <3>1. IsWay(P, par, n) /\ HasRoom(cap, P, par, b) /\ E = EdgesOf(P, par) /\ b \in Nat
            BY <2>4, <2>6, <2>9 DEF IsWay, HasRoom, EdgesOf
        <3> HIDE DEF cap, E
        <3>2. n \in Nat /\ n > 1
            OBVIOUS
        <3>3. LeftOf(augment(cap, EdgesOf(P, par), b), cap, F, n)
            BY ONLY <2>5, <3>1, <3>2, AugmentIs
        <3>4. QED  BY <3>1, <3>3 DEF LeftOf
    <2>11. /\ IsFlow(F, n) /\ out(F, 0, n) = b
           /\ \A u \in 1 .. n - 2 : out(F, u, n) = 0
        <3>1. IsWay(P, par, n) /\ b \in Nat
            BY <2>4, <2>6, <2>9 DEF IsWay
        <3>2. Carries(F, b, n)
            BY <3>1, PathCarries
        <3>3. QED  BY <3>2 DEF Carries
    <2> HIDE DEF F, E, sent, cap
    <2> DEFINE old == net(cap0, cap, n)
               new == net(cap0, sent, n)
    <2>12. ASSUME NEW u \in 0 .. n - 1, NEW v \in 0 .. n - 1
           PROVE  new[<<u, v>>] = old[<<u, v>>] + F[<<u, v>>]
        <3> DEFINE e == <<u, v>>
        <3>1. e \in Edges(n)
            BY DEF Edges
        <3>2. new[e] = cap0[e] - sent[e] /\ old[e] = cap0[e] - cap[e]
            BY <3>1 DEF net
        <3>3. cap0[e] \in Nat /\ cap[e] \in Nat /\ F[e] \in Int /\ sent[e] = cap[e] - F[e]
            BY <2>5, <2>10, <2>11, <3>1 DEF IsFlow
        <3> HIDE DEF e, new, old
        <3>4. new[e] = old[e] + F[e]
            BY <3>2, <3>3
        <3>5. QED  BY <3>4 DEF e
    <2>13. /\ IsFlow(old, n) /\ out(old, 0, n) = flow.total /\ flow.total \in Nat
           /\ \A u \in 1 .. n - 2 : out(old, u, n) = 0
        BY DEF FlowOK, cap
    <2> HIDE DEF old, new
    <2>14. /\ IsFlow(new, n)
           /\ \A u \in 0 .. n - 1 : out(new, u, n) = out(old, u, n) + out(F, u, n)
        BY <2>11, <2>12, <2>13, OutAdds
    <2>15. out(new, 0, n) = flow.total + b
        <3>1. 0 \in 0 .. n - 1
            OBVIOUS
        <3>2. QED  BY <2>11, <2>13, <2>14, <3>1
    <2>16. ASSUME NEW u \in 1 .. n - 2 PROVE out(new, u, n) = 0
        <3>1. u \in 0 .. n - 1
            OBVIOUS
        <3>2. out(new, u, n) = 0 + 0
            BY <2>11, <2>13, <2>14, <3>1
        <3>3. QED  BY <3>2
    <2> DEFINE next == flow_step(flow, n)
    <2>17. next.cap = sent /\ next.total = flow.total + b
        BY <2>3
    <2> HIDE DEF next
    <2>18. flow.total + b \in Nat /\ flow.total + b > flow.total
        BY <2>9, <2>13
    <2>19. FlowOK(next, cap0, n)
        BY <2>10, <2>14, <2>15, <2>16, <2>17, <2>18 DEF FlowOK, new
    <2>20. QED  BY <1>2, <2>17, <2>18, <2>19 DEF next
<1>3. QED  BY <1>1, <1>2

Flowing(f, cap, w, n) ==
    f = [k \in 0 .. n |-> IF k = 0 THEN [cap |-> cap, total |-> 0] ELSE flow_step(f[k - 1], w)]

\* The outer loop runs.
LEMMA FlowingExists ==
    ASSUME NEW cap, NEW w, NEW n \in Nat
    PROVE  \E f : Flowing(f, cap, w, n)
<1> DEFINE S == {m \in Nat : \E f : Flowing(f, cap, w, m)}
<1>1. 0 \in S
    <2> DEFINE g == [k \in 0 .. 0 |-> [cap |-> cap, total |-> 0]]
    <2>1. Flowing(g, cap, w, 0)
        BY DEF Flowing
    <2>2. QED  BY <2>1
<1>2. ASSUME NEW m \in 0 .. n - 1, m \in S PROVE m + 1 \in S
    <2>1. PICK f : Flowing(f, cap, w, m)
        BY <1>2
    <2> DEFINE g == [k \in 0 .. m + 1 |-> IF k = m + 1 THEN flow_step(f[m], w) ELSE f[k]]
    <2>2. \A k \in 0 .. m : g[k] = f[k]
        OBVIOUS
    <2>3. \A k \in 0 .. m : f[k] = IF k = 0 THEN [cap |-> cap, total |-> 0] ELSE flow_step(f[k - 1], w)
        BY <2>1 DEF Flowing
    <2>4. ASSUME NEW k \in 0 .. m + 1
          PROVE  g[k] = IF k = 0 THEN [cap |-> cap, total |-> 0] ELSE flow_step(g[k - 1], w)
        <3>1. CASE k = m + 1
            <4>1. g[m + 1] = flow_step(f[m], w) /\ g[m] = f[m]
                BY <2>2
            <4>2. k - 1 = m /\ k # 0
                BY <3>1
            <4> HIDE DEF g
            <4>3. QED  BY <3>1, <4>1, <4>2
        <3>2. CASE k \in 0 .. m
            <4>1. k # 0 => k - 1 \in 0 .. m
                BY <3>2
            <4>2. g[k] = f[k] /\ (k # 0 => g[k - 1] = f[k - 1])
                BY <3>2, <4>1, <2>2
            <4> HIDE DEF g
            <4>3. QED  BY <3>2, <4>2, <2>3
        <3>3. QED  BY <3>1, <3>2
    <2>5. Flowing(g, cap, w, m + 1)
        <3>1. g = [k \in 0 .. m + 1 |-> g[k]]
            OBVIOUS
        <3> HIDE DEF g
        <3>2. QED  BY <3>1, <2>4 DEF Flowing
    <2>6. QED  BY <2>5
<1> HIDE DEF S
<1>3. n \in S
    BY <1>1, <1>2, UpTo
<1>4. QED  BY <1>3 DEF S


\* Before the first turn nothing flows.
LEMMA NothingFlows ==
    ASSUME NEW n \in Nat, n > 1, NEW cap0, cap0 \in [Edges(n) -> Nat]
    PROVE  FlowOK([cap |-> cap0, total |-> 0], cap0, n)
<1> DEFINE F == net(cap0, cap0, n)
<1>1. \A u, v \in 0 .. n - 1 : F[<<u, v>>] = 0
    <2> SUFFICES ASSUME NEW u \in 0 .. n - 1, NEW v \in 0 .. n - 1 PROVE F[<<u, v>>] = 0
        OBVIOUS
    <2>1. <<u, v>> \in Edges(n)
        BY DEF Edges
    <2>2. cap0[<<u, v>>] \in Nat
        BY <2>1
    <2>3. F[<<u, v>>] = cap0[<<u, v>>] - cap0[<<u, v>>]
        BY <2>1 DEF net
    <2> HIDE DEF F
    <2>4. QED  BY <2>2, <2>3
<1> HIDE DEF F
<1>2. IsFlow(F, n)
    <2> SUFFICES ASSUME NEW u \in 0 .. n - 1, NEW v \in 0 .. n - 1
                 PROVE  F[<<u, v>>] \in Int /\ F[<<v, u>>] = - F[<<u, v>>]
        BY DEF IsFlow
    <2>1. F[<<u, v>>] = 0 /\ F[<<v, u>>] = 0
        BY <1>1
    <2> DEFINE x == F[<<u, v>>]
               y == F[<<v, u>>]
    <2>2. x \in Int /\ y \in Int /\ x + y = 0
        BY <2>1
    <2> HIDE DEF x, y
    <2>3. y = - x
        BY <2>2
    <2>4. QED  BY <2>2, <2>3 DEF x, y
<1>3. ASSUME NEW u \in 0 .. n - 1 PROVE out(F, u, n) = 0
    <2>1. \A k \in 1 .. n : from(F, u, n)[k] = 0
        BY <1>1 DEF from
    <2>2. QED  BY <2>1, TotalNull DEF out
<1>4. 0 \in 0 .. n - 1 /\ \A u \in 1 .. n - 2 : u \in 0 .. n - 1
    OBVIOUS
<1>5. QED  BY <1>2, <1>3, <1>4 DEF FlowOK, F

\* After so many turns the total has grown as far, unless the loop has ended.
LEMMA MaxFlowIs ==
    ASSUME NEW n \in Nat, n > 1, NEW cap0, cap0 \in [Edges(n) -> Nat], NEW turns \in Nat
    PROVE  \E flow : /\ FlowOK(flow, cap0, n) /\ max_flow(cap0, n, turns) = flow.total
                     /\ flow.total >= turns \/ Stuck(flow, n)
<1>1. PICK f : Flowing(f, cap0, n, turns) /\ max_flow(cap0, n, turns) = f[turns].total
    <2>1. Flowing(CHOOSE f : Flowing(f, cap0, n, turns), cap0, n, turns)
        BY FlowingExists
    <2>2. max_flow(cap0, n, turns) = (CHOOSE f : Flowing(f, cap0, n, turns))[turns].total
        BY DEF max_flow, Flowing
    <2>3. QED  BY <2>1, <2>2
<1>2. \A k \in 0 .. turns : f[k] = IF k = 0 THEN [cap |-> cap0, total |-> 0]
                                  ELSE flow_step(f[k - 1], n)
    BY <1>1 DEF Flowing
<1> DEFINE S == {k \in Nat : FlowOK(f[k], cap0, n) /\ (f[k].total >= k \/ Stuck(f[k], n))}
<1>3. 0 \in S
    <2>1. f[0] = [cap |-> cap0, total |-> 0]
        BY <1>2
    <2>2. FlowOK(f[0], cap0, n) /\ f[0].total = 0
        BY <2>1, NothingFlows
    <2> DEFINE x == f[0]
    <2> HIDE DEF x
    <2>3. FlowOK(x, cap0, n) /\ (x.total >= 0 \/ Stuck(x, n))
        BY <2>2 DEF x
    <2>4. QED  BY <2>3 DEF x
<1>4. ASSUME NEW k \in 0 .. turns - 1, k \in S PROVE k + 1 \in S
    <2>1. k + 1 \in 0 .. turns /\ k + 1 # 0 /\ (k + 1) - 1 = k /\ k \in Nat /\ k + 1 \in Nat
        OBVIOUS
    <2> DEFINE x == f[k]
               y == f[k + 1]
    <2>2. y = flow_step(x, n)
        BY <1>2, <2>1
    <2>3. FlowOK(x, cap0, n) /\ (x.total >= k \/ Stuck(x, n))
        BY <1>4
    <2> HIDE DEF x, y
    <2>4. /\ FlowOK(y, cap0, n)
          /\ Stuck(x, n) => y = x
          /\ ~ Stuck(x, n) => y.total > x.total
        BY <2>2, <2>3, FlowStep
    <2>5. x.total \in Nat /\ y.total \in Nat
        BY <2>3, <2>4 DEF FlowOK
    <2>6. y.total >= k + 1 \/ Stuck(y, n)
        BY <2>1, <2>3, <2>4, <2>5
    <2>7. QED  BY <2>1, <2>4, <2>6 DEF y
<1>5. turns \in S
    <2>1. turns \in Nat
        OBVIOUS
    <2> HIDE DEF S
    <2>2. \A k \in 0 .. turns : k \in S
        BY ONLY <1>3, <1>4, <2>1, UpTo
    <2>3. QED  BY <2>2
<1>6. QED  BY <1>1, <1>5

\* Where the search is stuck, what it reached is cut off: no flow within the
\* capacities takes more from the source.  `less` is such a flow taken away.
LEMMA StuckIsMost ==
    ASSUME NEW n \in Nat, n > 1, NEW cap0, cap0 \in [Edges(n) -> Nat],
           NEW flow, FlowOK(flow, cap0, n), Stuck(flow, n),
           NEW less, IsFlow(less, n), \A u \in 1 .. n - 2 : out(less, u, n) = 0,
           \A u, v \in 0 .. n - 1 : - less[<<u, v>>] <= cap0[<<u, v>>]
    PROVE  flow.total >= - out(less, 0, n)
<1> DEFINE cap == flow.cap
           R == DOMAIN search(cap, n)
           F == net(cap0, cap, n)
           H == [e \in Edges(n) |-> F[e] + less[e]]
<1>1. Reached(cap, search(cap, n), n)
    BY SearchReaches
<1>2. /\ R \subseteq 0 .. n - 1 /\ 0 \in R
      /\ \A u \in R, v \in 0 .. n - 1 : cap[<<u, v>>] # 0 => v \in R
    BY <1>1 DEF Reached, Tree
<1>3. n - 1 \notin R
    BY DEF Stuck
<1>4. cap \in [Edges(n) -> Nat] /\ IsFlow(F, n) /\ out(F, 0, n) = flow.total
      /\ \A u \in 1 .. n - 2 : out(F, u, n) = 0
    BY DEF FlowOK
<1>5. \A u, v \in 0 .. n - 1 : <<u, v>> \in Edges(n)
    BY DEF Edges
<1>6. \A u, v \in 0 .. n - 1 : H[<<u, v>>] = F[<<u, v>>] + less[<<u, v>>]
    <2> HIDE DEF F
    <2>1. QED  BY <1>5
<1>7. \A u, v \in 0 .. n - 1 : F[<<u, v>>] = cap0[<<u, v>>] - cap[<<u, v>>]
    BY <1>5 DEF net
<1> HIDE DEF H, F, R, cap
<1>8. /\ IsFlow(H, n)
      /\ \A u \in 0 .. n - 1 : /\ out(H, u, n) = out(F, u, n) + out(less, u, n)
                               /\ out(F, u, n) \in Int /\ out(less, u, n) \in Int
    BY <1>4, <1>6, OutAdds
<1>9. ASSUME NEW u \in R, u # 0 PROVE out(H, u, n) = 0
    <2>1. u \in 0 .. n - 1 /\ u \in 1 .. n - 2
        BY <1>2, <1>3, <1>9
    <2>2. out(H, u, n) = 0 + 0
        BY <1>4, <1>8, <2>1
    <2>3. QED  BY <2>2
<1>10. ASSUME NEW u \in R, NEW v \in 0 .. n - 1, v \notin R PROVE H[<<u, v>>] >= 0
    <2>1. u \in 0 .. n - 1
        BY <1>2
    <2> DEFINE e == <<u, v>>
    <2>2. cap[e] = 0
        BY <1>2, <1>10
    <2>3. cap0[e] \in Nat /\ less[e] \in Int /\ - less[e] <= cap0[e]
        BY <1>5, <2>1 DEF IsFlow
    <2>4. H[e] = F[e] + less[e] /\ F[e] = cap0[e] - cap[e]
        BY <1>6, <1>7, <2>1
    <2> HIDE DEF e
    <2>5. H[e] >= 0
        BY <2>2, <2>3, <2>4
    <2>6. QED  BY <2>5 DEF e
<1>11. out(H, 0, n) >= 0
    <2>1. n \in Nat /\ n > 0
        OBVIOUS
    <2>2. QED  BY ONLY <1>2, <1>8, <1>9, <1>10, <2>1, Cut
<1>12. 0 \in 0 .. n - 1
    OBVIOUS
<1>13. QED  BY <1>4, <1>8, <1>11, <1>12

-----------------------------------------------------------------------------
(***************************************************************************)
(* The flows of a cart: the source to the requirements, these to the       *)
(* items, these to the sink (line_items).                                  *)
(***************************************************************************)
first(q, r) == [i \in 1 .. r |-> q[1 + i]]
second(q, r, s) == [j \in 1 .. s |-> q[1 + r + j]]

\* What leaves a node goes to the source, the requirements, the items and the sink.
LEMMA FourParts ==
    ASSUME NEW r \in Nat, NEW s \in Nat, NEW q, IsInts(q, r + s + 2)
    PROVE  total(q, r + s + 2) =
                q[1] + total(first(q, r), r) + total(second(q, r, s), s) + q[r + s + 2]
<1>1. total(q, 1) = q[1]
    <2>1. total(q, 0 + 1) = total(q, 0) + q[0 + 1]
        BY TotalNext
    <2>2. q[1] \in Int
        BY DEF IsInts
    <2>3. QED  BY <2>1, <2>2, TotalZero
<1>2. total(q, 1 + r) = total(q, 1) + total(first(q, r), r)
    <2>1. IsInts(q, 1 + r)
        BY DEF IsInts
    <2>2. QED  BY <2>1, TotalSplit DEF first
<1>3. total(q, (1 + r) + s) = total(q, 1 + r) + total(second(q, r, s), s)
    <2>1. IsInts(q, (1 + r) + s) /\ 1 + r \in Nat
        BY DEF IsInts
    <2>2. \A j \in 1 .. s : 1 + r + j = (1 + r) + j
        OBVIOUS
    <2>3. total(q, (1 + r) + s) = total(q, 1 + r) + total([j \in 1 .. s |-> q[(1 + r) + j]], s)
        BY <2>1, TotalSplit
    <2>4. QED  BY <2>3 DEF second
<1>4. total(q, ((1 + r) + s) + 1) = total(q, (1 + r) + s) + q[((1 + r) + s) + 1]
    <2>1. (1 + r) + s \in Nat
        OBVIOUS
    <2>2. QED  BY <2>1, TotalNext
<1>5. ((1 + r) + s) + 1 = r + s + 2
    OBVIOUS
<1>6. QED  BY ONLY <1>1, <1>2, <1>3, <1>4, <1>5

Shaped(F, r, s) ==
    /\ IsFlow(F, r + s + 2)
    /\ F[<<0, 0>>] = 0 /\ F[<<0, r + s + 1>>] = 0
    /\ \A i, k \in 1 .. r : F[<<i, k>>] = 0
    /\ \A j, k \in r + 1 .. r + s : F[<<j, k>>] = 0
    /\ \A i \in 1 .. r : F[<<i, r + s + 1>>] = 0
    /\ \A j \in r + 1 .. r + s : F[<<j, 0>>] = 0 /\ F[<<0, j>>] = 0

\* What the source, a requirement and an item pass on.
PassedOn(F, r, s) ==
    /\ out(F, 0, r + s + 2) = total([i \in 1 .. r |-> F[<<0, i>>]], r)
    /\ \A i \in 1 .. r : out(F, i, r + s + 2) =
            F[<<i, 0>>] + total([j \in 1 .. s |-> F[<<i, r + j>>]], s)
    /\ \A j \in 1 .. s : out(F, r + j, r + s + 2) =
            total([i \in 1 .. r |-> F[<<r + j, i>>]], r) + F[<<r + j, r + s + 1>>]

\* In the network of a cart the source feeds the requirements only, these the
\* items and these the sink.
LEMMA Rows ==
    ASSUME NEW r \in Nat, NEW s \in Nat, NEW F, Shaped(F, r, s)
    PROVE  PassedOn(F, r, s)
<1> DEFINE n == r + s + 2
<1>0. /\ \A k \in 1 .. n : k - 1 \in 0 .. n - 1
      /\ n - 1 = r + s + 1 /\ n \in Nat
      /\ \A i \in 1 .. r : 1 + i \in 1 .. n /\ (1 + i) - 1 = i /\ i \in 0 .. n - 1
      /\ \A j \in 1 .. s : /\ 1 + r + j \in 1 .. n /\ (1 + r + j) - 1 = r + j
                           /\ r + j \in r + 1 .. r + s /\ r + j \in 0 .. n - 1
      /\ 1 \in 1 .. n /\ n \in 1 .. n /\ 1 - 1 = 0 /\ 0 \in 0 .. n - 1
    OBVIOUS
<1> HIDE DEF n
<1>1. ASSUME NEW u \in 0 .. n - 1
      PROVE  /\ out(F, u, n) = F[<<u, 0>>] + total([i \in 1 .. r |-> F[<<u, i>>]], r)
                        + total([j \in 1 .. s |-> F[<<u, r + j>>]], s) + F[<<u, r + s + 1>>]
             /\ F[<<u, 0>>] \in Int /\ F[<<u, r + s + 1>>] \in Int
             /\ total([i \in 1 .. r |-> F[<<u, i>>]], r) \in Int
             /\ total([j \in 1 .. s |-> F[<<u, r + j>>]], s) \in Int
    <2> DEFINE q == from(F, u, n)
               a == [i \in 1 .. r |-> F[<<u, i>>]]
               b == [j \in 1 .. s |-> F[<<u, r + j>>]]
    <2>1. \A v \in 0 .. n - 1 : F[<<u, v>>] \in Int
        BY DEF Shaped, IsFlow, n
    <2>2. \A k \in 1 .. n : q[k] = F[<<u, k - 1>>]
        BY DEF from
    <2>3. IsInts(q, n)
        BY <1>0, <2>1, <2>2 DEF IsInts
    <2>4. IsInts(a, r) /\ IsInts(b, s)
        BY <1>0, <2>1 DEF IsInts
    <2>5. first(q, r) = a
        BY <1>0, <2>2 DEF first
    <2>6. second(q, r, s) = b
        BY <1>0, <2>2 DEF second
    <2>7. q[1] = F[<<u, 0>>] /\ q[n] = F[<<u, r + s + 1>>]
        BY <1>0, <2>2
    <2> HIDE DEF q, a, b
    <2>8. total(q, n) = q[1] + total(first(q, r), r) + total(second(q, r, s), s) + q[n]
        BY <2>3, FourParts DEF n
    <2>9. total(a, r) \in Int /\ total(b, s) \in Int
        BY <2>4, TotalInt
    <2>10. F[<<u, 0>>] \in Int /\ F[<<u, r + s + 1>>] \in Int
        BY <1>0, <2>1
    <2>11. total(q, n) = F[<<u, 0>>] + total(a, r) + total(b, s) + F[<<u, r + s + 1>>]
        BY ONLY <2>5, <2>6, <2>7, <2>8
    <2>12. QED  BY ONLY <2>9, <2>10, <2>11 DEF out, q, a, b
<1>2. out(F, 0, n) = total([i \in 1 .. r |-> F[<<0, i>>]], r)
    <2> DEFINE b == [j \in 1 .. s |-> F[<<0, r + j>>]]
    <2>1. \A j \in 1 .. s : b[j] = 0
        BY <1>0 DEF Shaped
    <2> HIDE DEF b
    <2>2. total(b, s) = 0
        BY <2>1, TotalNull
    <2>3. F[<<0, 0>>] = 0 /\ F[<<0, r + s + 1>>] = 0
        BY DEF Shaped
    <2> DEFINE x == total([i \in 1 .. r |-> F[<<0, i>>]], r)
    <2>4. out(F, 0, n) = 0 + x + 0 + 0 /\ x \in Int
        BY <1>0, <1>1, <2>2, <2>3 DEF b
    <2> HIDE DEF x
    <2>5. out(F, 0, n) = x
        BY <2>4
    <2>6. QED  BY <2>5 DEF x
<1>3. ASSUME NEW i \in 1 .. r
      PROVE  out(F, i, n) = F[<<i, 0>>] + total([j \in 1 .. s |-> F[<<i, r + j>>]], s)
    <2> DEFINE a == [k \in 1 .. r |-> F[<<i, k>>]]
    <2>1. \A k \in 1 .. r : a[k] = 0
        BY <1>0 DEF Shaped
    <2> HIDE DEF a
    <2>2. total(a, r) = 0
        BY <2>1, TotalNull
    <2>3. F[<<i, r + s + 1>>] = 0
        BY DEF Shaped
    <2> DEFINE x == total([j \in 1 .. s |-> F[<<i, r + j>>]], s)
               y == F[<<i, 0>>]
    <2>4. out(F, i, n) = y + 0 + x + 0 /\ x \in Int /\ y \in Int
        BY <1>0, <1>1, <2>2, <2>3 DEF a
    <2> HIDE DEF x, y
    <2>5. out(F, i, n) = y + x
        BY <2>4
    <2>6. QED  BY <2>5 DEF x, y
<1>4. ASSUME NEW j \in 1 .. s
      PROVE  out(F, r + j, n) = total([i \in 1 .. r |-> F[<<r + j, i>>]], r) + F[<<r + j, r + s + 1>>]
    <2> DEFINE u == r + j
               b == [k \in 1 .. s |-> F[<<u, r + k>>]]
    <2>1. \A k \in 1 .. s : b[k] = 0
        BY <1>0 DEF Shaped
    <2>2. u \in 0 .. n - 1 /\ u \in r + 1 .. r + s
        BY <1>0
    <2> HIDE DEF b, u
    <2>3. total(b, s) = 0
        BY <2>1, TotalNull
    <2>4. F[<<u, 0>>] = 0
        BY <2>2 DEF Shaped
    <2> DEFINE x == total([i \in 1 .. r |-> F[<<u, i>>]], r)
               y == F[<<u, r + s + 1>>]
    <2>5. out(F, u, n) = 0 + x + 0 + y /\ x \in Int /\ y \in Int
        BY <1>1, <2>2, <2>3, <2>4 DEF b
    <2> HIDE DEF x, y
    <2>6. out(F, u, n) = x + y
        BY <2>5
    <2>7. QED  BY <2>6 DEF x, y, u
<1>5. QED  BY <1>2, <1>3, <1>4 DEF n, PassedOn

-----------------------------------------------------------------------------
\* Quantities are positive.
IsOrder(req, cart) ==
    /\ Len(req) \in Nat /\ DOMAIN req = 1 .. Len(req)
    /\ Len(cart) \in Nat /\ DOMAIN cart = 1 .. Len(cart)
    /\ \A i \in DOMAIN req : req[i].quantity \in Nat \ {0}
    /\ \A j \in DOMAIN cart : cart[j][2] \in Nat \ {0}

may_fill(req, cart, i, j) == cart[j][1] \in req[i].acceptable

IsCapacities(C, req, cart, present, r, s) ==
    /\ C \in [Edges(r + s + 2) -> Nat]
    /\ \A i \in 1 .. r : C[<<0, i>>] = req[i].quantity
    /\ \A i \in 1 .. r, j \in 1 .. s :
            C[<<i, r + j>>] = IF may_fill(req, cart, i, j) THEN present ELSE 0
    /\ \A j \in 1 .. s : C[<<r + j, r + s + 1>>] = cart[j][2]
    /\ \A i \in 1 .. r, j \in 1 .. s : C[<<r + j, i>>] = 0

IsZero(C, u, v) == C[<<u, v>>] = 0 /\ C[<<v, u>>] = 0

NothingBetween(C, r, s) ==
    /\ IsZero(C, 0, 0) /\ IsZero(C, 0, r + s + 1)
    /\ \A i, k \in 1 .. r : IsZero(C, i, k)
    /\ \A j, k \in r + 1 .. r + s : IsZero(C, j, k)
    /\ \A i \in 1 .. r : IsZero(C, i, r + s + 1)
    /\ \A j \in r + 1 .. r + s : IsZero(C, 0, j)

\* The capacities are those of the code, edge by edge (line_items).
LEMMA CapacitiesAre ==
    ASSUME NEW req, NEW cart, IsOrder(req, cart), NEW present \in Nat,
           NEW r, r = Len(req), NEW s, s = Len(cart)
    PROVE  /\ IsCapacities(capacities(req, cart, present), req, cart, present, r, s)
           /\ NothingBetween(capacities(req, cart, present), r, s)
<1> DEFINE C == capacities(req, cart, present)
           n == r + s + 2
           val(u, v) == IF u = 0 /\ v \in 1 .. r THEN req[v].quantity
                        ELSE IF u \in 1 .. r /\ v \in r + 1 .. r + s /\ cart[v - r][1] \in req[u].acceptable
                             THEN present
                        ELSE IF u \in r + 1 .. r + s /\ v = r + s + 1 THEN cart[u - r][2]
                        ELSE 0
<1>1. /\ r \in Nat /\ s \in Nat
      /\ \A i \in 1 .. r : req[i].quantity \in Nat
      /\ \A j \in 1 .. s : cart[j][2] \in Nat
    BY DEF IsOrder
<1>2. n - 1 = r + s + 1
    BY <1>1
<1>3. C = [e \in Edges(n) |-> val(e[1], e[2])]
    BY <1>2 DEF capacities, Edges
<1>4. \A u, v \in 0 .. n - 1 : <<u, v>> \in Edges(n)
    BY DEF Edges
<1>5. ASSUME NEW u \in 0 .. n - 1, NEW v \in 0 .. n - 1 PROVE C[<<u, v>>] = val(u, v)
    <2> HIDE DEF C, val
    <2>1. QED  BY <1>3, <1>4
<1>6. \A u, v \in 0 .. n - 1 : val(u, v) \in Nat
    <2> SUFFICES ASSUME NEW u \in 0 .. n - 1, NEW v \in 0 .. n - 1 PROVE val(u, v) \in Nat
        OBVIOUS
    <2>1. u \in r + 1 .. r + s => cart[u - r][2] \in Nat
        <3>1. u \in r + 1 .. r + s => u - r \in 1 .. s
            BY <1>1
        <3>2. QED  BY <1>1, <3>1
    <2>2. v \in 1 .. r => req[v].quantity \in Nat
        BY <1>1
    <2>3. QED  BY <2>1, <2>2
<1>7. C \in [Edges(n) -> Nat]
    <2>1. \A e \in Edges(n) : e[1] \in 0 .. n - 1 /\ e[2] \in 0 .. n - 1
        BY DEF Edges
    <2> HIDE DEF C, val, n
    <2>2. QED  BY <1>3, <1>6, <2>1
<1>8. /\ 0 \in 0 .. n - 1 /\ r + s + 1 \in 0 .. n - 1
      /\ \A i \in 1 .. r : i \in 0 .. n - 1 /\ i # 0 /\ i \notin r + 1 .. r + s /\ i # r + s + 1
      /\ \A j \in r + 1 .. r + s : j \in 0 .. n - 1 /\ j # 0 /\ j \notin 1 .. r /\ j # r + s + 1
      /\ \A j \in 1 .. s : r + j \in r + 1 .. r + s /\ (r + j) - r = j
      /\ r + s + 1 \notin 1 .. r /\ r + s + 1 \notin r + 1 .. r + s /\ r + s + 1 # 0
      /\ 0 \notin 1 .. r /\ 0 \notin r + 1 .. r + s
    BY <1>1
<1> HIDE DEF C, n
<1>9. IsCapacities(C, req, cart, present, r, s)
    <2>1. \A i \in 1 .. r : C[<<0, i>>] = req[i].quantity
        BY <1>5, <1>8
    <2>2. ASSUME NEW i \in 1 .. r, NEW j \in 1 .. s
          PROVE  C[<<i, r + j>>] = IF may_fill(req, cart, i, j) THEN present ELSE 0
        <3>1. C[<<i, r + j>>] = val(i, r + j)
            BY <1>5, <1>8
        <3>2. val(i, r + j) = IF cart[j][1] \in req[i].acceptable THEN present ELSE 0
            BY <1>8
        <3>3. QED  BY <3>1, <3>2 DEF may_fill
    <2>3. ASSUME NEW j \in 1 .. s PROVE C[<<r + j, r + s + 1>>] = cart[j][2]
        <3>1. C[<<r + j, r + s + 1>>] = val(r + j, r + s + 1)
            BY <1>5, <1>8
        <3>2. val(r + j, r + s + 1) = cart[j][2]
            BY <1>8
        <3>3. QED  BY <3>1, <3>2
    <2>4. ASSUME NEW i \in 1 .. r, NEW j \in 1 .. s PROVE C[<<r + j, i>>] = 0
        <3>1. C[<<r + j, i>>] = val(r + j, i)
            BY <1>5, <1>8
        <3>2. val(r + j, i) = 0
            BY <1>8
        <3>3. QED  BY <3>1, <3>2
    <2>5. QED  BY <1>7, <2>1, <2>2, <2>3, <2>4 DEF IsCapacities, n
<1>10. NothingBetween(C, r, s)
    <2>1. IsZero(C, 0, 0) /\ IsZero(C, 0, r + s + 1)
        <3>1. val(0, 0) = 0 /\ val(0, r + s + 1) = 0 /\ val(r + s + 1, 0) = 0
            BY <1>8
        <3>2. QED  BY <1>5, <1>8, <3>1 DEF IsZero
    <2>2. ASSUME NEW i \in 1 .. r, NEW k \in 1 .. r PROVE IsZero(C, i, k)
        <3>1. val(i, k) = 0 /\ val(k, i) = 0
            BY <1>8
        <3>2. QED  BY <1>5, <1>8, <3>1 DEF IsZero
    <2>3. ASSUME NEW j \in r + 1 .. r + s, NEW k \in r + 1 .. r + s PROVE IsZero(C, j, k)
        <3>1. val(j, k) = 0 /\ val(k, j) = 0
            BY <1>8
        <3>2. QED  BY <1>5, <1>8, <3>1 DEF IsZero
    <2>4. ASSUME NEW i \in 1 .. r PROVE IsZero(C, i, r + s + 1)
        <3>1. val(i, r + s + 1) = 0 /\ val(r + s + 1, i) = 0
            BY <1>8
        <3>2. QED  BY <1>5, <1>8, <3>1 DEF IsZero
    <2>5. ASSUME NEW j \in r + 1 .. r + s PROVE IsZero(C, 0, j)
        <3>1. val(0, j) = 0 /\ val(j, 0) = 0
            BY <1>8
        <3>2. QED  BY <1>5, <1>8, <3>1 DEF IsZero
    <2>6. QED  BY <2>1, <2>2, <2>3, <2>4, <2>5 DEF NothingBetween
<1>11. QED  BY <1>9, <1>10 DEF C

wants(req) == [i \in DOMAIN req |-> req[i].quantity]
holds(cart) == [j \in DOMAIN cart |-> cart[j][2]]

\* The sum of a list.
LEMMA SumIs ==
    ASSUME NEW m \in Nat, NEW V, NEW q \in [1 .. m -> V]
    PROVE  Len(q) = m /\ sum(q) = total(q, m)
<1>1. q \in Seq(V)
    BY SeqDef
<1>2. Len(q) \in Nat /\ DOMAIN q = 1 .. Len(q)
    BY <1>1, LenProperties
<1>3. DOMAIN q = 1 .. m
    OBVIOUS
<1> DEFINE l == Len(q)
<1> HIDE DEF l
<1>4. l = m
    <2>1. 1 .. l = 1 .. m /\ l \in Nat
        BY <1>2, <1>3 DEF l
    <2>2. QED  BY <2>1
<1>5. QED  BY <1>4 DEF sum, l

Totals(req, cart, r, s) ==
    /\ r \in Nat /\ s \in Nat /\ DOMAIN req = 1 .. r /\ DOMAIN cart = 1 .. s
    /\ sum(wants(req)) = total(wants(req), r) /\ sum(wants(req)) \in Nat
    /\ sum(holds(cart)) = total(holds(cart), s) /\ sum(holds(cart)) \in Nat
    /\ IsInts(wants(req), r) /\ \A i \in 1 .. r : wants(req)[i] = req[i].quantity
    /\ IsInts(holds(cart), s) /\ \A j \in 1 .. s : holds(cart)[j] = cart[j][2]

\* The totals of both sides are quantities.
LEMMA OrderSums ==
    ASSUME NEW req, NEW cart, IsOrder(req, cart), NEW r, r = Len(req), NEW s, s = Len(cart)
    PROVE  Totals(req, cart, r, s)
<1>1. /\ r \in Nat /\ s \in Nat /\ DOMAIN req = 1 .. r /\ DOMAIN cart = 1 .. s
      /\ \A i \in 1 .. r : req[i].quantity \in Nat
      /\ \A j \in 1 .. s : cart[j][2] \in Nat
    BY DEF IsOrder
<1>2. /\ wants(req) \in [1 .. r -> Nat] /\ \A i \in 1 .. r : wants(req)[i] = req[i].quantity
      /\ holds(cart) \in [1 .. s -> Nat] /\ \A j \in 1 .. s : holds(cart)[j] = cart[j][2]
    BY <1>1 DEF wants, holds
<1> DEFINE p == wants(req)
           q == holds(cart)
<1> HIDE DEF p, q
<1>3. sum(p) = total(p, r) /\ sum(q) = total(q, s)
    BY <1>1, <1>2, SumIs DEF p, q
<1>4. /\ \A i \in 1 .. r : p[i] \in Nat
      /\ \A j \in 1 .. s : q[j] \in Nat
    <2>1. p \in [1 .. r -> Nat] /\ q \in [1 .. s -> Nat]
        BY <1>2 DEF p, q
    <2>2. QED  BY ONLY <2>1
<1>5. /\ IsInts(p, r) /\ IsInts(q, s)
      /\ total(p, r) \in Nat /\ total(q, s) \in Nat
    <2>1. \A x \in Nat : x \in Int
        OBVIOUS
    <2>2. IsInts(p, r) /\ IsInts(q, s)
        BY ONLY <1>4, <2>1 DEF IsInts
    <2>3. QED  BY <1>1, <1>4, <2>2, TotalNat
<1>6. QED  BY <1>1, <1>2, <1>3, <1>4, <1>5 DEF p, q, Totals

WithinCapacity(F, C, m) == \A u, v \in 0 .. m :
    F[<<u, v>>] <= C[<<u, v>>] /\ F[<<u, v>>] \in Int /\ C[<<u, v>>] \in Nat

\* No flow between what nothing joins, and none above the capacity.
LEMMA NetShaped ==
    ASSUME NEW r \in Nat, NEW s \in Nat, NEW C, C \in [Edges(r + s + 2) -> Nat],
           NothingBetween(C, r, s), NEW flow, FlowOK(flow, C, r + s + 2)
    PROVE  /\ Shaped(net(C, flow.cap, r + s + 2), r, s)
           /\ WithinCapacity(net(C, flow.cap, r + s + 2), C, r + s + 1)
<1> DEFINE n == r + s + 2
           F == net(C, flow.cap, n)
<1>1. n - 1 = r + s + 1
    OBVIOUS
<1>2. flow.cap \in [Edges(n) -> Nat] /\ IsFlow(F, n)
    BY DEF FlowOK
<1>3. ASSUME NEW u \in 0 .. n - 1, NEW v \in 0 .. n - 1
      PROVE  F[<<u, v>>] <= C[<<u, v>>] /\ F[<<u, v>>] \in Int /\ C[<<u, v>>] \in Nat
    <2> DEFINE e == <<u, v>>
    <2>1. e \in Edges(n)
        BY DEF Edges
    <2>2. F[e] = C[e] - flow.cap[e]
        BY <2>1 DEF net
    <2>3. C[e] \in Nat /\ flow.cap[e] \in Nat
        BY <1>2, <2>1
    <2> HIDE DEF e, F
    <2>4. F[e] <= C[e] /\ F[e] \in Int
        BY <2>2, <2>3
    <2>5. QED  BY <2>3, <2>4 DEF e
<1> HIDE DEF F
<1>4. ASSUME NEW u \in 0 .. n - 1, NEW v \in 0 .. n - 1, IsZero(C, u, v)
      PROVE  F[<<u, v>>] = 0 /\ F[<<v, u>>] = 0
    <2> DEFINE x == F[<<u, v>>]
               y == F[<<v, u>>]
    <2>1. x <= 0 /\ y <= 0
        BY <1>3, <1>4 DEF IsZero
    <2>2. x \in Int /\ y = - x
        BY <1>2 DEF IsFlow
    <2> HIDE DEF x, y
    <2>3. x = 0 /\ y = 0
        BY <2>1, <2>2
    <2>4. QED  BY <2>3 DEF x, y
<1>5. /\ 0 \in 0 .. n - 1 /\ r + s + 1 \in 0 .. n - 1
      /\ \A i \in 1 .. r : i \in 0 .. n - 1
      /\ \A j \in r + 1 .. r + s : j \in 0 .. n - 1
    OBVIOUS
<1> HIDE DEF n
<1>6. Shaped(F, r, s)
    <2>1. F[<<0, 0>>] = 0 /\ F[<<0, r + s + 1>>] = 0
        BY <1>4, <1>5 DEF NothingBetween
    <2>2. \A i, k \in 1 .. r : F[<<i, k>>] = 0
        BY <1>4, <1>5 DEF NothingBetween
    <2>3. \A j, k \in r + 1 .. r + s : F[<<j, k>>] = 0
        BY <1>4, <1>5 DEF NothingBetween
    <2>4. \A i \in 1 .. r : F[<<i, r + s + 1>>] = 0
        BY <1>4, <1>5 DEF NothingBetween
    <2>5. \A j \in r + 1 .. r + s : F[<<j, 0>>] = 0 /\ F[<<0, j>>] = 0
        BY <1>4, <1>5 DEF NothingBetween
    <2>6. QED  BY <1>2, <2>1, <2>2, <2>3, <2>4, <2>5 DEF Shaped, n
<1>7. WithinCapacity(F, C, n - 1)
    BY <1>3 DEF WithinCapacity
<1>8. QED  BY <1>1, <1>6, <1>7 DEF F, n

\* An assignment, with its sums as those of a table.
IsAssignment(f, req, cart, r, s) ==
    /\ f \in [(1 .. r) \X (1 .. s) -> 0 .. sum(holds(cart))]
    /\ \A i \in 1 .. r, j \in 1 .. s : f[<<i, j>>] > 0 => may_fill(req, cart, i, j)
    /\ \A i \in 1 .. r : total(Row(f, i, s), s) = req[i].quantity
    /\ \A j \in 1 .. s : total(Col(f, j, r), r) = cart[j][2]

\* An assignment in terms of the sums of a table.
LEMMA AssignableIs ==
    ASSUME NEW req, NEW cart, IsOrder(req, cart), NEW r, r = Len(req), NEW s, s = Len(cart)
    PROVE  assignable(req, cart) <=> \E f : IsAssignment(f, req, cart, r, s)
<1>1. r \in Nat /\ s \in Nat /\ DOMAIN req = 1 .. r /\ DOMAIN cart = 1 .. s
    BY OrderSums DEF Totals
<1> DEFINE V == 0 .. sum(holds(cart))
           Holds(f) == /\ \A i \in 1 .. r, j \in 1 .. s : f[<<i, j>>] > 0 => may_fill(req, cart, i, j)
                       /\ \A i \in 1 .. r : sum(Row(f, i, s)) = req[i].quantity
                       /\ \A j \in 1 .. s : sum(Col(f, j, r)) = cart[j][2]
<1>2. assignable(req, cart) <=> \E f \in [(1 .. r) \X (1 .. s) -> V] : Holds(f)
    BY <1>1 DEF assignable, holds, Row, Col, may_fill
<1>3. ASSUME NEW f \in [(1 .. r) \X (1 .. s) -> V]
      PROVE  /\ \A i \in 1 .. r : sum(Row(f, i, s)) = total(Row(f, i, s), s)
             /\ \A j \in 1 .. s : sum(Col(f, j, r)) = total(Col(f, j, r), r)
    <2> HIDE DEF V
    <2>1. ASSUME NEW i \in 1 .. r PROVE sum(Row(f, i, s)) = total(Row(f, i, s), s)
        <3>1. Row(f, i, s) \in [1 .. s -> V]
            BY DEF Row
        <3>2. QED  BY <1>1, <3>1, SumIs
    <2>2. ASSUME NEW j \in 1 .. s PROVE sum(Col(f, j, r)) = total(Col(f, j, r), r)
        <3>1. Col(f, j, r) \in [1 .. r -> V]
            BY DEF Col
        <3>2. QED  BY <1>1, <3>1, SumIs
    <2>3. QED  BY <2>1, <2>2
<1>4. ASSUME NEW f \in [(1 .. r) \X (1 .. s) -> V]
      PROVE  Holds(f) <=> IsAssignment(f, req, cart, r, s)
    BY <1>3 DEF IsAssignment
<1>5. \A f : IsAssignment(f, req, cart, r, s) => f \in [(1 .. r) \X (1 .. s) -> V]
    BY DEF IsAssignment
<1> HIDE DEF Holds, V
<1>6. QED  BY <1>2, <1>4, <1>5

\* A flow as large as the cart hands it out.
LEMMA FlowAssigns ==
    ASSUME NEW req, NEW cart, IsOrder(req, cart), NEW r, r = Len(req), NEW s, s = Len(cart),
           NEW present, present = sum(holds(cart)), present = sum(wants(req)),
           NEW flow, FlowOK(flow, capacities(req, cart, present), r + s + 2),
           flow.total = present
    PROVE  assignable(req, cart)
<1> DEFINE C == capacities(req, cart, present)
           n == r + s + 2
           F == net(C, flow.cap, n)
           f == [e \in (1 .. r) \X (1 .. s) |-> F[<<e[1], r + e[2]>>]]
<1>1. /\ r \in Nat /\ s \in Nat /\ DOMAIN req = 1 .. r /\ DOMAIN cart = 1 .. s
      /\ present \in Nat /\ total(wants(req), r) = present /\ total(holds(cart), s) = present
      /\ IsInts(wants(req), r) /\ \A i \in 1 .. r : wants(req)[i] = req[i].quantity
      /\ IsInts(holds(cart), s) /\ \A j \in 1 .. s : holds(cart)[j] = cart[j][2]
    <2>1. Totals(req, cart, r, s)
        BY OrderSums
    <2>2. QED  BY <2>1 DEF Totals
<1>2. IsCapacities(C, req, cart, present, r, s) /\ NothingBetween(C, r, s)
    BY <1>1, CapacitiesAre
<1> HIDE DEF C
<1>3. /\ Shaped(F, r, s)
      /\ \A u, v \in 0 .. r + s + 1 :
            F[<<u, v>>] <= C[<<u, v>>] /\ F[<<u, v>>] \in Int /\ C[<<u, v>>] \in Nat
    <2>1. C \in [Edges(r + s + 2) -> Nat] /\ FlowOK(flow, C, r + s + 2)
        BY <1>2 DEF IsCapacities, C
    <2>2. r \in Nat /\ s \in Nat /\ NothingBetween(C, r, s)
        BY <1>1, <1>2
    <2>3. Shaped(net(C, flow.cap, r + s + 2), r, s) /\ WithinCapacity(net(C, flow.cap, r + s + 2), C, r + s + 1)
        BY ONLY <2>1, <2>2, NetShaped
    <2>4. QED  BY <2>3 DEF WithinCapacity
<1>4. /\ out(F, 0, n) = present
      /\ \A u \in 1 .. n - 2 : out(F, u, n) = 0
      /\ IsFlow(F, n)
    BY DEF FlowOK, C
<1> HIDE DEF F
<1>20. PassedOn(F, r, s)
    <2>1. r \in Nat /\ s \in Nat
        BY <1>1
    <2>2. QED  BY ONLY <1>3, <2>1, Rows
<1>5. /\ \A i \in 1 .. r : i \in 0 .. r + s + 1 /\ i \in 1 .. n - 2
      /\ \A j \in 1 .. s : r + j \in 0 .. r + s + 1 /\ r + j \in 1 .. n - 2
      /\ 0 \in 0 .. r + s + 1 /\ r + s + 1 \in 0 .. r + s + 1 /\ n - 1 = r + s + 1
    BY <1>1
<1>6. \A i \in 1 .. r, j \in 1 .. s : f[<<i, j>>] = F[<<i, r + j>>]
    OBVIOUS
<1>7. ASSUME NEW i \in 1 .. r, NEW j \in 1 .. s
      PROVE  /\ f[<<i, j>>] \in 0 .. present
             /\ f[<<i, j>>] > 0 => may_fill(req, cart, i, j)
             /\ F[<<r + j, i>>] = - f[<<i, j>>]
    <2> DEFINE x == f[<<i, j>>]
    <2>1. x = F[<<i, r + j>>] /\ x \in Int /\ x <= C[<<i, r + j>>]
        BY <1>3, <1>5, <1>6
    <2>2. C[<<i, r + j>>] = IF may_fill(req, cart, i, j) THEN present ELSE 0
        BY <1>2 DEF IsCapacities
    <2>3. F[<<r + j, i>>] <= 0
        <3>1. C[<<r + j, i>>] = 0
            BY <1>2 DEF IsCapacities
        <3>2. F[<<r + j, i>>] <= C[<<r + j, i>>]
            BY <1>3, <1>5
        <3>3. QED  BY <3>1, <3>2
    <2>4. F[<<r + j, i>>] = - x
        BY <1>4, <1>5, <2>1 DEF IsFlow
    <2> HIDE DEF x, f
    <2>5. x >= 0
        BY <2>1, <2>3, <2>4
    <2>6. x <= present
        BY <1>1, <2>1, <2>2
    <2>7. x > 0 => may_fill(req, cart, i, j)
        BY <2>1, <2>2
    <2>8. x \in 0 .. present
        BY <1>1, <2>1, <2>5, <2>6
    <2>9. QED  BY <2>4, <2>7, <2>8 DEF x
<1>8. f \in [(1 .. r) \X (1 .. s) -> 0 .. sum(holds(cart))]
    <2>1. f = [e \in (1 .. r) \X (1 .. s) |-> f[e]]
        OBVIOUS
    <2> HIDE DEF f
    <2>2. ASSUME NEW e \in (1 .. r) \X (1 .. s) PROVE f[e] \in 0 .. present
        <3>1. e[1] \in 1 .. r /\ e[2] \in 1 .. s /\ e = <<e[1], e[2]>>
            OBVIOUS
        <3>2. f[<<e[1], e[2]>>] \in 0 .. present
            BY ONLY <1>7, <3>1
        <3>3. QED  BY <3>1, <3>2
    <2>3. QED  BY <2>1, <2>2
<1> HIDE DEF f
<1>9. IsTable(f, r, s)
    <2>1. \A x : x \in 0 .. present => x \in Int
        OBVIOUS
    <2>2. \A i \in 1 .. r, j \in 1 .. s : f[<<i, j>>] \in 0 .. present
        BY ONLY <1>7
    <2>3. QED  BY ONLY <2>1, <2>2 DEF IsTable
<1>10. ASSUME NEW i \in 1 .. r
       PROVE  total(Row(f, i, s), s) = F[<<0, i>>] /\ F[<<0, i>>] <= wants(req)[i]
                /\ F[<<0, i>>] \in Int
    <2> DEFINE x == F[<<0, i>>]
               y == total(Row(f, i, s), s)
    <2>1. out(F, i, n) = F[<<i, 0>>] + total([j \in 1 .. s |-> F[<<i, r + j>>]], s)
        BY <1>20 DEF PassedOn
    <2>2. [j \in 1 .. s |-> F[<<i, r + j>>]] = Row(f, i, s)
        BY <1>6 DEF Row
    <2>3. out(F, i, n) = 0
        BY <1>4, <1>5
    <2>4. F[<<i, 0>>] = - x /\ x \in Int
        BY <1>4, <1>5 DEF IsFlow
    <2>5. y \in Int
        BY <1>1, <1>9, RowInt
    <2>6. x <= wants(req)[i]
        <3>1. C[<<0, i>>] = wants(req)[i]
            BY <1>1, <1>2 DEF IsCapacities
        <3>2. QED  BY <1>3, <1>5, <3>1
    <2>7. 0 = (- x) + y
        BY <2>1, <2>2, <2>3, <2>4
    <2> HIDE DEF x, y
    <2>8. y = x
        BY <2>4, <2>5, <2>7
    <2>9. QED  BY <2>4, <2>6, <2>8 DEF x, y
<1>11. \A i \in 1 .. r : F[<<0, i>>] = wants(req)[i]
    <2> DEFINE p == [i \in 1 .. r |-> F[<<0, i>>]]
    <2>1. \A i \in 1 .. r : p[i] = F[<<0, i>>]
        OBVIOUS
    <2>2. out(F, 0, n) = total(p, r)
        BY <1>20 DEF PassedOn
    <2> HIDE DEF p
    <2>3. IsInts(p, r) /\ \A i \in 1 .. r : p[i] <= wants(req)[i]
        BY <1>10, <2>1 DEF IsInts
    <2>4. total(p, r) = total(wants(req), r)
        BY <1>1, <1>4, <2>2
    <2>5. \A i \in 1 .. r : p[i] = wants(req)[i]
        BY <1>1, <2>3, <2>4, TotalLess
    <2>6. QED  BY <2>1, <2>5
<1>12. ASSUME NEW j \in 1 .. s
       PROVE  total(Col(f, j, r), r) <= holds(cart)[j]
    <2> DEFINE x == total(Col(f, j, r), r)
               y == F[<<r + j, r + s + 1>>]
    <2>1. out(F, r + j, n) = total([i \in 1 .. r |-> F[<<r + j, i>>]], r) + y
        BY <1>20 DEF PassedOn
    <2>2. total([i \in 1 .. r |-> F[<<r + j, i>>]], r) = - x
        <3> DEFINE a == [i \in 1 .. r |-> F[<<r + j, i>>]]
        <3>1. \A i \in 1 .. r : a[i] = - Col(f, j, r)[i]
            BY <1>7 DEF Col
        <3>2. IsInts(Col(f, j, r), r)
            BY <1>1, <1>9, RowInt
        <3> HIDE DEF a
        <3>3. total(a, r) = - x
            BY <1>1, <3>1, <3>2, TotalNegated
        <3>4. QED  BY <3>3 DEF a
    <2>3. out(F, r + j, n) = 0
        BY <1>4, <1>5
    <2>4. y <= holds(cart)[j] /\ y \in Int
        <3>1. C[<<r + j, r + s + 1>>] = holds(cart)[j]
            BY <1>1, <1>2 DEF IsCapacities
        <3>2. QED  BY <1>3, <1>5, <3>1
    <2>5. x \in Int
        BY <1>1, <1>9, RowInt
    <2>6. 0 = (- x) + y
        BY <2>1, <2>2, <2>3
    <2> HIDE DEF x, y
    <2>7. x = y
        BY <2>4, <2>5, <2>6
    <2>8. QED  BY <2>4, <2>7 DEF x
<1>13. total(ColSums(f, r, s), s) = total(holds(cart), s)
    <2>1. total(RowSums(f, r, s), r) = total(ColSums(f, r, s), s)
        BY <1>1, <1>9, RowsAreCols
    <2>2. \A i \in 1 .. r : RowSums(f, r, s)[i] = wants(req)[i]
        BY <1>10, <1>11 DEF RowSums
    <2>3. total(RowSums(f, r, s), r) = total(wants(req), r)
        BY <1>1, <2>2, TotalSame
    <2>4. QED  BY <1>1, <2>1, <2>3
<1>14. \A j \in 1 .. s : ColSums(f, r, s)[j] = holds(cart)[j]
    <2>1. \A j \in 1 .. s : ColSums(f, r, s)[j] <= holds(cart)[j]
        BY <1>12 DEF ColSums
    <2>2. IsInts(ColSums(f, r, s), s)
        BY <1>1, <1>9, RowInt
    <2>3. QED  BY <1>1, <1>13, <2>1, <2>2, TotalLess
<1>15. IsAssignment(f, req, cart, r, s)
    <2>1. \A i \in 1 .. r : total(Row(f, i, s), s) = req[i].quantity
        BY <1>1, <1>10, <1>11
    <2>2. \A j \in 1 .. s : total(Col(f, j, r), r) = cart[j][2]
        BY <1>1, <1>14 DEF ColSums
    <2>3. QED  BY <1>7, <1>8, <2>1, <2>2 DEF IsAssignment
<1>16. QED  BY <1>15, AssignableIs

\* The source has no more to give than the requirements want.
LEMMA FlowIsWanted ==
    ASSUME NEW req, NEW cart, IsOrder(req, cart), NEW r, r = Len(req), NEW s, s = Len(cart),
           NEW present \in Nat,
           NEW flow, FlowOK(flow, capacities(req, cart, present), r + s + 2)
    PROVE  flow.total <= sum(wants(req))
<1> DEFINE C == capacities(req, cart, present)
           F == net(C, flow.cap, r + s + 2)
           p == [i \in 1 .. r |-> F[<<0, i>>]]
<1>1. Totals(req, cart, r, s)
    BY OrderSums
<1>2. IsCapacities(C, req, cart, present, r, s) /\ NothingBetween(C, r, s)
    BY CapacitiesAre
<1>3. r \in Nat /\ s \in Nat
    BY <1>1 DEF Totals
<1>4. C \in [Edges(r + s + 2) -> Nat] /\ FlowOK(flow, C, r + s + 2)
    BY <1>2 DEF IsCapacities, C
<1> HIDE DEF C
<1>5. Shaped(F, r, s) /\ WithinCapacity(F, C, r + s + 1)
    BY ONLY <1>2, <1>3, <1>4, NetShaped
<1>6. out(F, 0, r + s + 2) = flow.total
    BY <1>4 DEF FlowOK
<1> HIDE DEF F
<1>7. PassedOn(F, r, s)
    BY ONLY <1>3, <1>5, Rows
<1>8. flow.total = total(p, r)
    BY <1>6, <1>7 DEF PassedOn
<1>9. \A i \in 1 .. r : p[i] = F[<<0, i>>]
    OBVIOUS
<1> HIDE DEF p
<1>10. ASSUME NEW i \in 1 .. r PROVE p[i] \in Int /\ p[i] <= wants(req)[i]
    <2>1. 0 \in 0 .. r + s + 1 /\ i \in 0 .. r + s + 1
        BY <1>3
    <2>2. F[<<0, i>>] <= C[<<0, i>>] /\ F[<<0, i>>] \in Int
        BY <1>5, <2>1 DEF WithinCapacity
    <2>3. C[<<0, i>>] = wants(req)[i]
        BY <1>1, <1>2 DEF IsCapacities, Totals
    <2>4. QED  BY <1>9, <2>2, <2>3
<1>11. IsInts(p, r) /\ IsInts(wants(req), r)
    BY <1>1, <1>10 DEF IsInts, Totals
<1>12. total(p, r) <= total(wants(req), r)
    BY <1>3, <1>10, <1>11, TotalLess
<1>13. sum(wants(req)) = total(wants(req), r)
    BY <1>1 DEF Totals
<1>14. QED  BY <1>8, <1>12, <1>13

\* What an assignment sends along each edge.
given(f, req, cart, r, s, u, v) ==
    IF u = 0 /\ v \in 1 .. r THEN req[v].quantity
    ELSE IF u \in 1 .. r /\ v \in r + 1 .. r + s THEN f[<<u, v - r>>]
    ELSE IF u \in r + 1 .. r + s /\ v = r + s + 1 THEN cart[u - r][2]
    ELSE 0

taken(f, req, cart, r, s) ==
    [e \in Edges(r + s + 2) |-> given(f, req, cart, r, s, e[2], e[1])
                                  - given(f, req, cart, r, s, e[1], e[2])]

IsTaken(L, f, req, cart, r, s) ==
    /\ Shaped(L, r, s)
    /\ \A i \in 1 .. r : L[<<0, i>>] = - req[i].quantity /\ L[<<i, 0>>] = req[i].quantity
    /\ \A i \in 1 .. r, j \in 1 .. s : /\ L[<<i, r + j>>] = - f[<<i, j>>]
                                      /\ L[<<r + j, i>>] = f[<<i, j>>]
    /\ \A j \in 1 .. s : L[<<r + j, r + s + 1>>] = - cart[j][2]

\* What an assignment sends is a quantity.
LEMMA GivenInside ==
    ASSUME NEW req, NEW cart, IsOrder(req, cart), NEW r, r = Len(req), NEW s, s = Len(cart),
           NEW f, IsAssignment(f, req, cart, r, s)
    PROVE  /\ \A i \in 1 .. r, j \in 1 .. s : f[<<i, j>>] \in Nat /\ f[<<i, j>>] <= sum(holds(cart))
           /\ \A u, v \in 0 .. r + s + 1 : given(f, req, cart, r, s, u, v) \in Nat
<1>1. Totals(req, cart, r, s)
    BY OrderSums
<1>2. /\ r \in Nat /\ s \in Nat /\ sum(holds(cart)) \in Nat
      /\ \A i \in 1 .. r : req[i].quantity \in Nat
      /\ \A j \in 1 .. s : cart[j][2] \in Nat
    BY <1>1 DEF Totals, IsOrder
<1>3. \A i \in 1 .. r, j \in 1 .. s : f[<<i, j>>] \in 0 .. sum(holds(cart))
    BY DEF IsAssignment
<1>4. \A i \in 1 .. r, j \in 1 .. s : f[<<i, j>>] \in Nat /\ f[<<i, j>>] <= sum(holds(cart))
    <2> DEFINE h == sum(holds(cart))
    <2> HIDE DEF h
    <2>1. \A x \in 0 .. h : x \in Nat /\ x <= h
        BY <1>2 DEF h
    <2>2. \A i \in 1 .. r, j \in 1 .. s : f[<<i, j>>] \in 0 .. h
        BY <1>3 DEF h
    <2>3. \A i \in 1 .. r, j \in 1 .. s : f[<<i, j>>] \in Nat /\ f[<<i, j>>] <= h
        BY ONLY <2>1, <2>2
    <2>4. QED  BY <2>3 DEF h
<1>5. ASSUME NEW u \in 0 .. r + s + 1, NEW v \in 0 .. r + s + 1
      PROVE  given(f, req, cart, r, s, u, v) \in Nat
    <2>1. v \in r + 1 .. r + s => v - r \in 1 .. s
        BY <1>2
    <2>2. u \in r + 1 .. r + s => u - r \in 1 .. s
        BY <1>2
    <2>3. 0 \in Nat
        OBVIOUS
    <2>4. QED  BY ONLY <1>2, <1>4, <2>1, <2>2, <2>3 DEF given
<1>6. QED  BY <1>4, <1>5

\* An assignment taken from the network is a flow between its parts.
LEMMA TakenIs ==
    ASSUME NEW req, NEW cart, IsOrder(req, cart), NEW r, r = Len(req), NEW s, s = Len(cart),
           NEW f, IsAssignment(f, req, cart, r, s)
    PROVE  /\ IsTaken(taken(f, req, cart, r, s), f, req, cart, r, s)
           /\ \A u, v \in 0 .. r + s + 1 : 
                - taken(f, req, cart, r, s)[<<u, v>>] <= given(f, req, cart, r, s, u, v)
<1> DEFINE L == taken(f, req, cart, r, s)
           g(u, v) == given(f, req, cart, r, s, u, v)
           N == 0 .. r + s + 1
<1>1. Totals(req, cart, r, s)
    BY OrderSums
<1>2. r \in Nat /\ s \in Nat
    BY <1>1 DEF Totals
<1>3. \A u, v \in N : g(u, v) \in Nat
    BY GivenInside
<1>4. \A u, v \in N : <<u, v>> \in Edges(r + s + 2)
    BY <1>2 DEF Edges
<1>5. \A u, v \in N : L[<<u, v>>] = g(v, u) - g(u, v)
    <2> HIDE DEF g
    <2>1. L = [e \in Edges(r + s + 2) |-> g(e[2], e[1]) - g(e[1], e[2])]
        BY DEF taken, g
    <2> HIDE DEF L
    <2>2. QED  BY <1>4, <2>1
<1> HIDE DEF L
<1>6. /\ 0 \in N /\ r + s + 1 \in N
      /\ \A i \in 1 .. r : i \in N /\ i # 0 /\ i \notin r + 1 .. r + s /\ i # r + s + 1
      /\ \A j \in r + 1 .. r + s : j \in N /\ j # 0 /\ j \notin 1 .. r /\ j # r + s + 1
      /\ \A j \in 1 .. s : r + j \in r + 1 .. r + s /\ (r + j) - r = j
      /\ r + s + 1 \notin 1 .. r /\ r + s + 1 \notin r + 1 .. r + s /\ r + s + 1 # 0
      /\ 0 \notin 1 .. r /\ 0 \notin r + 1 .. r + s
    BY <1>2
<1>7. /\ g(0, 0) = 0 /\ g(0, r + s + 1) = 0 /\ g(r + s + 1, 0) = 0
      /\ \A i, k \in 1 .. r : g(i, k) = 0
      /\ \A j, k \in r + 1 .. r + s : g(j, k) = 0
      /\ \A i \in 1 .. r : g(i, r + s + 1) = 0 /\ g(r + s + 1, i) = 0
      /\ \A j \in r + 1 .. r + s : g(j, 0) = 0 /\ g(0, j) = 0
    BY ONLY <1>6 DEF given
<1>8. /\ \A i \in 1 .. r : g(0, i) = req[i].quantity /\ g(i, 0) = 0
      /\ \A i \in 1 .. r, j \in 1 .. s : g(i, r + j) = f[<<i, j>>] /\ g(r + j, i) = 0
      /\ \A j \in 1 .. s : g(r + j, r + s + 1) = cart[j][2] /\ g(r + s + 1, r + j) = 0
    BY ONLY <1>6 DEF given
<1> HIDE DEF g
<1>9. ASSUME NEW u \in N, NEW v \in N
      PROVE  /\ L[<<u, v>>] \in Int /\ L[<<v, u>>] = - L[<<u, v>>]
             /\ - L[<<u, v>>] <= g(u, v)
             /\ g(u, v) = 0 /\ g(v, u) = 0 => L[<<u, v>>] = 0
             /\ g(v, u) = 0 => L[<<u, v>>] = - g(u, v) /\ L[<<v, u>>] = g(u, v)
    <2> DEFINE a == g(u, v)
               b == g(v, u)
               x == L[<<u, v>>]
               y == L[<<v, u>>]
    <2>1. a \in Nat /\ b \in Nat /\ x = b - a /\ y = a - b
        BY ONLY <1>3, <1>5, u \in N, v \in N
    <2> HIDE DEF a, b, x, y
    <2>2. /\ x \in Int /\ y = - x /\ - x <= a
          /\ a = 0 /\ b = 0 => x = 0
          /\ b = 0 => x = - a /\ y = a
        BY ONLY <2>1
    <2>3. QED  BY ONLY <2>2 DEF a, b, x, y
<1>20. \A u, v \in N : L[<<u, v>>] \in Int /\ L[<<v, u>>] = - L[<<u, v>>]
    BY ONLY <1>9
<1>21. ASSUME NEW u \in N, NEW v \in N, g(u, v) = 0, g(v, u) = 0
       PROVE  L[<<u, v>>] = 0 /\ L[<<v, u>>] = 0
    BY ONLY <1>9, u \in N, v \in N, g(u, v) = 0, g(v, u) = 0
<1>10. Shaped(L, r, s)
    <2>1. \A u \in 0 .. (r + s + 2) - 1 : u \in N
        BY <1>2
    <2>2. IsFlow(L, r + s + 2)
        <3> HIDE DEF N
        <3>1. QED  BY <1>20, <2>1 DEF IsFlow
    <2>3. L[<<0, 0>>] = 0 /\ L[<<0, r + s + 1>>] = 0
        <3>1. /\ 0 \in N /\ r + s + 1 \in N
              /\ g(0, 0) = 0 /\ g(0, r + s + 1) = 0 /\ g(r + s + 1, 0) = 0
            BY <1>6, <1>7
        <3> HIDE DEF N
        <3>2. QED  BY ONLY <1>21, <3>1
    <2>4. ASSUME NEW i \in 1 .. r, NEW k \in 1 .. r PROVE L[<<i, k>>] = 0
        <3>1. i \in N /\ k \in N /\ g(i, k) = 0 /\ g(k, i) = 0
            BY <1>6, <1>7
        <3>2. QED  BY ONLY <1>21, <3>1
    <2>5. ASSUME NEW j \in r + 1 .. r + s, NEW k \in r + 1 .. r + s PROVE L[<<j, k>>] = 0
        <3>1. j \in N /\ k \in N /\ g(j, k) = 0 /\ g(k, j) = 0
            BY <1>6, <1>7
        <3>2. QED  BY ONLY <1>21, <3>1
    <2>6. ASSUME NEW i \in 1 .. r PROVE L[<<i, r + s + 1>>] = 0
        <3>1. i \in N /\ r + s + 1 \in N /\ g(i, r + s + 1) = 0 /\ g(r + s + 1, i) = 0
            BY <1>6, <1>7
        <3>2. QED  BY ONLY <1>21, <3>1
    <2>7. ASSUME NEW j \in r + 1 .. r + s PROVE L[<<j, 0>>] = 0 /\ L[<<0, j>>] = 0
        <3>1. j \in N /\ 0 \in N /\ g(j, 0) = 0 /\ g(0, j) = 0
            BY <1>6, <1>7
        <3>2. QED  BY ONLY <1>21, <3>1
    <2>8. QED  BY ONLY <2>2, <2>3, <2>4, <2>5, <2>6, <2>7 DEF Shaped
<1>11. \A i \in 1 .. r : L[<<0, i>>] = - req[i].quantity /\ L[<<i, 0>>] = req[i].quantity
    BY ONLY <1>6, <1>8, <1>9
<1>12. ASSUME NEW i \in 1 .. r, NEW j \in 1 .. s
       PROVE  L[<<i, r + j>>] = - f[<<i, j>>] /\ L[<<r + j, i>>] = f[<<i, j>>]
    <2>1. i \in N /\ r + j \in N /\ g(i, r + j) = f[<<i, j>>] /\ g(r + j, i) = 0
        BY <1>6, <1>8
    <2>2. QED  BY ONLY <1>9, <2>1
<1>13. ASSUME NEW j \in 1 .. s PROVE L[<<r + j, r + s + 1>>] = - cart[j][2]
    <2>1. r + s + 1 \in N /\ r + j \in N /\ g(r + j, r + s + 1) = cart[j][2] /\ g(r + s + 1, r + j) = 0
        BY <1>6, <1>8
    <2>2. QED  BY ONLY <1>9, <2>1
<1>14. IsTaken(L, f, req, cart, r, s)
    BY ONLY <1>10, <1>11, <1>12, <1>13 DEF IsTaken
<1>15. \A u, v \in N : - L[<<u, v>>] <= g(u, v)
    BY ONLY <1>9
<1>16. QED  BY ONLY <1>14, <1>15 DEF L, g

\* An assignment keeps to the capacities.
LEMMA GivenWithin ==
    ASSUME NEW req, NEW cart, IsOrder(req, cart), NEW r, r = Len(req), NEW s, s = Len(cart),
           NEW f, IsAssignment(f, req, cart, r, s),
           NEW u \in 0 .. r + s + 1, NEW v \in 0 .. r + s + 1
    PROVE  given(f, req, cart, r, s, u, v) <= capacities(req, cart, sum(holds(cart)))[<<u, v>>]
<1> DEFINE h == sum(holds(cart))
           C == capacities(req, cart, h)
           g == given(f, req, cart, r, s, u, v)
<1>1. Totals(req, cart, r, s)
    BY OrderSums
<1>2. /\ r \in Nat /\ s \in Nat /\ h \in Nat
      /\ \A i \in 1 .. r : req[i].quantity \in Nat
      /\ \A j \in 1 .. s : cart[j][2] \in Nat
    BY <1>1 DEF Totals, IsOrder
<1>3. IsCapacities(C, req, cart, h, r, s)
    BY <1>2, CapacitiesAre
<1>4. \A i \in 1 .. r, j \in 1 .. s : f[<<i, j>>] \in Nat /\ f[<<i, j>>] <= h
    BY GivenInside
<1>5. \A i \in 1 .. r, j \in 1 .. s : f[<<i, j>>] > 0 => may_fill(req, cart, i, j)
    BY DEF IsAssignment
<1> HIDE DEF C, h
<1>6. C[<<u, v>>] \in Nat
    <2>1. <<u, v>> \in Edges(r + s + 2)
        BY <1>2 DEF Edges
    <2>2. QED  BY <1>3, <2>1 DEF IsCapacities
<1>7. CASE u = 0 /\ v \in 1 .. r
    <2>1. g = req[v].quantity
        BY <1>7 DEF given
    <2>2. C[<<u, v>>] = req[v].quantity /\ req[v].quantity \in Nat
        BY <1>2, <1>3, <1>7 DEF IsCapacities
    <2> HIDE DEF g
    <2>3. g <= C[<<u, v>>]
        BY <2>1, <2>2
    <2>4. QED  BY <2>3 DEF g, C, h
<1>8. CASE u \in 1 .. r /\ v \in r + 1 .. r + s
    <2> DEFINE j == v - r
    <2>1. u # 0 /\ j \in 1 .. s /\ r + j = v
        BY <1>2, <1>8
    <2>2. g = f[<<u, j>>]
        BY <1>8, <2>1 DEF given
    <2> HIDE DEF j, g
    <2>3. C[<<u, v>>] = IF may_fill(req, cart, u, j) THEN h ELSE 0
        BY <1>3, <1>8, <2>1 DEF IsCapacities
    <2>4. g \in Nat /\ g <= h /\ (g > 0 => may_fill(req, cart, u, j))
        BY <1>4, <1>5, <1>8, <2>1, <2>2
    <2>5. g <= C[<<u, v>>]
        BY <1>2, <2>3, <2>4
    <2>6. QED  BY <2>5 DEF g, C, h
<1>9. CASE u \in r + 1 .. r + s /\ v = r + s + 1
    <2> DEFINE j == u - r
    <2>1. u # 0 /\ u \notin 1 .. r /\ j \in 1 .. s /\ r + j = u
        BY <1>2, <1>9
    <2>2. g = cart[j][2]
        BY <1>9, <2>1 DEF given
    <2> HIDE DEF j, g
    <2>3. C[<<u, v>>] = cart[j][2] /\ cart[j][2] \in Nat
        BY <1>2, <1>3, <1>9, <2>1 DEF IsCapacities
    <2>4. g <= C[<<u, v>>]
        BY <2>2, <2>3
    <2>5. QED  BY <2>4 DEF g, C, h
<1>10. CASE ~ (u = 0 /\ v \in 1 .. r) /\ ~ (u \in 1 .. r /\ v \in r + 1 .. r + s)
            /\ ~ (u \in r + 1 .. r + s /\ v = r + s + 1)
    <2>1. g = 0
        BY ONLY <1>10 DEF given
    <2> HIDE DEF g
    <2>2. g <= C[<<u, v>>]
        BY <1>6, <2>1
    <2>3. QED  BY <2>2 DEF g, C, h
<1>11. QED  BY <1>7, <1>8, <1>9, <1>10

\* An assignment is a flow: nothing is lost at a requirement or an item, and
\* the source gives all that is wanted.
LEMMA AssignmentFlows ==
    ASSUME NEW req, NEW cart, IsOrder(req, cart), NEW r, r = Len(req), NEW s, s = Len(cart),
           NEW f, IsAssignment(f, req, cart, r, s),
           NEW L, IsTaken(L, f, req, cart, r, s)
    PROVE  /\ IsFlow(L, r + s + 2)
           /\ \A u \in 1 .. r + s : out(L, u, r + s + 2) = 0
           /\ out(L, 0, r + s + 2) = - sum(wants(req))
<1>1. Totals(req, cart, r, s)
    BY OrderSums
<1>2. r \in Nat /\ s \in Nat
    BY <1>1 DEF Totals
<1>3. Shaped(L, r, s)
    BY DEF IsTaken
<1>4. PassedOn(L, r, s)
    BY ONLY <1>2, <1>3, Rows
<1>5. IsTable(f, r, s)
    <2>1. \A i \in 1 .. r, j \in 1 .. s : f[<<i, j>>] \in Nat
        BY GivenInside
    <2>2. \A x \in Nat : x \in Int
        OBVIOUS
    <2>3. QED  BY ONLY <2>1, <2>2 DEF IsTable
<1>6. ASSUME NEW i \in 1 .. r PROVE out(L, i, r + s + 2) = 0
    <2> DEFINE a == [j \in 1 .. s |-> L[<<i, r + j>>]]
               x == total(Row(f, i, s), s)
    <2>1. \A j \in 1 .. s : a[j] = - Row(f, i, s)[j]
        BY DEF IsTaken, Row
    <2>2. IsInts(Row(f, i, s), s) /\ x \in Int
        BY <1>2, <1>5, RowInt
    <2>3. out(L, i, r + s + 2) = L[<<i, 0>>] + total(a, s)
        BY <1>4 DEF PassedOn
    <2>4. L[<<i, 0>>] = x
        BY DEF IsTaken, IsAssignment
    <2> HIDE DEF a
    <2>5. total(a, s) = - x
        BY <1>2, <2>1, <2>2, TotalNegated
    <2> HIDE DEF x
    <2>6. QED  BY ONLY <2>2, <2>3, <2>4, <2>5
<1>7. ASSUME NEW j \in 1 .. s PROVE out(L, r + j, r + s + 2) = 0
    <2> DEFINE a == [i \in 1 .. r |-> L[<<r + j, i>>]]
               x == total(Col(f, j, r), r)
    <2>1. \A i \in 1 .. r : a[i] = Col(f, j, r)[i]
        BY DEF IsTaken, Col
    <2>2. x \in Int
        BY <1>2, <1>5, RowInt
    <2>3. out(L, r + j, r + s + 2) = total(a, r) + L[<<r + j, r + s + 1>>]
        BY <1>4 DEF PassedOn
    <2>4. L[<<r + j, r + s + 1>>] = - x
        BY DEF IsTaken, IsAssignment
    <2> HIDE DEF a
    <2>5. total(a, r) = x
        BY <1>2, <2>1, TotalSame
    <2> HIDE DEF x
    <2>6. QED  BY ONLY <2>2, <2>3, <2>4, <2>5
<1>8. ASSUME NEW u \in 1 .. r + s PROVE out(L, u, r + s + 2) = 0
    <2>1. CASE u \in 1 .. r
        BY <1>6, <2>1
    <2>2. CASE u \notin 1 .. r
        <3> DEFINE j == u - r
        <3>1. j \in 1 .. s /\ r + j = u
            BY <1>2, <2>2
        <3> HIDE DEF j
        <3>2. QED  BY <1>7, <3>1
    <2>3. QED  BY <2>1, <2>2
<1>9. out(L, 0, r + s + 2) = - sum(wants(req))
    <2> DEFINE a == [i \in 1 .. r |-> L[<<0, i>>]]
    <2>1. \A i \in 1 .. r : a[i] = - wants(req)[i]
        BY <1>1 DEF IsTaken, Totals
    <2>2. out(L, 0, r + s + 2) = total(a, r)
        BY <1>4 DEF PassedOn
    <2>3. IsInts(wants(req), r) /\ sum(wants(req)) = total(wants(req), r)
        BY <1>1 DEF Totals
    <2> HIDE DEF a
    <2>4. total(a, r) = - total(wants(req), r)
        BY <1>2, <2>1, <2>3, TotalNegated
    <2>5. QED  BY <2>2, <2>3, <2>4
<1>10. QED  BY <1>3, <1>8, <1>9 DEF Shaped

\* What is assigned is both all that is wanted and all that is there, and
\* every item fills something.
LEMMA AssignmentSums ==
    ASSUME NEW req, NEW cart, IsOrder(req, cart), NEW r, r = Len(req), NEW s, s = Len(cart),
           NEW f, IsAssignment(f, req, cart, r, s)
    PROVE  /\ sum(wants(req)) = sum(holds(cart))
           /\ \A j \in 1 .. s : \E i \in 1 .. r : may_fill(req, cart, i, j)
<1>1. Totals(req, cart, r, s)
    BY OrderSums
<1>2. r \in Nat /\ s \in Nat
    BY <1>1 DEF Totals
<1>3. IsTable(f, r, s)
    <2>1. \A i \in 1 .. r, j \in 1 .. s : f[<<i, j>>] \in Nat
        BY GivenInside
    <2>2. \A x \in Nat : x \in Int
        OBVIOUS
    <2>3. QED  BY ONLY <2>1, <2>2 DEF IsTable
<1>4. total(RowSums(f, r, s), r) = total(ColSums(f, r, s), s)
    BY <1>2, <1>3, RowsAreCols
<1>5. total(RowSums(f, r, s), r) = total(wants(req), r)
    <2>1. \A i \in 1 .. r : RowSums(f, r, s)[i] = wants(req)[i]
        BY <1>1 DEF RowSums, IsAssignment, Totals
    <2>2. QED  BY <1>2, <2>1, TotalSame
<1>6. total(ColSums(f, r, s), s) = total(holds(cart), s)
    <2>1. \A j \in 1 .. s : ColSums(f, r, s)[j] = holds(cart)[j]
        BY <1>1 DEF ColSums, IsAssignment, Totals
    <2>2. QED  BY <1>2, <2>1, TotalSame
<1>7. ASSUME NEW j \in 1 .. s PROVE \E i \in 1 .. r : may_fill(req, cart, i, j)
    <2> SUFFICES ASSUME \A i \in 1 .. r : ~ may_fill(req, cart, i, j) PROVE FALSE
        OBVIOUS
    <2>1. ASSUME NEW i \in 1 .. r PROVE Col(f, j, r)[i] = 0
        <3>1. f[<<i, j>>] \in Nat
            BY GivenInside
        <3>2. ~ (f[<<i, j>>] > 0)
            BY DEF IsAssignment
        <3>3. f[<<i, j>>] = 0
            BY ONLY <3>1, <3>2
        <3>4. QED  BY <3>3 DEF Col
    <2>2. total(Col(f, j, r), r) = 0
        BY <1>2, <2>1, TotalNull
    <2>3. cart[j][2] = 0
        BY <2>2 DEF IsAssignment
    <2>4. cart[j][2] \in Nat \ {0}
        BY <1>1 DEF IsOrder, Totals
    <2>5. QED  BY ONLY <2>3, <2>4
<1>8. QED  BY <1>1, <1>4, <1>5, <1>6, <1>7 DEF Totals

\* Where the search is stuck and there is an assignment, the flow is all that
\* is wanted.
LEMMA AssignmentIsFound ==
    ASSUME NEW req, NEW cart, IsOrder(req, cart), NEW r, r = Len(req), NEW s, s = Len(cart),
           NEW f, IsAssignment(f, req, cart, r, s),
           NEW flow, FlowOK(flow, capacities(req, cart, sum(holds(cart))), r + s + 2),
           Stuck(flow, r + s + 2)
    PROVE  flow.total >= sum(wants(req))
<1> DEFINE n == r + s + 2
           C == capacities(req, cart, sum(holds(cart)))
           L == taken(f, req, cart, r, s)
<1>1. Totals(req, cart, r, s)
    BY OrderSums
<1>2. r \in Nat /\ s \in Nat /\ sum(holds(cart)) \in Nat /\ sum(wants(req)) \in Nat
    BY <1>1 DEF Totals
<1>3. n \in Nat /\ n > 1 /\ n - 1 = r + s + 1 /\ n - 2 = r + s
    BY <1>2
<1>4. C \in [Edges(n) -> Nat]
    <2>1. IsCapacities(C, req, cart, sum(holds(cart)), r, s)
        BY <1>2, CapacitiesAre
    <2>2. QED  BY <2>1 DEF IsCapacities
<1>5. IsTaken(L, f, req, cart, r, s)
    BY TakenIs
<1>6. \A u, v \in 0 .. r + s + 1 : - L[<<u, v>>] <= given(f, req, cart, r, s, u, v)
    BY TakenIs
<1>7. FlowOK(flow, C, n) /\ Stuck(flow, n)
    OBVIOUS
<1> HIDE DEF L
<1>8. /\ IsFlow(L, n)
      /\ \A u \in 1 .. r + s : out(L, u, n) = 0
      /\ out(L, 0, n) = - sum(wants(req))
    BY <1>5, AssignmentFlows
<1>9. ASSUME NEW u \in 0 .. n - 1, NEW v \in 0 .. n - 1 PROVE - L[<<u, v>>] <= C[<<u, v>>]
    <2>1. u \in 0 .. r + s + 1 /\ v \in 0 .. r + s + 1
        BY <1>3
    <2> DEFINE g == given(f, req, cart, r, s, u, v)
               c == C[<<u, v>>]
               l == L[<<u, v>>]
    <2>2. - l <= g
        BY <1>6, <2>1
    <2>3. g <= c
        BY <2>1, GivenWithin
    <2>4. g \in Nat
        BY <2>1, GivenInside
    <2>5. l \in Int
        BY <1>8 DEF IsFlow
    <2>6. c \in Nat
        <3>1. <<u, v>> \in Edges(n)
            BY DEF Edges
        <3> HIDE DEF C, n
        <3>2. QED  BY <1>4, <3>1
    <2> HIDE DEF g, c, l
    <2>7. - l <= c
        BY ONLY <2>2, <2>3, <2>4, <2>5, <2>6
    <2>8. QED  BY <2>7 DEF c, l
<1> HIDE DEF C, n
<1>10. \A u \in 1 .. n - 2 : out(L, u, n) = 0
    BY <1>3, <1>8
<1>11. flow.total >= - out(L, 0, n)
    BY ONLY <1>3, <1>4, <1>7, <1>8, <1>9, <1>10, StuckIsMost
<1>12. flow.total \in Nat
    BY <1>7 DEF FlowOK
<1>13. QED  BY ONLY <1>2, <1>8, <1>11, <1>12

\* The verdict on a checkout is exact (line_items): `ok` just where the cart can
\* be handed out to the requirements, every unit used exactly once.
THEOREM LineItemsExact ==
    ASSUME NEW req, NEW cart, IsOrder(req, cart)
    PROVE  line_items(req, cart) = "ok" <=>
              /\ cart # <<>>
              /\ ~ (Len(req) + Len(cart) > MAX_LINE_ITEM_NODES)
              /\ assignable(req, cart)
<1> DEFINE r == Len(req)
           s == Len(cart)
           n == r + s + 2
           wanted == sum(wants(req))
           present == sum(holds(cart))
           C == capacities(req, cart, present)
           Unfillable == \E j \in DOMAIN cart : \A i \in DOMAIN req :
                              cart[j][1] \notin req[i].acceptable
<1>1. Totals(req, cart, r, s)
    BY OrderSums
<1>2. /\ r \in Nat /\ s \in Nat /\ present \in Nat /\ wanted \in Nat
      /\ DOMAIN req = 1 .. r /\ DOMAIN cart = 1 .. s
    BY <1>1 DEF Totals
<1>3. line_items(req, cart) = "ok" <=>
        /\ cart # <<>> /\ ~ Unfillable /\ ~ (r + s > MAX_LINE_ITEM_NODES)
        /\ wanted = present /\ max_flow(C, n, wanted) = wanted
    BY DEF line_items, wants, holds
<1>4. C \in [Edges(n) -> Nat]
    <2>1. IsCapacities(C, req, cart, present, r, s)
        BY <1>2, CapacitiesAre
    <2>2. QED  BY <2>1 DEF IsCapacities
<1>5. n \in Nat /\ n > 1
    BY <1>2
<1>6. PICK flow : /\ FlowOK(flow, C, n) /\ max_flow(C, n, wanted) = flow.total
                  /\ flow.total >= wanted \/ Stuck(flow, n)
    <2> HIDE DEF C, n, wanted
    <2>1. QED  BY ONLY <1>2, <1>4, <1>5, MaxFlowIs
<1>7. flow.total <= wanted
    <2>1. present \in Nat /\ FlowOK(flow, capacities(req, cart, present), r + s + 2)
        BY <1>2, <1>6
    <2>2. QED  BY <2>1, FlowIsWanted
<1>8. ASSUME wanted = present, flow.total = wanted PROVE assignable(req, cart)
    <2>1. /\ FlowOK(flow, capacities(req, cart, present), r + s + 2)
          /\ flow.total = present /\ present = sum(wants(req)) /\ present = sum(holds(cart))
        BY <1>6, <1>8
    <2>2. QED  BY <2>1, FlowAssigns
<1>9. ASSUME assignable(req, cart) PROVE wanted = present /\ flow.total = wanted /\ ~ Unfillable
    <2>1. PICK f : IsAssignment(f, req, cart, r, s)
        BY <1>9, AssignableIs
    <2>2. wanted = present /\ \A j \in 1 .. s : \E i \in 1 .. r : may_fill(req, cart, i, j)
        BY <2>1, AssignmentSums
    <2>3. ~ Unfillable
        BY <1>2, <2>2 DEF may_fill
    <2>4. ASSUME Stuck(flow, n) PROVE flow.total >= wanted
        <3>1. FlowOK(flow, capacities(req, cart, sum(holds(cart))), r + s + 2) /\ Stuck(flow, r + s + 2)
            BY <1>6, <2>4
        <3>2. QED  BY <2>1, <3>1, AssignmentIsFound
    <2>5. flow.total >= wanted
        BY <1>6, <2>4
    <2>6. flow.total \in Nat
        BY <1>6 DEF FlowOK
    <2> DEFINE w == wanted
    <2>7. w \in Nat /\ flow.total <= w /\ flow.total >= w
        BY <1>2, <1>7, <2>5
    <2> HIDE DEF w
    <2>8. flow.total = w
        BY ONLY <2>6, <2>7
    <2>9. QED  BY <2>2, <2>3, <2>8 DEF w
<1> HIDE DEF C, n, wanted, present, Unfillable
<1>10. QED  BY <1>3, <1>6, <1>8, <1>9

-----------------------------------------------------------------------------
\* ap2.rs on line_items: "Met iff the flow equals both totals".  For line items
\* and carts of any size and quantities, the verdict of the flow is `ok` exactly
\* where the cart can be handed out to the required line items, every unit once.
THEOREM FlowFindsAssignmentTheorem == ChainSpec => []FlowFindsAssignment
<1>1. ChainInv => FlowFindsAssignment
    <2> DEFINE items_of(c) == c.type = "checkout.line_items"
               exact(c, e) ==
                    e.checkout # None =>
                        LET items == c.items
                            cart == e.checkout.line_items
                            answer == checkout_line_items(c, e.checkout)
                        IN  IF Len(items) + Len(cart) > MAX_LINE_ITEM_NODES THEN answer # "ok"
                            ELSE answer = "ok" <=> cart # <<>> /\ assignable(items, cart)
    <2>1. ASSUME NEW c, items_of(c), parses(c), is_list(c.items), NEW e \in Envs PROVE exact(c, e)
        <3> SUFFICES ASSUME e.checkout # None PROVE exact(c, e)
            OBVIOUS
        <3> DEFINE items == c.items
                   cart == e.checkout.line_items
        <3>1. /\ is_list(cart)
              /\ \A j \in DOMAIN cart : cart[j][2] \in Nat \ {0}
            BY InputsAssumption DEF env_ok
        <3>2. \A i \in DOMAIN items : items[i].quantity \in Nat \ {0}
            BY <2>1 DEF parses, ListTypes
        <3>3. IsOrder(items, cart)
            BY <2>1, <3>1, <3>2 DEF IsOrder, is_list
        <3>4. checkout_line_items(c, e.checkout) = line_items(items, cart)
            BY DEF checkout_line_items
        <3> HIDE DEF items, cart
        <3>5. line_items(items, cart) = "ok" <=>
                /\ cart # <<>>
                /\ ~ (Len(items) + Len(cart) > MAX_LINE_ITEM_NODES)
                /\ assignable(items, cart)
            BY <3>3, LineItemsExact
        <3>6. QED  BY <3>4, <3>5 DEF items, cart
    <2>2. ASSUME ChainInv, NEW i \in 1 .. Len(chain), NEW c \in DOMAIN chain[i].constraints,
                 items_of(chain[i].constraints[c])
          PROVE  parses(chain[i].constraints[c]) /\ is_list(chain[i].constraints[c].items)
        <3>1. chain[i] \in Mandates
            BY <2>2 DEF ChainInv, ChainType
        <3>2. is_list(chain[i].constraints[c].items)
            BY <2>2, <3>1, MandatesAssumption
        <3>3. QED  BY <2>2, <3>2 DEF ChainInv, drafted, parse_error
    <2>3. FlowFindsAssignment <=>
            \A i \in 1 .. Len(chain) : \A c \in DOMAIN chain[i].constraints :
                items_of(chain[i].constraints[c]) =>
                    \A e \in Envs : exact(chain[i].constraints[c], e)
        BY DEF FlowFindsAssignment
    <2> HIDE DEF exact, items_of
    <2>4. QED  BY <2>1, <2>2, <2>3
<1>2. QED  BY <1>1, ChainInvariant, PTL

-----------------------------------------------------------------------------
Fields == {"pc", "r", "now", "i", "reason", "revoked", "looked"}

Decisions == [r : Requests, now : Nat, revoked : SUBSET StatusRefs]

\* What the proofs need to know of the types.
CallsOK ==
    /\ clock \in Nat
    /\ status \in [StatusRefs -> {"Valid", "Invalid"}]
    /\ \A n \in DOMAIN seen : seen[n] \in Int
    /\ authorized \in Seq(Decisions)
    /\ call = [t \in Threads |-> call[t]]
    /\ \A t \in Threads : live(t) =>
            /\ call[t] = [x \in Fields |-> call[t][x]]
            /\ call[t].r \in Requests /\ call[t].r.p # None
            /\ call[t].now \in Nat /\ call[t].now <= clock
            /\ call[t].i \in Nat
            /\ call[t].revoked \subseteq StatusRefs

-----------------------------------------------------------------------------
\* The three ways a call goes on change nothing of the other calls and keep
\* what the call was given.
kept(t, pc, i) ==
    /\ call' = [u \in Threads |-> call'[u]]
    /\ \A u \in Threads : u # t => call'[u] = call[u]
    /\ call'[t] = [x \in Fields |-> call'[t][x]]
    /\ call'[t].pc = pc /\ call'[t].i = i
    /\ call'[t].r = call[t].r /\ call'[t].now = call[t].now
    /\ call'[t].revoked = call[t].revoked

LEMMA CallUpdate ==
    ASSUME CallsOK, NEW t \in Threads, NEW d, call' = [call EXCEPT ![t] = d]
    PROVE  /\ call' = [u \in Threads |-> call'[u]]
           /\ \A u \in Threads : u # t => call'[u] = call[u]
           /\ call'[t] = d
BY DEF CallsOK

LEMMA GotoKeeps ==
    ASSUME CallsOK, NEW t \in Threads, live(t), NEW pc, NEW i, Goto(t, pc, i)
    PROVE  kept(t, pc, i) /\ call'[t].looked = call[t].looked
<1> DEFINE d == [call[t] EXCEPT !.pc = pc, !.i = i]
<1>1. call[t] = [x \in Fields |-> call[t][x]]
    BY DEF CallsOK
<1>2. /\ d = [x \in Fields |-> d[x]] /\ d.pc = pc /\ d.i = i /\ d.r = call[t].r
      /\ d.now = call[t].now /\ d.revoked = call[t].revoked /\ d.looked = call[t].looked
    BY <1>1 DEF Fields
<1>3. call' = [call EXCEPT ![t] = d]
    BY DEF Goto
<1> HIDE DEF d
<1>4. /\ call' = [u \in Threads |-> call'[u]]
      /\ \A u \in Threads : u # t => call'[u] = call[u]
      /\ call'[t] = d
    BY <1>3, CallUpdate
<1>5. QED  BY <1>2, <1>4 DEF kept

LEMMA DecideKeeps ==
    ASSUME CallsOK, NEW t \in Threads, live(t), NEW reason, Decide(t, reason)
    PROVE  /\ reason = "ok" => /\ kept(t, "sign", call[t].i) /\ call'[t].reason = "ok"
                               /\ call'[t].looked = call[t].looked
           /\ reason # "ok" =>
                /\ call' = [u \in Threads |-> call'[u]]
                /\ \A u \in Threads : u # t => call'[u] = call[u]
                /\ call'[t] = Rejected(reason)
<1> DEFINE d == [call[t] EXCEPT !.pc = "sign", !.reason = "ok"]
<1>1. CASE reason = "ok"
    <2>1. call[t] = [x \in Fields |-> call[t][x]]
        BY DEF CallsOK
    <2>2. /\ d = [x \in Fields |-> d[x]] /\ d.pc = "sign" /\ d.i = call[t].i /\ d.r = call[t].r
          /\ d.now = call[t].now /\ d.revoked = call[t].revoked /\ d.looked = call[t].looked
          /\ d.reason = "ok"
        BY <2>1 DEF Fields
    <2>3. call' = [call EXCEPT ![t] = d]
        BY <1>1 DEF Decide
    <2> HIDE DEF d
    <2>4. /\ call' = [u \in Threads |-> call'[u]]
          /\ \A u \in Threads : u # t => call'[u] = call[u]
          /\ call'[t] = d
        BY <2>3, CallUpdate
    <2>5. QED  BY <1>1, <2>2, <2>4 DEF kept
<1>2. CASE reason # "ok"
    <2>1. call' = [call EXCEPT ![t] = Rejected(reason)]
        BY <1>2 DEF Decide
    <2>2. QED  BY <1>2, <2>1, CallUpdate
<1>3. QED  BY <1>1, <1>2

\* A call that is turned away is not live.
LEMMA RejectedIsOver ==
    ASSUME NEW t \in Threads, NEW reason, reason # "ok", call'[t] = Rejected(reason)
    PROVE  ~live(t)' /\ ~granting(t)'
BY DEF live, granting, At, Rejected


\* What a new call starts with.
LEMMA VerifyStarts ==
    ASSUME CallsOK, NEW t \in Threads, NEW r \in Requests, Verify(t, r)
    PROVE  /\ call' = [u \in Threads |-> call'[u]]
           /\ \A u \in Threads : u # t => call'[u] = call[u]
           /\ \/ \E reason : reason # "ok" /\ call'[t] = Rejected(reason)
              \/ /\ r.p # None /\ check_failure(r, clock) = "ok"
                 /\ call'[t] = [pc |-> "status", r |-> r, now |-> clock, i |-> 1, reason |-> "none",
                                revoked |-> {s \in StatusRefs : status[s] # "Valid"},
                                looked |-> None]
<1> DEFINE failure == check_failure(r, clock)
           fresh == [pc |-> "status", r |-> r, now |-> clock, i |-> 1, reason |-> "none",
                     revoked |-> {s \in StatusRefs : status[s] # "Valid"}, looked |-> None]
<1>1. call' = [call EXCEPT ![t] = IF failure # "ok" THEN Rejected(failure) ELSE fresh]
    BY DEF Verify
<1>2. failure = "ok" => r.p # None
    BY DEF check_failure
<1> HIDE DEF failure, fresh
<1>3. /\ call' = [u \in Threads |-> call'[u]]
      /\ \A u \in Threads : u # t => call'[u] = call[u]
      /\ call'[t] = IF failure # "ok" THEN Rejected(failure) ELSE fresh
    BY <1>1 DEF CallsOK
<1>4. CASE failure = "ok"
    <2>1. call'[t] = fresh  BY <1>3, <1>4
    <2>2. QED  BY <1>2, <1>3, <1>4, <2>1 DEF fresh, failure
<1>5. CASE failure # "ok"
    <2>1. call'[t] = Rejected(failure)  BY <1>3, <1>5
    <2>2. QED  BY <1>3, <1>5, <2>1
<1>6. QED  BY <1>4, <1>5

-----------------------------------------------------------------------------
\* CallsOK is preserved if one call goes on as above and time does not go back.
LEMMA CallTypes ==
    ASSUME CallsOK, NEW t \in Threads,
           clock' = clock, status' = status, authorized' \in Seq(Decisions),
           \A n \in (DOMAIN seen)' : (seen')[n] \in Int,
           call' = [u \in Threads |-> call'[u]],
           \A u \in Threads : u # t => call'[u] = call[u],
           live(t)' => /\ call'[t] = [x \in Fields |-> call'[t][x]]
                       /\ call'[t].r \in Requests /\ call'[t].r.p # None
                       /\ call'[t].now \in Nat /\ call'[t].now <= clock
                       /\ call'[t].i \in Nat
                       /\ call'[t].revoked \subseteq StatusRefs
    PROVE  CallsOK'
<1>1. ASSUME NEW u \in Threads, u # t PROVE live(u)' = live(u) /\ call'[u] = call[u]
    BY <1>1 DEF live, At
<1>2. QED  BY <1>1 DEF CallsOK

LEMMA KeptTypes ==
    ASSUME CallsOK, NEW t \in Threads, live(t), NEW pc, NEW i \in Nat, kept(t, pc, i),
           clock' = clock, status' = status, authorized' \in Seq(Decisions),
           \A n \in (DOMAIN seen)' : (seen')[n] \in Int
    PROVE  CallsOK'
<1>1. /\ call'[t].r \in Requests /\ call'[t].r.p # None
      /\ call'[t].now \in Nat /\ call'[t].now <= clock
      /\ call'[t].revoked \subseteq StatusRefs
    BY DEF CallsOK, kept
<1>2. QED  BY <1>1, CallTypes DEF kept

LEMMA DecideTypes ==
    ASSUME CallsOK, NEW t \in Threads, live(t), NEW reason, Decide(t, reason),
           clock' = clock, status' = status, authorized' = authorized,
           \A n \in (DOMAIN seen)' : (seen')[n] \in Int
    PROVE  CallsOK'
<1>1. authorized' \in Seq(Decisions) /\ call[t].i \in Nat
    BY DEF CallsOK
<1>2. CASE reason = "ok"
    BY <1>1, <1>2, DecideKeeps, KeptTypes
<1>3. CASE reason # "ok"
    <2>1. /\ call' = [u \in Threads |-> call'[u]]
          /\ \A u \in Threads : u # t => call'[u] = call[u]
          /\ call'[t] = Rejected(reason)
        BY <1>3, DecideKeeps
    <2>2. ~live(t)'
        BY <1>3, <2>1, RejectedIsOver
    <2>3. QED  BY <1>1, <2>1, <2>2, CallTypes
<1>4. QED  BY <1>2, <1>3

LEMMA GotoTypes ==
    ASSUME CallsOK, NEW t \in Threads, live(t), NEW pc, NEW i \in Nat, Goto(t, pc, i),
           clock' = clock, status' = status, authorized' = authorized, seen' = seen
    PROVE  CallsOK'
<1>1. authorized' \in Seq(Decisions) /\ \A n \in (DOMAIN seen)' : (seen')[n] \in Int
    BY DEF CallsOK
<1>2. QED  BY <1>1, GotoKeeps, KeptTypes

\* CheckMandates goes on, to look at the ledger.
LEMMA LookKeeps ==
    ASSUME CallsOK, NEW t \in Threads, live(t),
           call' = [call EXCEPT ![t].pc = "evaluate", ![t].i = 1, ![t].looked = Len(uses)]
    PROVE  kept(t, "evaluate", 1) /\ call'[t].looked = Len(uses)
<1> DEFINE d == [call[t] EXCEPT !.pc = "evaluate", !.i = 1, !.looked = Len(uses)]
<1>1. call[t] = [x \in Fields |-> call[t][x]]
    BY DEF CallsOK
<1>2. /\ d = [x \in Fields |-> d[x]] /\ d.pc = "evaluate" /\ d.i = 1 /\ d.r = call[t].r
      /\ d.now = call[t].now /\ d.revoked = call[t].revoked /\ d.looked = Len(uses)
    BY <1>1 DEF Fields
<1>3. call' = [call EXCEPT ![t] = d]
    OBVIOUS
<1> HIDE DEF d
<1>4. /\ call' = [u \in Threads |-> call'[u]]
      /\ \A u \in Threads : u # t => call'[u] = call[u]
      /\ call'[t] = d
    BY <1>3, CallUpdate
<1>5. QED  BY <1>2, <1>4 DEF kept

\* Sign goes on, for the caller to record the use.
LEMMA RecordKeeps ==
    ASSUME CallsOK, NEW t \in Threads, live(t), call' = [call EXCEPT ![t].pc = "record"]
    PROVE  kept(t, "record", call[t].i) /\ call'[t].looked = call[t].looked
<1> DEFINE d == [call[t] EXCEPT !.pc = "record"]
<1>1. call[t] = [x \in Fields |-> call[t][x]]
    BY DEF CallsOK
<1>2. /\ d = [x \in Fields |-> d[x]] /\ d.pc = "record" /\ d.i = call[t].i /\ d.r = call[t].r
      /\ d.now = call[t].now /\ d.revoked = call[t].revoked /\ d.looked = call[t].looked
    BY <1>1 DEF Fields
<1>3. call' = [call EXCEPT ![t] = d]
    OBVIOUS
<1> HIDE DEF d
<1>4. /\ call' = [u \in Threads |-> call'[u]]
      /\ \A u \in Threads : u # t => call'[u] = call[u]
      /\ call'[t] = d
    BY <1>3, CallUpdate
<1>5. QED  BY <1>2, <1>4 DEF kept

\* A call that ends leaves nothing behind.
LEMMA IdleEnds ==
    ASSUME CallsOK, NEW t \in Threads, call' = [call EXCEPT ![t] = Idle]
    PROVE  /\ call' = [u \in Threads |-> call'[u]]
           /\ \A u \in Threads : u # t => call'[u] = call[u]
           /\ ~live(t)' /\ ~granting(t)'
<1>1. /\ call' = [u \in Threads |-> call'[u]]
      /\ \A u \in Threads : u # t => call'[u] = call[u]
      /\ call'[t] = Idle
    BY DEF CallsOK
<1>2. call'[t].pc = "idle"
    BY <1>1 DEF Idle
<1>3. QED  BY <1>1, <1>2 DEF live, granting, At

\* What the nonce store holds keeps its type.
LEMMA InsertTypes ==
    ASSUME CallsOK, NEW t \in Threads, NEW nonce, NEW exp \in Int, NEW now \in Nat,
           NEW fresh \in BOOLEAN, check_and_insert(nonce, exp, now, fresh)
    PROVE  \A n \in (DOMAIN seen)' : (seen')[n] \in Int
<1>1. retained(now) \subseteq DOMAIN seen /\ fresh = (nonce \notin retained(now))
    BY DEF retained, check_and_insert
<1>2. seen' = [n \in retained(now) \cup {nonce} |-> IF fresh /\ n = nonce THEN exp ELSE seen[n]]
    BY DEF check_and_insert
<1>3. QED  BY <1>1, <1>2 DEF CallsOK

\* A nonce reaches the store with a number as its key binding's iat.
LEMMA CheckedIat ==
    ASSUME CallsOK, NEW t \in Threads, live(t),
           nonce_failure(call[t].r, call[t].now) = "unchecked"
    PROVE  /\ leaf_of(call[t].r).iat \in Int
           /\ expires_at(call[t].r) \in Int
           /\ guarded(call[t].r)
<1>1. call[t].r \in Requests /\ call[t].r.p # None
    BY DEF CallsOK
<1>2. /\ guarded(call[t].r)
      /\ leaf_of(call[t].r).iat \notin {None, Bad}
    BY DEF nonce_failure, check_freshness, guarded
<1>3. leaf_of(call[t].r).iat \in Int
    BY <1>1, <1>2, IatAssumption DEF guarded
<1>4. QED  BY <1>1, <1>2, <1>3, CallsAssumption DEF expires_at

LEMMA Typing == CallsOK /\ [Next]_vars => CallsOK'
<1> SUFFICES ASSUME CallsOK, [Next]_vars PROVE CallsOK'
    OBVIOUS
<1>0. /\ clock \in Nat /\ authorized \in Seq(Decisions)
      /\ \A n \in DOMAIN seen : seen[n] \in Int
    BY DEF CallsOK
<1>1. ASSUME NEW t \in Threads, NEW r \in Requests, Verify(t, r) PROVE CallsOK'
    <2>1. /\ clock' = clock /\ status' = status /\ authorized' \in Seq(Decisions)
          /\ \A n \in (DOMAIN seen)' : (seen')[n] \in Int
        BY <1>0, <1>1 DEF Verify
    <2>2. ASSUME live(t)'
          PROVE  /\ call'[t] = [x \in Fields |-> call'[t][x]]
                 /\ call'[t].r \in Requests /\ call'[t].r.p # None
                 /\ call'[t].now \in Nat /\ call'[t].now <= clock
                 /\ call'[t].i \in Nat
                 /\ call'[t].revoked \subseteq StatusRefs
        <3>1. ~ \E reason : reason # "ok" /\ call'[t] = Rejected(reason)
            BY <2>2, RejectedIsOver
        <3>2. /\ r.p # None
              /\ call'[t] = [pc |-> "status", r |-> r, now |-> clock, i |-> 1, reason |-> "none",
                             revoked |-> {s \in StatusRefs : status[s] # "Valid"},
                             looked |-> None]
            BY <1>1, <3>1, VerifyStarts
        <3>3. call'[t].r = r /\ call'[t].now = clock /\ call'[t].i = 1
            BY <3>2
        <3>4. call'[t].revoked = {s \in StatusRefs : status[s] # "Valid"}
            BY <3>2
        <3>5. call'[t] = [x \in Fields |-> call'[t][x]]
            <4> DEFINE revoked == {s \in StatusRefs : status[s] # "Valid"}
            <4> HIDE DEF revoked
            <4>1. call'[t] = [pc |-> "status", r |-> r, now |-> clock, i |-> 1,
                              reason |-> "none", revoked |-> revoked, looked |-> None]
                BY <3>2 DEF revoked
            <4>2. QED  BY <4>1 DEF Fields
        <3>6. QED  BY <1>0, <3>2, <3>3, <3>4, <3>5
    <2>3. QED  BY <1>1, <2>1, <2>2, VerifyStarts, CallTypes
<1>2. ASSUME NEW t \in Threads, CheckStatus(t) PROVE CallsOK'
    <2>1. live(t) /\ call[t].i \in Nat
        BY <1>2 DEF CheckStatus, live, At, CallsOK
    <2>2. /\ clock' = clock /\ status' = status /\ authorized' = authorized /\ seen' = seen
          /\ \A n \in (DOMAIN seen)' : (seen')[n] \in Int
        BY <1>0, <1>2 DEF CheckStatus
    <2>3. \/ \E reason : Decide(t, reason)
          \/ Goto(t, "status", call[t].i + 1) \/ Goto(t, "mandates", 1)
        BY <1>2 DEF CheckStatus
    <2>4. QED  BY <2>1, <2>2, <2>3, DecideTypes, GotoTypes
<1>3. ASSUME NEW t \in Threads, CheckMandates(t) PROVE CallsOK'
    <2>1. live(t)
        BY <1>3 DEF CheckMandates, live, At
    <2>2. /\ clock' = clock /\ status' = status /\ authorized' = authorized /\ seen' = seen
          /\ \A n \in (DOMAIN seen)' : (seen')[n] \in Int
        BY <1>0, <1>3 DEF CheckMandates
    <2>3. \/ \E reason : Decide(t, reason)
          \/ kept(t, "evaluate", 1)
        BY <1>3, <2>1, LookKeeps DEF CheckMandates
    <2>4. QED  BY <1>0, <2>1, <2>2, <2>3, DecideTypes, KeptTypes
<1>4. ASSUME NEW t \in Threads, EvaluateLink(t) PROVE CallsOK'
    <2>1. live(t) /\ call[t].i \in Nat
        BY <1>4 DEF EvaluateLink, live, At, CallsOK
    <2>2. /\ clock' = clock /\ status' = status /\ authorized' = authorized /\ seen' = seen
          /\ \A n \in (DOMAIN seen)' : (seen')[n] \in Int
        BY <1>0, <1>4 DEF EvaluateLink
    <2>3. \/ \E reason : Decide(t, reason)
          \/ Goto(t, "evaluate", call[t].i + 1) \/ Goto(t, "nonce", 1)
        BY <1>4 DEF EvaluateLink
    <2>4. QED  BY <2>1, <2>2, <2>3, DecideTypes, GotoTypes
<1>5. ASSUME NEW t \in Threads, CheckNonce(t) PROVE CallsOK'
    <2>1. live(t) /\ call[t].now \in Nat
        BY <1>5 DEF CheckNonce, live, At, CallsOK
    <2>2. /\ clock' = clock /\ status' = status /\ authorized' = authorized
          /\ \E reason : Decide(t, reason)
        BY <1>5 DEF CheckNonce
    <2>3. CASE seen' = seen
        BY <1>0, <2>1, <2>2, <2>3, DecideTypes
    <2>4. CASE seen' # seen
        <3>1. PICK fresh \in BOOLEAN :
                /\ nonce_failure(call[t].r, call[t].now) = "unchecked"
                /\ check_and_insert(nonce_of(call[t].r), expires_at(call[t].r), call[t].now, fresh)
            BY <1>5, <2>4 DEF CheckNonce
        <3>2. \A n \in (DOMAIN seen)' : (seen')[n] \in Int
            BY <2>1, <3>1, CheckedIat, InsertTypes
        <3>3. QED  BY <2>1, <2>2, <3>2, DecideTypes
    <2>5. QED  BY <2>3, <2>4
<1>6. ASSUME NEW t \in Threads, Sign(t) PROVE CallsOK'
    <2>1. /\ clock' = clock /\ status' = status /\ seen' = seen
          /\ \A n \in (DOMAIN seen)' : (seen')[n] \in Int
        BY <1>0, <1>6 DEF Sign
    <2>2. CASE call[t].reason # "ok"
        <3>1. call' = [call EXCEPT ![t] = Idle] /\ authorized' = authorized
            BY <1>6, <2>2 DEF Sign
        <3>2. QED  BY <1>0, <2>1, <3>1, IdleEnds, CallTypes
    <2>3. CASE call[t].reason = "ok"
        <3>1. live(t) /\ call[t].i \in Nat
            BY <1>6, <2>3 DEF Sign, live, At, CallsOK
        <3>2. authorized' \in Seq(Decisions)
            <4>1. [r |-> call[t].r, now |-> call[t].now, revoked |-> call[t].revoked] \in Decisions
                BY <3>1 DEF CallsOK, Decisions
            <4>2. authorized' = Append(authorized,
                    [r |-> call[t].r, now |-> call[t].now, revoked |-> call[t].revoked])
                BY <1>6, <2>3 DEF Sign
            <4>3. QED  BY <1>0, <4>1, <4>2, AppendProperties
        <3>3. CASE call' = [call EXCEPT ![t] = Idle]
            BY <2>1, <3>2, <3>3, IdleEnds, CallTypes
        <3>4. CASE call' = [call EXCEPT ![t].pc = "record"]
            <4>1. kept(t, "record", call[t].i)
                BY <3>1, <3>4, RecordKeeps
            <4>2. QED  BY <2>1, <3>1, <3>2, <4>1, KeptTypes
        <3>5. QED  BY <1>6, <2>3, <3>3, <3>4 DEF Sign
    <2>4. QED  BY <2>2, <2>3
<1>7. ASSUME NEW t \in Threads, Record(t) PROVE CallsOK'
    <2>1. /\ clock' = clock /\ status' = status /\ seen' = seen /\ authorized' = authorized
          /\ \A n \in (DOMAIN seen)' : (seen')[n] \in Int
          /\ call' = [call EXCEPT ![t] = Idle]
        BY <1>0, <1>7 DEF Record
    <2>2. QED  BY <1>0, <2>1, IdleEnds, CallTypes
<1>8. ASSUME NEW s \in StatusRefs, Revoke(s) PROVE CallsOK'
    BY <1>8 DEF Revoke, CallsOK, live, At
<1>9. CASE Tick
    <2>1. /\ clock' = clock + 1 /\ status' = status /\ seen' = seen
          /\ authorized' = authorized /\ call' = call
        BY <1>9 DEF Tick
    <2>2. QED  BY <1>0, <2>1 DEF CallsOK, live, At
<1>10. CASE UNCHANGED vars
    BY <1>10 DEF vars, CallsOK, live, At
<1>11. QED
    BY <1>1, <1>2, <1>3, <1>4, <1>5, <1>6, <1>7, <1>8, <1>9, <1>10 DEF Next, Step

-----------------------------------------------------------------------------
\* A step after which the same calls are about to return an authorisation and
\* the store and the authorisations are as before.
quiet ==
    /\ seen' = seen /\ authorized' = authorized
    /\ clock' \in Nat /\ clock' >= clock
    /\ \A t \in Threads : granting(t)' = granting(t) /\ (granting(t) => call'[t] = call[t])

LEMMA QuietIf ==
    ASSUME CallsOK, NEW t \in Threads, ~granting(t), ~granting(t)',
           \A u \in Threads : u # t => call'[u] = call[u],
           seen' = seen, authorized' = authorized, clock' = clock
    PROVE  quiet
<1>1. ASSUME NEW u \in Threads, u # t
      PROVE  granting(u)' = granting(u) /\ (granting(u) => call'[u] = call[u])
    BY <1>1 DEF granting, At
<1>2. granting(t)' = granting(t)
    BY DEF granting
<1>3. QED  BY <1>1, <1>2 DEF quiet, CallsOK

\* A call that stops short of the nonce is turned away or goes on.
LEMMA EarlyIsQuiet ==
    ASSUME CallsOK, NEW t \in Threads, live(t), ~granting(t),
           seen' = seen, authorized' = authorized, clock' = clock,
           \/ \E reason : reason # "ok" /\ Decide(t, reason)
           \/ \E pc, i : pc # "sign" /\ kept(t, pc, i)
    PROVE  quiet
<1>1. CASE \E reason : reason # "ok" /\ Decide(t, reason)
    <2>1. PICK reason : reason # "ok" /\ Decide(t, reason)
        BY <1>1
    <2>2. /\ \A u \in Threads : u # t => call'[u] = call[u]
          /\ ~granting(t)'
        BY <2>1, DecideKeeps, RejectedIsOver
    <2>3. QED  BY <2>2, QuietIf
<1>2. CASE \E pc, i : pc # "sign" /\ kept(t, pc, i)
    <2>1. /\ \A u \in Threads : u # t => call'[u] = call[u]
          /\ ~granting(t)'
        BY <1>2 DEF kept, granting, At
    <2>2. QED  BY <2>1, QuietIf
<1>3. QED  BY <1>1, <1>2

LEMMA StepKinds ==
    ASSUME CallsOK, [Next]_vars
    PROVE  \/ quiet
           \/ \E t \in Threads : CheckNonce(t)
           \/ \E t \in Threads : granting(t) /\ Sign(t)
<1>1. ASSUME NEW t \in Threads, NEW r \in Requests, Verify(t, r) PROVE quiet
    <2>1. ~granting(t) /\ seen' = seen /\ authorized' = authorized /\ clock' = clock
        BY <1>1 DEF Verify, granting, At
    <2>2. \A u \in Threads : u # t => call'[u] = call[u]
        BY <1>1, VerifyStarts
    <2>3. ~granting(t)'
        <3>1. CASE \E reason : reason # "ok" /\ call'[t] = Rejected(reason)
            BY <3>1, RejectedIsOver
        <3>2. CASE call'[t].pc = "status"
            BY <3>2 DEF granting, At
        <3>3. \/ \E reason : reason # "ok" /\ call'[t] = Rejected(reason)
              \/ call'[t] = [pc |-> "status", r |-> r, now |-> clock, i |-> 1, reason |-> "none",
                             revoked |-> {s \in StatusRefs : status[s] # "Valid"},
                             looked |-> None]
            BY <1>1, VerifyStarts
        <3>4. QED  BY <3>1, <3>2, <3>3
    <2>4. QED  BY <2>1, <2>2, <2>3, QuietIf
<1>2. ASSUME NEW t \in Threads, CheckStatus(t) PROVE quiet
    <2>1. live(t) /\ ~granting(t)
        BY <1>2 DEF CheckStatus, live, granting, At
    <2>2. seen' = seen /\ authorized' = authorized /\ clock' = clock
        BY <1>2 DEF CheckStatus
    <2>3. \/ \E reason : reason # "ok" /\ Decide(t, reason)
          \/ Goto(t, "status", call[t].i + 1) \/ Goto(t, "mandates", 1)
        BY <1>2 DEF CheckStatus
    <2>4. \/ \E reason : reason # "ok" /\ Decide(t, reason)
          \/ kept(t, "status", call[t].i + 1) \/ kept(t, "mandates", 1)
        BY <2>1, <2>3, GotoKeeps
    <2>5. QED  BY <2>1, <2>2, <2>4, EarlyIsQuiet
<1>3. ASSUME NEW t \in Threads, CheckMandates(t) PROVE quiet
    <2>1. live(t) /\ ~granting(t)
        BY <1>3 DEF CheckMandates, live, granting, At
    <2>2. seen' = seen /\ authorized' = authorized /\ clock' = clock
        BY <1>3 DEF CheckMandates
    <2>3. \/ \E reason : reason # "ok" /\ Decide(t, reason)
          \/ kept(t, "evaluate", 1)
        BY <1>3, <2>1, LookKeeps DEF CheckMandates
    <2>4. QED  BY <2>1, <2>2, <2>3, EarlyIsQuiet
<1>4. ASSUME NEW t \in Threads, EvaluateLink(t) PROVE quiet
    <2>1. live(t) /\ ~granting(t)
        BY <1>4 DEF EvaluateLink, live, granting, At
    <2>2. seen' = seen /\ authorized' = authorized /\ clock' = clock
        BY <1>4 DEF EvaluateLink
    <2>3. \/ \E reason : reason # "ok" /\ Decide(t, reason)
          \/ Goto(t, "evaluate", call[t].i + 1) \/ Goto(t, "nonce", 1)
        BY <1>4 DEF EvaluateLink
    <2>4. \/ \E reason : reason # "ok" /\ Decide(t, reason)
          \/ kept(t, "evaluate", call[t].i + 1) \/ kept(t, "nonce", 1)
        BY <2>1, <2>3, GotoKeeps
    <2>5. QED  BY <2>1, <2>2, <2>4, EarlyIsQuiet
<1>5. ASSUME NEW t \in Threads, Sign(t), ~granting(t) PROVE quiet
    <2>1. /\ seen' = seen /\ authorized' = authorized /\ clock' = clock
          /\ call' = [call EXCEPT ![t] = Idle]
        BY <1>5 DEF Sign, granting
    <2>2. QED  BY <1>5, <2>1, IdleEnds, QuietIf
<1>6. ASSUME NEW t \in Threads, Record(t) PROVE quiet
    <2>1. /\ seen' = seen /\ authorized' = authorized /\ clock' = clock
          /\ call' = [call EXCEPT ![t] = Idle] /\ ~granting(t)
        BY <1>6 DEF Record, granting, At
    <2>2. QED  BY <2>1, IdleEnds, QuietIf
<1>7. ASSUME NEW s \in StatusRefs, Revoke(s) PROVE quiet
    BY <1>7 DEF Revoke, quiet, granting, At, CallsOK
<1>8. CASE Tick
    BY <1>8 DEF Tick, quiet, granting, At, CallsOK
<1>9. CASE UNCHANGED vars
    BY <1>9 DEF vars, quiet, granting, At, CallsOK
<1>10. QED
    BY <1>1, <1>2, <1>3, <1>4, <1>5, <1>6, <1>7, <1>8, <1>9 DEF Next, Step

-----------------------------------------------------------------------------
\* Time alone does not undo what ReplayInv says of a request.
LEMMA TimeKeeps ==
    ASSUME NEW a \in Requests, NEW b \in Requests, NEW store,
           NEW now \in Nat, NEW later \in Nat, later >= now
    PROVE  /\ held(a, now, store) => held(a, later, store)
           /\ held(a, now, store) /\ held(b, now, store) /\ apart(a, b, now) => apart(a, b, later)
<1>1. a.v.max_age \in Nat /\ b.v.max_age \in Nat
    BY CallsAssumption
<1>2. QED  BY <1>1 DEF held, apart, guarded, expires_at

\* The store drops only what has expired, even for a call that is late, and
\* overwrites nothing it still keeps.
LEMMA InsertKeepsHeld ==
    ASSUME CallsOK, NEW nonce, NEW exp \in Int, NEW now \in Nat, now <= clock,
           NEW fresh \in BOOLEAN, check_and_insert(nonce, exp, now, fresh),
           NEW a \in Requests, held(a, clock, seen)
    PROVE  /\ held(a, clock, seen')
           /\ fresh /\ guarded(a) /\ nonce_of(a) = nonce => clock >= expires_at(a)
<1>1. /\ clock \in Nat /\ a.v.max_age \in Nat
      /\ \A n \in DOMAIN seen : seen[n] \in Int
    BY CallsAssumption DEF CallsOK
<1>2. /\ fresh = (nonce \notin retained(now))
      /\ seen' = [n \in retained(now) \cup {nonce} |-> IF fresh /\ n = nonce THEN exp ELSE seen[n]]
    BY DEF check_and_insert
<1>3. ASSUME guarded(a), ~(clock >= expires_at(a))
      PROVE  /\ nonce_of(a) \in retained(now) /\ ~(fresh /\ nonce_of(a) = nonce)
             /\ seen[nonce_of(a)] >= expires_at(a)
    <2>1. /\ expires_at(a) \in Int
          /\ nonce_of(a) \in DOMAIN seen /\ seen[nonce_of(a)] >= expires_at(a)
        BY <1>1, <1>3 DEF held, expires_at
    <2>2. nonce_of(a) \in retained(now)
        BY <1>1, <1>3, <2>1 DEF retained
    <2>3. QED  BY <1>2, <2>1, <2>2
<1>4. CASE ~guarded(a) \/ clock >= expires_at(a)
    BY <1>4 DEF held
<1>5. CASE guarded(a) /\ ~(clock >= expires_at(a))
    <2>1. nonce_of(a) \in DOMAIN seen' /\ seen'[nonce_of(a)] = seen[nonce_of(a)]
        BY <1>2, <1>3, <1>5
    <2>2. QED  BY <1>3, <1>5, <2>1 DEF held
<1>6. QED  BY <1>4, <1>5

\* What a call inserts it holds.
LEMMA InsertHolds ==
    ASSUME CallsOK, NEW a \in Requests, leaf_of(a).iat \in Int, NEW now \in Nat,
           check_and_insert(nonce_of(a), expires_at(a), now, TRUE)
    PROVE  held(a, clock, seen')
<1>1. expires_at(a) \in Int
    BY CallsAssumption DEF expires_at
<1>2. nonce_of(a) \in DOMAIN seen' /\ seen'[nonce_of(a)] = expires_at(a)
    BY DEF check_and_insert
<1>3. QED  BY <1>1, <1>2 DEF held

\* The requests ReplayInv is about.
LEMMA HolderTypes ==
    ASSUME CallsOK
    PROVE  /\ \A i \in DOMAIN authorized : authorized[i].r \in Requests
           /\ \A t \in Threads : granting(t) => live(t) /\ call[t].r \in Requests
<1>1. ASSUME NEW i \in DOMAIN authorized PROVE authorized[i].r \in Requests
    <2>1. authorized[i] \in Decisions
        BY <1>1 DEF CallsOK
    <2>2. QED  BY <2>1 DEF Decisions
<1>2. ASSUME NEW t \in Threads, granting(t) PROVE live(t)
    BY <1>2 DEF granting, live, At
<1>3. QED  BY <1>1, <1>2 DEF CallsOK

LEMMA QuietReplay ==
    ASSUME CallsOK, ReplayInv, quiet PROVE ReplayInv'
<1>1. /\ clock \in Nat /\ clock' \in Nat /\ clock' >= clock
      /\ seen' = seen /\ authorized' = authorized
    BY DEF CallsOK, quiet
<1>2. \A a \in Requests : held(a, clock, seen) => held(a, clock', seen)
    BY <1>1, TimeKeeps
<1>3. \A a, b \in Requests :
        held(a, clock, seen) /\ held(b, clock, seen) /\ apart(a, b, clock) => apart(a, b, clock')
    BY <1>1, TimeKeeps
<1>4. \A i \in DOMAIN authorized :
        authorized[i].r \in Requests /\ held(authorized[i].r, clock, seen)
    BY HolderTypes DEF ReplayInv
<1>5. ASSUME NEW t \in Threads, granting(t)'
      PROVE  /\ granting(t) /\ call'[t] = call[t]
             /\ call[t].r \in Requests /\ held(call[t].r, clock, seen)
    BY <1>5, HolderTypes DEF quiet, ReplayInv
<1>6. QED
    BY <1>1, <1>2, <1>3, <1>4, <1>5 DEF ReplayInv, ReplayOnlyAfterExpiry

\* A call that has passed the nonce, or was turned away there.
LEMMA DecidedReplay ==
    ASSUME CallsOK, ReplayInv, NEW t \in Threads, ~granting(t),
           authorized' = authorized, clock' = clock,
           \A u \in Threads : u # t => call'[u] = call[u],
           \A a \in Requests : held(a, clock, seen) => held(a, clock, seen'),
           granting(t)' =>
                /\ held(call'[t].r, clock, seen')
                /\ \A a \in Requests : held(a, clock, seen) =>
                        apart(a, call'[t].r, clock) /\ apart(call'[t].r, a, clock)
    PROVE  ReplayInv'
<1>1. \A i \in DOMAIN authorized :
        authorized[i].r \in Requests /\ held(authorized[i].r, clock, seen)
    BY HolderTypes DEF ReplayInv
<1>2. ASSUME NEW u \in Threads, u # t, granting(u)'
      PROVE  /\ granting(u) /\ call'[u] = call[u]
             /\ call[u].r \in Requests /\ held(call[u].r, clock, seen)
    <2>1. granting(u) /\ call'[u] = call[u]
        BY <1>2 DEF granting, At
    <2>2. QED  BY <2>1, HolderTypes DEF ReplayInv
<1>3. \A i \in DOMAIN authorized : held(authorized[i].r, clock, seen')
    BY <1>1
<1>4. \A u \in Threads : granting(u)' => held(call'[u].r, clock, seen')
    BY <1>2
<1>5. \A i \in DOMAIN authorized, u \in Threads :
        granting(u)' => apart(authorized[i].r, call'[u].r, clock)
    BY <1>1, <1>2 DEF ReplayInv
<1>6. \A v, u \in Threads :
        v # u /\ granting(v)' /\ granting(u)' => apart(call'[v].r, call'[u].r, clock)
    BY <1>2 DEF ReplayInv
<1>7. QED
    BY <1>3, <1>4, <1>5, <1>6 DEF ReplayInv, ReplayOnlyAfterExpiry

LEMMA NonceReplay ==
    ASSUME CallsOK, ReplayInv, NEW t \in Threads, CheckNonce(t) PROVE ReplayInv'
<1> DEFINE r == call[t].r
           now == call[t].now
<1>1. /\ live(t) /\ ~granting(t) /\ authorized' = authorized /\ clock' = clock
    BY DEF CheckNonce, live, granting, At
<1>2. r \in Requests /\ now \in Nat /\ now <= clock
    BY <1>1 DEF CallsOK
<1> HIDE DEF r, now
<1>3. CASE nonce_failure(r, now) # "unchecked"
    <2>1. Decide(t, nonce_failure(r, now)) /\ seen' = seen
        BY <1>3 DEF CheckNonce, r, now
    <2>2. \A u \in Threads : u # t => call'[u] = call[u]
        BY <1>1, <2>1, DecideKeeps DEF kept
    <2>3. ASSUME granting(t)' PROVE call'[t].r = r /\ ~guarded(r)
        <3>1. nonce_failure(r, now) = "ok"
            BY <1>1, <2>1, <2>3, DecideKeeps, RejectedIsOver
        <3>2. call'[t].r = r
            BY <1>1, <2>1, <3>1, DecideKeeps DEF kept, r
        <3>3. QED  BY <3>1, <3>2 DEF nonce_failure, guarded
    <2>4. granting(t)' => /\ held(call'[t].r, clock, seen')
                          /\ \A a \in Requests : held(a, clock, seen) =>
                                apart(a, call'[t].r, clock) /\ apart(call'[t].r, a, clock)
        BY <2>3 DEF held, apart
    <2>5. QED  BY <1>1, <2>1, <2>2, <2>4, DecidedReplay
<1>4. CASE nonce_failure(r, now) = "unchecked"
    <2>1. PICK fresh \in BOOLEAN :
            /\ check_and_insert(nonce_of(r), expires_at(r), now, fresh)
            /\ Decide(t, IF fresh THEN "ok" ELSE "Replay")
        BY <1>4 DEF CheckNonce, r, now
    <2>2. leaf_of(r).iat \in Int /\ expires_at(r) \in Int /\ guarded(r)
        BY <1>1, <1>4, CheckedIat DEF r, now
    <2>3. \A a \in Requests : held(a, clock, seen) =>
            /\ held(a, clock, seen')
            /\ fresh /\ guarded(a) /\ nonce_of(a) = nonce_of(r) => clock >= expires_at(a)
        BY <1>2, <2>1, <2>2, InsertKeepsHeld
    <2>4. CASE fresh
        <3>1. Decide(t, "ok") /\ fresh = TRUE
            BY <2>1, <2>4
        <3>2. call'[t].r = r /\ \A u \in Threads : u # t => call'[u] = call[u]
            BY <1>1, <3>1, DecideKeeps DEF kept, r
        <3>3. held(r, clock, seen')
            BY <1>2, <2>1, <2>2, <3>1, InsertHolds
        <3>4. \A a \in Requests : held(a, clock, seen) =>
                apart(a, r, clock) /\ apart(r, a, clock)
            BY <2>3, <2>4 DEF apart
        <3>5. QED  BY <1>1, <2>3, <3>2, <3>3, <3>4, DecidedReplay
    <2>5. CASE ~fresh
        <3>1. Decide(t, "Replay")
            BY <2>1, <2>5
        <3>2. ~granting(t)' /\ \A u \in Threads : u # t => call'[u] = call[u]
            BY <1>1, <3>1, DecideKeeps, RejectedIsOver
        <3>3. QED  BY <1>1, <2>3, <3>2, DecidedReplay
    <2>6. QED  BY <2>4, <2>5
<1>5. QED  BY <1>3, <1>4

\* What returning an authorisation changes.
LEMMA SignAppends ==
    ASSUME CallsOK, NEW t \in Threads, granting(t), Sign(t)
    PROVE  /\ clock' = clock /\ seen' = seen /\ status' = status
           /\ ~granting(t)' /\ \A u \in Threads : u # t => call'[u] = call[u]
           /\ DOMAIN authorized = 1 .. Len(authorized) /\ Len(authorized) \in Nat
           /\ DOMAIN authorized' = 1 .. Len(authorized) + 1
           /\ \A i \in DOMAIN authorized : authorized'[i] = authorized[i]
           /\ authorized'[Len(authorized) + 1].r = call[t].r
           /\ authorized'[Len(authorized) + 1].now = call[t].now
           /\ authorized'[Len(authorized) + 1].revoked = call[t].revoked
<1> DEFINE d == [r |-> call[t].r, now |-> call[t].now, revoked |-> call[t].revoked]
<1>1. live(t)
    BY HolderTypes
<1>2. /\ clock' = clock /\ seen' = seen /\ status' = status
      /\ authorized' = Append(authorized, d)
      /\ \/ call' = [call EXCEPT ![t].pc = "record"]
         \/ call' = [call EXCEPT ![t] = Idle]
    BY DEF Sign, granting
<1>3. ~granting(t)' /\ \A u \in Threads : u # t => call'[u] = call[u]
    <2>1. CASE call' = [call EXCEPT ![t] = Idle]
        BY <2>1, IdleEnds
    <2>2. CASE call' = [call EXCEPT ![t].pc = "record"]
        <3>1. kept(t, "record", call[t].i)
            BY <1>1, <2>2, RecordKeeps
        <3>2. QED  BY <3>1 DEF kept, granting, At
    <2>3. QED  BY <1>2, <2>1, <2>2
<1>4. authorized \in Seq(Decisions) /\ d \in Decisions
    BY <1>1 DEF CallsOK, Decisions
<1>5. d.r = call[t].r /\ d.now = call[t].now /\ d.revoked = call[t].revoked
    OBVIOUS
<1> HIDE DEF d
<1>6. /\ DOMAIN authorized = 1 .. Len(authorized) /\ Len(authorized) \in Nat
      /\ DOMAIN authorized' = 1 .. Len(authorized) + 1
      /\ \A i \in DOMAIN authorized : authorized'[i] = authorized[i]
      /\ authorized'[Len(authorized) + 1] = d
    BY <1>2, <1>4, AppendProperties
<1>7. QED  BY <1>2, <1>3, <1>5, <1>6

LEMMA SignReplay ==
    ASSUME CallsOK, ReplayInv, NEW t \in Threads, granting(t), Sign(t) PROVE ReplayInv'
<1> DEFINE n == Len(authorized)
<1>1. /\ clock' = clock /\ seen' = seen
      /\ DOMAIN authorized = 1 .. n /\ n \in Nat /\ DOMAIN authorized' = 1 .. n + 1
      /\ \A i \in 1 .. n : authorized'[i].r = authorized[i].r
      /\ authorized'[n + 1].r = call[t].r
    BY SignAppends
<1>2. \A u \in Threads : granting(u)' => granting(u) /\ u # t /\ call'[u] = call[u]
    BY SignAppends DEF granting, At
<1> HIDE DEF n
<1>3. \A i \in 1 .. n : apart(call[t].r, authorized[i].r, clock)
    BY <1>1 DEF ReplayInv, apart
<1>4. \A i \in DOMAIN authorized' : i \in 1 .. n \/ i = n + 1
    BY <1>1
<1>5. \A i \in DOMAIN authorized' : held(authorized'[i].r, clock, seen)
    BY <1>1, <1>4 DEF ReplayInv
<1>6. \A i, j \in DOMAIN authorized' : i # j => apart(authorized'[i].r, authorized'[j].r, clock)
    BY <1>1, <1>3, <1>4 DEF ReplayInv, ReplayOnlyAfterExpiry
<1>7. \A i \in DOMAIN authorized', u \in Threads :
        granting(u)' => apart(authorized'[i].r, call'[u].r, clock)
    BY <1>1, <1>2, <1>4 DEF ReplayInv
<1>8. QED
    BY <1>1, <1>2, <1>5, <1>6, <1>7 DEF ReplayInv, ReplayOnlyAfterExpiry

LEMMA Start == Init => CallsOK /\ ReplayInv /\ NonceOnlySpentOnAuthorization
<1> SUFFICES ASSUME Init PROVE CallsOK /\ ReplayInv /\ NonceOnlySpentOnAuthorization
    OBVIOUS
<1>1. /\ clock = 0 /\ authorized = <<>> /\ DOMAIN seen = {}
      /\ status = [s \in StatusRefs |-> "Valid"] /\ call = [t \in Threads |-> Idle]
    BY DEF Init
<1>2. \A t \in Threads : ~live(t) /\ ~granting(t)
    BY <1>1 DEF live, granting, At, Idle
<1>3. CallsOK
    BY <1>1, <1>2 DEF CallsOK
<1>4. QED
    BY <1>1, <1>2, <1>3 DEF ReplayInv, ReplayOnlyAfterExpiry, NonceOnlySpentOnAuthorization

-----------------------------------------------------------------------------
\* The types the other proofs rest on.
THEOREM TypeCorrect == Spec => []CallsOK
<1>1. CallsOK /\ [Next]_vars => CallsOK'
    BY Typing
<1>2. QED  BY <1>1, Start, PTL DEF Spec

\* The store remembers the nonce of every authorisation, made or about to be
\* made, until it expires, and no two that have not expired share one.
THEOREM ReplayInvariant == Spec => []ReplayInv
<1>1. CallsOK /\ ReplayInv /\ [Next]_vars => ReplayInv'
    BY StepKinds, QuietReplay, NonceReplay, SignReplay
<1>2. QED  BY <1>1, Start, TypeCorrect, PTL DEF Spec

\* A nonce the agent chose is authorised a second time only once its first
\* entry in the store has expired: for any number of threads, calls that act
\* on instants long past included.
THEOREM ReplaySafe == Spec => []ReplayOnlyAfterExpiry
<1>1. ReplayInv => ReplayOnlyAfterExpiry
    BY DEF ReplayInv
<1>2. QED  BY <1>1, ReplayInvariant, PTL

-----------------------------------------------------------------------------
LEMMA NonceSpending ==
    ASSUME CallsOK, NonceOnlySpentOnAuthorization, [Next]_vars
    PROVE  NonceOnlySpentOnAuthorization'
<1>1. CASE quiet
    BY <1>1 DEF quiet, NonceOnlySpentOnAuthorization
<1>2. ASSUME NEW t \in Threads, CheckNonce(t) PROVE NonceOnlySpentOnAuthorization'
    <2>1. live(t) /\ ~granting(t) /\ authorized' = authorized
        BY <1>2 DEF CheckNonce, live, granting, At
    <2>2. \A u \in Threads : u # t => call'[u] = call[u]
        BY <1>2, <2>1, DecideKeeps DEF CheckNonce, kept
    <2>3. \A u \in Threads : granting(u) => granting(u)' /\ call'[u] = call[u]
        BY <2>1, <2>2 DEF granting, At
    <2>4. ASSUME NEW n \in DOMAIN seen', n \notin DOMAIN seen
          PROVE  granting(t)' /\ nonce_of(call'[t].r) = n
        <3>1. PICK fresh \in BOOLEAN :
                /\ check_and_insert(nonce_of(call[t].r), expires_at(call[t].r), call[t].now, fresh)
                /\ Decide(t, IF fresh THEN "ok" ELSE "Replay")
            BY <1>2, <2>4 DEF CheckNonce
        <3>2. n = nonce_of(call[t].r) /\ fresh
            BY <2>4, <3>1 DEF check_and_insert, retained
        <3>3. Decide(t, "ok")
            BY <3>1, <3>2
        <3>4. QED  BY <2>1, <3>2, <3>3, DecideKeeps DEF kept, granting, At
    <2>5. QED  BY <2>1, <2>3, <2>4 DEF NonceOnlySpentOnAuthorization
<1>3. ASSUME NEW t \in Threads, granting(t), Sign(t) PROVE NonceOnlySpentOnAuthorization'
    <2>1. /\ seen' = seen /\ DOMAIN authorized \subseteq DOMAIN authorized'
          /\ \A i \in DOMAIN authorized : authorized'[i] = authorized[i]
          /\ \E i \in DOMAIN authorized' : authorized'[i].r = call[t].r
        BY <1>3, SignAppends
    <2>2. \A u \in Threads : u # t /\ granting(u) => granting(u)' /\ call'[u] = call[u]
        BY <1>3, SignAppends DEF granting, At
    <2>3. QED  BY <2>1, <2>2 DEF NonceOnlySpentOnAuthorization
<1>4. QED  BY <1>1, <1>2, <1>3, StepKinds

\* Nobody can use up a nonce with a presentation that is not authorised.
THEOREM NoncesSpentOnAuthorizations == Spec => []NonceOnlySpentOnAuthorization
<1>1. CallsOK /\ NonceOnlySpentOnAuthorization /\ [Next]_vars => NonceOnlySpentOnAuthorization'
    BY NonceSpending
<1>2. QED  BY <1>1, Start, TypeCorrect, PTL DEF Spec

-----------------------------------------------------------------------------
\* An element that the status check lets through.
cleared(r, claims, revoked) ==
    /\ claims.status \notin revoked \cup Unreachable
    /\ claims.status # None => r.v.has_status

\* Of a call at work: what it found withdrawn stays withdrawn, and every
\* element whose status it has checked is cleared.
StatusInv ==
    /\ \A t \in Threads : live(t) =>
            /\ \A s \in call[t].revoked : status[s] # "Valid"
            /\ \A k \in DOMAIN chain_claims(call[t].r) :
                    (At(t, "status") => k < call[t].i) =>
                        cleared(call[t].r, chain_claims(call[t].r)[k], call[t].revoked)
    /\ RevokedNeverAuthorized

\* A chain has as many claims as elements, counted from 1.
LEMMA ChainClaims ==
    ASSUME NEW r \in Requests, r.p # None
    PROVE  /\ Len(chain_claims(r)) \in Nat
           /\ DOMAIN chain_claims(r) = 1 .. Len(chain_claims(r))
<1> DEFINE n == Len(r.p.links) + 1
           f == chain_claims(r)
           S == {f[i] : i \in 1 .. n}
<1>1. n \in Nat
    BY CallsAssumption
<1>2. DOMAIN f = 1 .. n /\ f = [i \in 1 .. n |-> f[i]]
    BY DEF chain_claims, claims_of
<1> HIDE DEF n, f
<1>3. f \in [1 .. n -> S]
    BY <1>2
<1>4. f \in Seq(S)
    BY <1>1, <1>3
<1>5. QED  BY <1>4 DEF f

\* What the status check answers "ok" for is cleared.
LEMMA OkIsCleared ==
    ASSUME CallsOK, NEW t \in Threads, live(t), NEW claims,
           \A s \in call[t].revoked : status[s] # "Valid",
           status_failure(call[t].r.v, claims, status) = "ok"
    PROVE  cleared(call[t].r, claims, call[t].revoked)
<1>1. call[t].revoked \subseteq StatusRefs
    BY DEF CallsOK
<1>2. QED  BY <1>1, CallsAssumption DEF status_failure, cleared

\* A call that goes on, past the status check or within it.
LEMMA KeptStatus ==
    ASSUME CallsOK, StatusInv, NEW t \in Threads, live(t), NEW pc, NEW i, kept(t, pc, i),
           status' = status, authorized' = authorized,
           \A k \in DOMAIN chain_claims(call[t].r) :
                (pc = "status" => k < i) =>
                    cleared(call[t].r, chain_claims(call[t].r)[k], call[t].revoked)
    PROVE  StatusInv'
<1>1. ASSUME NEW u \in Threads, u # t
      PROVE  live(u)' = live(u) /\ call'[u] = call[u] /\ At(u, "status")' = At(u, "status")
    BY <1>1 DEF kept, live, At
<1>2. /\ call'[t].r = call[t].r /\ call'[t].revoked = call[t].revoked
      /\ call'[t].pc = pc /\ call'[t].i = i
    BY DEF kept
<1>3. /\ \A s \in call'[t].revoked : status'[s] # "Valid"
      /\ \A k \in DOMAIN chain_claims(call'[t].r) :
            (At(t, "status")' => k < call'[t].i) =>
                cleared(call'[t].r, chain_claims(call'[t].r)[k], call'[t].revoked)
    BY <1>2 DEF StatusInv, At
<1>4. QED  BY <1>1, <1>3 DEF StatusInv, RevokedNeverAuthorized

\* A call that is over, or never was at work.
LEMMA OverStatus ==
    ASSUME CallsOK, StatusInv, NEW t \in Threads, ~live(t)',
           \A u \in Threads : u # t => call'[u] = call[u],
           status' = status, RevokedNeverAuthorized'
    PROVE  StatusInv'
<1>1. ASSUME NEW u \in Threads, u # t
      PROVE  live(u)' = live(u) /\ call'[u] = call[u] /\ At(u, "status")' = At(u, "status")
    BY <1>1 DEF live, At
<1>2. QED  BY <1>1 DEF StatusInv

\* A call past the status check decides.
LEMMA DecideStatus ==
    ASSUME CallsOK, StatusInv, NEW t \in Threads, live(t), NEW reason, Decide(t, reason),
           At(t, "status") => reason # "ok", status' = status, authorized' = authorized
    PROVE  StatusInv'
<1>1. CASE reason = "ok"
    <2>1. kept(t, "sign", call[t].i)
        BY <1>1, DecideKeeps
    <2>2. \A k \in DOMAIN chain_claims(call[t].r) :
            cleared(call[t].r, chain_claims(call[t].r)[k], call[t].revoked)
        BY <1>1 DEF StatusInv
    <2>3. QED  BY <2>1, <2>2, KeptStatus
<1>2. CASE reason # "ok"
    <2>1. ~live(t)' /\ \A u \in Threads : u # t => call'[u] = call[u]
        BY <1>2, DecideKeeps, RejectedIsOver
    <2>2. RevokedNeverAuthorized'
        BY DEF StatusInv, RevokedNeverAuthorized
    <2>3. QED  BY <2>1, <2>2, OverStatus
<1>3. QED  BY <1>1, <1>2

LEMMA VerifyStatus ==
    ASSUME CallsOK, StatusInv, NEW t \in Threads, NEW r \in Requests, Verify(t, r)
    PROVE  StatusInv'
<1>1. /\ status' = status /\ authorized' = authorized /\ RevokedNeverAuthorized'
    BY DEF Verify, StatusInv, RevokedNeverAuthorized
<1>2. \A u \in Threads : u # t => call'[u] = call[u]
    BY VerifyStarts
<1>3. CASE \E reason : reason # "ok" /\ call'[t] = Rejected(reason)
    <2>1. ~live(t)'
        BY <1>3, RejectedIsOver
    <2>2. QED  BY <1>1, <1>2, <2>1, OverStatus
<1>4. CASE r.p # None /\ call'[t] = [pc |-> "status", r |-> r, now |-> clock, i |-> 1,
                                     reason |-> "none",
                                     revoked |-> {s \in StatusRefs : status[s] # "Valid"},
                                     looked |-> None]
    <2>1. /\ r.p # None /\ call'[t].pc = "status" /\ call'[t].r = r /\ call'[t].i = 1
          /\ call'[t].revoked = {s \in StatusRefs : status[s] # "Valid"}
        BY <1>4
    <2>2. /\ \A s \in call'[t].revoked : status'[s] # "Valid"
          /\ At(t, "status")'
          /\ \A k \in DOMAIN chain_claims(call'[t].r) : ~(k < call'[t].i)
        BY <1>1, <2>1, ChainClaims DEF At
    <2>3. ASSUME NEW u \in Threads, u # t
          PROVE  live(u)' = live(u) /\ call'[u] = call[u] /\ At(u, "status")' = At(u, "status")
        BY <1>2, <2>3 DEF live, At
    <2>4. QED  BY <1>1, <2>2, <2>3 DEF StatusInv
<1>5. QED  BY <1>3, <1>4, VerifyStarts

LEMMA CheckStatusClears ==
    ASSUME CallsOK, StatusInv, NEW t \in Threads, CheckStatus(t) PROVE StatusInv'
<1> DEFINE r == call[t].r
           i == call[t].i
           claims == chain_claims(r)
           failure == status_failure(r.v, claims[i], status)
<1>1. /\ live(t) /\ At(t, "status") /\ status' = status /\ authorized' = authorized
    BY DEF CheckStatus, live, At
<1>2. i \in Nat /\ Len(claims) \in Nat /\ DOMAIN claims = 1 .. Len(claims)
    BY <1>1, ChainClaims DEF CallsOK
<1>3. /\ \A s \in call[t].revoked : status[s] # "Valid"
      /\ \A k \in DOMAIN claims : k < i => cleared(r, claims[k], call[t].revoked)
    BY <1>1 DEF StatusInv
<1>4. CASE failure # "ok"
    <2>1. Decide(t, failure)
        BY <1>4 DEF CheckStatus
    <2>2. QED  BY <1>1, <1>4, <2>1, DecideStatus
<1>5. CASE failure = "ok"
    <2>1. cleared(r, claims[i], call[t].revoked)
        BY <1>1, <1>3, <1>5, OkIsCleared
    <2>2. \A k \in DOMAIN claims : k <= i => cleared(r, claims[k], call[t].revoked)
        <3> HIDE DEF r, i, claims
        <3>1. QED  BY <1>2, <1>3, <2>1
    <2>3. CASE i < Len(claims)
        <3>1. Goto(t, "status", i + 1)
            BY <1>5, <2>3 DEF CheckStatus
        <3>2. kept(t, "status", i + 1)
            BY <1>1, <3>1, GotoKeeps
        <3>3. \A k \in DOMAIN claims : k < i + 1 => cleared(r, claims[k], call[t].revoked)
            <4> HIDE DEF r, i, claims
            <4>1. QED  BY <1>2, <2>2
        <3>4. QED  BY <1>1, <3>2, <3>3, KeptStatus
    <2>4. CASE ~(i < Len(claims))
        <3>1. Goto(t, "mandates", 1)
            BY <1>5, <2>4 DEF CheckStatus
        <3>2. kept(t, "mandates", 1)
            BY <1>1, <3>1, GotoKeeps
        <3>3. \A k \in DOMAIN claims : cleared(r, claims[k], call[t].revoked)
            <4> HIDE DEF r, i, claims
            <4>1. QED  BY <1>2, <2>2, <2>4
        <3>4. QED  BY <1>1, <3>2, <3>3, KeptStatus
    <2>5. QED  BY <2>3, <2>4
<1>6. QED  BY <1>4, <1>5

LEMMA SignStatus ==
    ASSUME CallsOK, StatusInv, NEW t \in Threads, Sign(t) PROVE StatusInv'
<1>1. CASE ~granting(t)
    <2>1. /\ status' = status /\ authorized' = authorized /\ call' = [call EXCEPT ![t] = Idle]
        BY <1>1 DEF Sign, granting
    <2>2. RevokedNeverAuthorized'
        BY <2>1 DEF StatusInv, RevokedNeverAuthorized
    <2>3. QED  BY <2>1, <2>2, IdleEnds, OverStatus
<1>2. CASE granting(t)
    <2>1. live(t)
        BY <1>2, HolderTypes
    <2>2. /\ \A s \in call[t].revoked : status[s] # "Valid"
          /\ \A k \in DOMAIN chain_claims(call[t].r) :
                cleared(call[t].r, chain_claims(call[t].r)[k], call[t].revoked)
        BY <1>2, <2>1 DEF StatusInv, granting, At
    <2> DEFINE n == Len(authorized)
    <2>3. /\ status' = status /\ n \in Nat
          /\ DOMAIN authorized = 1 .. n /\ DOMAIN authorized' = 1 .. n + 1
          /\ \A j \in 1 .. n : authorized'[j] = authorized[j]
          /\ authorized'[n + 1].r = call[t].r
          /\ authorized'[n + 1].revoked = call[t].revoked
        BY <1>2, SignAppends
    <2> HIDE DEF n
    <2>4. RevokedNeverAuthorized'
        <3>1. \A j \in DOMAIN authorized' : j \in DOMAIN authorized \/ j = n + 1
            BY <2>3
        <3>2. \A k \in DOMAIN chain_claims(authorized'[n + 1].r) :
                cleared(authorized'[n + 1].r, chain_claims(authorized'[n + 1].r)[k],
                        authorized'[n + 1].revoked)
            BY <2>2, <2>3
        <3>3. \A j \in DOMAIN authorized : authorized'[j] = authorized[j]
            BY <2>3
        <3>4. \A j \in DOMAIN authorized' : \A k \in DOMAIN chain_claims(authorized'[j].r) :
                cleared(authorized'[j].r, chain_claims(authorized'[j].r)[k], authorized'[j].revoked)
            BY <3>1, <3>2, <3>3 DEF StatusInv, RevokedNeverAuthorized, cleared
        <3>5. QED  BY <3>4 DEF RevokedNeverAuthorized, cleared
    <2>5. CASE call' = [call EXCEPT ![t] = Idle]
        BY <2>3, <2>4, <2>5, IdleEnds, OverStatus
    <2>6. CASE call' = [call EXCEPT ![t].pc = "record"]
        <3>1. kept(t, "record", call[t].i)
            BY <2>1, <2>6, RecordKeeps
        <3>2. ASSUME NEW u \in Threads, u # t
              PROVE  live(u)' = live(u) /\ call'[u] = call[u] /\ At(u, "status")' = At(u, "status")
            BY <3>1, <3>2 DEF kept, live, At
        <3>3. call'[t].r = call[t].r /\ call'[t].revoked = call[t].revoked
            BY <3>1 DEF kept
        <3>4. /\ \A s \in call'[t].revoked : status'[s] # "Valid"
              /\ \A k \in DOMAIN chain_claims(call'[t].r) :
                    cleared(call'[t].r, chain_claims(call'[t].r)[k], call'[t].revoked)
            BY <2>2, <2>3, <3>3
        <3>5. QED  BY <2>3, <2>4, <3>2, <3>4 DEF StatusInv
    <2>7. QED  BY <1>2, <2>5, <2>6 DEF Sign, granting
<1>3. QED  BY <1>1, <1>2

LEMMA StatusStep == CallsOK /\ StatusInv /\ [Next]_vars => StatusInv'
<1> SUFFICES ASSUME CallsOK, StatusInv, [Next]_vars PROVE StatusInv'
    OBVIOUS
<1>1. ASSUME NEW t \in Threads, live(t), ~At(t, "status")
      PROVE  \A k \in DOMAIN chain_claims(call[t].r) :
                cleared(call[t].r, chain_claims(call[t].r)[k], call[t].revoked)
    BY <1>1 DEF StatusInv
<1>2. ASSUME NEW t \in Threads, CheckMandates(t) PROVE StatusInv'
    <2>1. live(t) /\ ~At(t, "status") /\ status' = status /\ authorized' = authorized
        BY <1>2 DEF CheckMandates, live, At
    <2>2. (\E reason : Decide(t, reason)) \/ kept(t, "evaluate", 1)
        BY <1>2, <2>1, LookKeeps DEF CheckMandates
    <2>3. QED  BY <1>1, <2>1, <2>2, DecideStatus, KeptStatus
<1>3. ASSUME NEW t \in Threads, EvaluateLink(t) PROVE StatusInv'
    <2>1. live(t) /\ ~At(t, "status") /\ status' = status /\ authorized' = authorized
        BY <1>3 DEF EvaluateLink, live, At
    <2>2. \/ \E reason : Decide(t, reason)
          \/ kept(t, "evaluate", call[t].i + 1) \/ kept(t, "nonce", 1)
        BY <1>3, <2>1, GotoKeeps DEF EvaluateLink
    <2>3. QED  BY <1>1, <2>1, <2>2, DecideStatus, KeptStatus
<1>4. ASSUME NEW t \in Threads, CheckNonce(t) PROVE StatusInv'
    <2>1. live(t) /\ ~At(t, "status") /\ status' = status /\ authorized' = authorized
        BY <1>4 DEF CheckNonce, live, At
    <2>2. \E reason : Decide(t, reason)
        BY <1>4 DEF CheckNonce
    <2>3. QED  BY <2>1, <2>2, DecideStatus
<1>5. ASSUME NEW t \in Threads, Record(t) PROVE StatusInv'
    <2>1. /\ status' = status /\ authorized' = authorized /\ call' = [call EXCEPT ![t] = Idle]
        BY <1>5 DEF Record
    <2>2. RevokedNeverAuthorized'
        BY <2>1 DEF StatusInv, RevokedNeverAuthorized
    <2>3. QED  BY <2>1, <2>2, IdleEnds, OverStatus
<1>6. ASSUME NEW s \in StatusRefs, Revoke(s) PROVE StatusInv'
    <2>1. call' = call /\ authorized' = authorized
        BY <1>6 DEF Revoke
    <2>2. ASSUME NEW t \in Threads, live(t), NEW x \in call[t].revoked PROVE status'[x] # "Valid"
        BY <1>6, <2>2 DEF Revoke, StatusInv, CallsOK
    <2>3. QED  BY <2>1, <2>2 DEF StatusInv, RevokedNeverAuthorized, live, At
<1>7. CASE Tick \/ UNCHANGED vars
    <2>1. call' = call /\ authorized' = authorized /\ status' = status
        BY <1>7 DEF Tick, vars
    <2>2. QED  BY <2>1 DEF StatusInv, RevokedNeverAuthorized, live, At
<1>8. QED
    BY <1>2, <1>3, <1>4, <1>5, <1>6, <1>7, VerifyStatus, CheckStatusClears, SignStatus
    DEF Next, Step

\* No authorisation passes through an element whose status was withdrawn when
\* the call began, or cannot be learnt, however revocations interleave.
THEOREM RevocationSafe == Spec => []RevokedNeverAuthorized
<1>1. Init => StatusInv
    BY DEF Init, StatusInv, RevokedNeverAuthorized, live, At, Idle
<1>2. StatusInv => RevokedNeverAuthorized
    BY DEF StatusInv
<1>3. QED  BY <1>1, <1>2, StatusStep, TypeCorrect, PTL DEF Spec

-----------------------------------------------------------------------------
\* No error is first: none of the answers is one.
LEMMA FirstErrorOk ==
    ASSUME NEW f, DOMAIN f \subseteq Nat, first_error(f) = "ok"
    PROVE  \A i \in DOMAIN f : f[i] = "ok"
<1> DEFINE failing == {i \in DOMAIN f : f[i] # "ok"}
<1> SUFFICES ASSUME failing # {} PROVE FALSE
    OBVIOUS
<1>1. failing \subseteq Nat
    OBVIOUS
<1>2. first_error(f) = f[CHOOSE i \in failing : \A j \in failing : i <= j]
    BY DEF first_error
<1>3. \A i \in failing : f[i] # "ok"
    OBVIOUS
<1> HIDE DEF failing
<1>4. \E i \in failing : \A j \in failing : i <= j
    BY <1>1, LeastNatural
<1>5. (CHOOSE i \in failing : \A j \in failing : i <= j) \in failing
    BY <1>4
<1>6. QED  BY <1>2, <1>3, <1>5

\* Claims that must expire and have not; a root and a link that verify, with
\* or without a key for the next element to be signed with.
lasting(claims, opts) == check_validity(claims, opts, TRUE) = "ok"

root_ok(root, key, opts) ==
    \E needs \in BOOLEAN : verify_root(root, key, opts, needs) = "ok"

link_ok(e, prev, cnf, opts) ==
    \E is_last, needs \in BOOLEAN : verify_link(e, prev, cnf, is_last, needs, opts) = "ok"

inner_ok(e, prev, cnf, opts) ==
    \E is_last, needs \in BOOLEAN :
        ~is_last /\ verify_link(e, prev, cnf, is_last, needs, opts) = "ok"

\* A chain that verifies is verified at its root and at every link.
LEMMA VerifiedChain ==
    ASSUME NEW p, NEW key, NEW opts, NEW n \in Nat, n = Len(p.links),
           opts.key_binding # "KbJwt", verify(p, key, opts) = "ok"
    PROVE  /\ root_ok(p.root, key, opts)
           /\ \A i \in 1 .. n :
                /\ link_ok(elements(p)[i + 1], elements(p)[i],
                           claims_of(p, opts.root_form)[i].cnf, opts)
                /\ i # n => inner_ok(elements(p)[i + 1], elements(p)[i],
                                     claims_of(p, opts.root_form)[i].cnf, opts)
<1> DEFINE root == verify_root(p.root, key, opts, n > 0 \/ opts.key_binding = "KbJwt")
           link(i) == verify_link(elements(p)[i + 1], elements(p)[i],
                            claims_of(p, opts.root_form)[i].cnf, i = n,
                            i < n \/ opts.key_binding = "KbJwt", opts)
           step(f, i) == IF i = 0 THEN root ELSE IF f[i - 1] # "ok" THEN f[i - 1] ELSE link(i)
           runs(f, k) == f = [i \in 0 .. k |-> step(f, i)]
           T == {k \in Nat : ~ \E f : runs(f, k)}
           upto == CHOOSE f : runs(f, n)
<1>1. upto[n] = "ok"
    BY DEF verify
<1> HIDE DEF root, link
<1>2. \A k \in Nat : \E f : runs(f, k)
    <2> SUFFICES ASSUME T # {} PROVE FALSE
        OBVIOUS
    <2>1. PICK k \in T : \A m \in T : k <= m
        <3>1. T \subseteq Nat  OBVIOUS
        <3>2. QED  BY <3>1, LeastNatural
    <2>2. k \in Nat /\ ~ \E f : runs(f, k)
        OBVIOUS
    <2>3. CASE k = 0
        <3>1. runs([i \in 0 .. 0 |-> root], 0)
            OBVIOUS
        <3>2. QED  BY <2>2, <2>3, <3>1
    <2>4. CASE k # 0
        <3>1. k - 1 \in Nat /\ ~ (k <= k - 1)
            BY <2>2, <2>4
        <3>2. k - 1 \notin T
            <4> HIDE DEF T
            <4>1. QED  BY <2>1, <3>1
        <3>3. PICK g : runs(g, k - 1)
            BY <3>1, <3>2
        <3> DEFINE f == [i \in 0 .. k |-> IF i = k THEN step(g, k) ELSE g[i]]
        <3>4. \A i \in 0 .. k : i # 0 => f[i - 1] = g[i - 1]
            BY <2>2
        <3>5. \A i \in 0 .. k : f[i] = step(f, i)
            BY <2>2, <2>4, <3>3, <3>4
        <3>6. runs(f, k)
            BY <3>5
        <3>7. QED  BY <2>2, <3>6
    <2>5. QED  BY <2>3, <2>4
<1>3. runs(upto, n)
    BY <1>2
<1>4. \A i \in 0 .. n : upto[i] = step(upto, i)
    BY <1>3
<1> HIDE DEF upto
<1>5. \A i \in 0 .. n : upto[i] = "ok"
    <2> DEFINE B == {m \in Nat : m <= n /\ upto[n - m] # "ok"}
    <2> SUFFICES ASSUME B # {} PROVE FALSE
        <3>1. ASSUME NEW i \in 0 .. n, upto[i] # "ok" PROVE n - i \in B
            <4>1. n - i \in Nat /\ n - i <= n /\ n - (n - i) = i
                OBVIOUS
            <4>2. QED  BY <3>1, <4>1
        <3>2. QED  BY <3>1
    <2>1. B \subseteq Nat
        OBVIOUS
    <2>2. PICK m \in B : \A j \in B : m <= j
        <3> HIDE DEF B
        <3>1. QED  BY <2>1, LeastNatural
    <2>3. m \in Nat /\ m <= n /\ upto[n - m] # "ok" /\ m # 0
        BY <1>1
    <2> DEFINE i == (n - m) + 1
    <2>4. i \in 0 .. n /\ i # 0 /\ i - 1 = n - m /\ n - (m - 1) = i
        BY <2>3
    <2>5. upto[i] # "ok"
        BY <1>4, <2>3, <2>4
    <2>6. m - 1 \in Nat /\ m - 1 <= n /\ ~(m <= m - 1)
        BY <2>3
    <2>7. m - 1 \in B
        BY <2>4, <2>5, <2>6
    <2>8. QED
        <3> HIDE DEF B
        <3>1. QED  BY <2>2, <2>6, <2>7
<1>6. root = "ok"
    BY <1>4, <1>5
<1>7. ASSUME NEW i \in 1 .. n PROVE link(i) = "ok"
    <2>1. i \in 0 .. n /\ i - 1 \in 0 .. n /\ i # 0
        OBVIOUS
    <2>2. QED  BY <1>4, <1>5, <2>1
<1>8. root_ok(p.root, key, opts)
    <2> DEFINE needs == n > 0 \/ opts.key_binding = "KbJwt"
    <2>1. needs \in BOOLEAN /\ verify_root(p.root, key, opts, needs) = "ok"
        BY <1>6 DEF root
    <2> HIDE DEF needs
    <2>2. QED  BY <2>1 DEF root_ok
<1>9. ASSUME NEW i \in 1 .. n
      PROVE  /\ link_ok(elements(p)[i + 1], elements(p)[i],
                        claims_of(p, opts.root_form)[i].cnf, opts)
             /\ i # n => inner_ok(elements(p)[i + 1], elements(p)[i],
                                  claims_of(p, opts.root_form)[i].cnf, opts)
    <2> DEFINE is_last == i = n
               needs == i < n \/ opts.key_binding = "KbJwt"
    <2>1. /\ needs \in BOOLEAN /\ is_last \in BOOLEAN /\ (i # n => ~is_last)
          /\ verify_link(elements(p)[i + 1], elements(p)[i],
                         claims_of(p, opts.root_form)[i].cnf, is_last, needs, opts) = "ok"
        BY <1>7 DEF link
    <2> HIDE DEF needs, is_last
    <2>2. QED  BY <2>1 DEF link_ok, inner_ok
<1>10. QED  BY <1>8, <1>9

\* What a link that verifies has shown, and a root.
LEMMA LinkOk ==
    ASSUME NEW e, NEW prev, NEW cnf, NEW is_last \in BOOLEAN, NEW needs \in BOOLEAN, NEW opts,
           verify_link(e, prev, cnf, is_last, needs, opts) = "ok"
    PROVE  /\ e.signed_by = cnf
           /\ check_hash_binding(e, prev) = "ok"
           /\ delegate_payload_error(e) = "ok"
           /\ ~is_last => lasting(delegate_payload(e), opts)
<1> DEFINE terminal == e.typ = KB_SD_JWT
           claims == delegate_payload(e)
           bound == opts.key_binding = "TerminalLink" /\ is_last
           a == IF terminal THEN "ok" ELSE read_cnf(claims, needs)
           b == check_validity(e, opts, FALSE)
           c == check_validity(claims, opts, ~terminal)
           d == IF bound THEN check_transaction(e, opts)
                ELSE IF e.iat > opts.now + opts.max_future THEN "IatOutOfWindow" ELSE "ok"
<1>1. e.signed_by = cnf /\ check_hash_binding(e, prev) = "ok" /\ delegate_payload_error(e) = "ok"
    BY DEF verify_link
<1>2. first_error(<<a, b, c, d>>) = "ok"
    BY DEF verify_link
<1>3. ~is_last => ~terminal
    BY DEF verify_link, KB_SD_JWT, KB_SD_JWT_KB
<1> HIDE DEF a, b, d
<1>4. c = "ok"
    <2> HIDE DEF c
    <2> DEFINE f == <<a, b, c, d>>
    <2>1. DOMAIN f = 1 .. 4 /\ f[3] = c
        OBVIOUS
    <2> HIDE DEF f
    <2>2. \A i \in DOMAIN f : f[i] = "ok"
        BY <1>2, <2>1, FirstErrorOk DEF f
    <2>3. QED  BY <2>1, <2>2
<1>5. QED
    <2>1. ASSUME ~is_last PROVE lasting(delegate_payload(e), opts)
        <3>1. (~terminal) = TRUE
            BY <1>3, <2>1
        <3>2. QED  BY <1>4, <3>1 DEF lasting
    <2>2. QED  BY <1>1, <2>1

LEMMA RootOk ==
    ASSUME NEW root, NEW key, NEW opts, root_ok(root, key, opts)
    PROVE  /\ root.signed_by = key
           /\ opts.root_form # "Credential" =>
                /\ delegate_payload_error(root) = "ok"
                /\ lasting(delegate_payload(root), opts)
<1>0. PICK needs \in BOOLEAN : verify_root(root, key, opts, needs) = "ok"
    BY DEF root_ok
<1>1. root.signed_by = key
    BY <1>0 DEF verify_root
<1>2. ASSUME opts.root_form # "Credential"
      PROVE  /\ delegate_payload_error(root) = "ok"
             /\ lasting(delegate_payload(root), opts)
    <2> DEFINE claims == delegate_payload(root)
               a == check_validity(root, opts, FALSE)
               b == check_validity(claims, opts, TRUE)
               c == read_cnf(claims, needs)
               f == <<a, b, c>>
    <2>1. delegate_payload_error(root) = "ok" /\ first_error(f) = "ok"
        BY <1>0, <1>2 DEF verify_root
    <2> HIDE DEF a, b, c
    <2>2. DOMAIN f = 1 .. 3 /\ f[2] = b
        OBVIOUS
    <2> HIDE DEF f
    <2>3. \A i \in DOMAIN f : f[i] = "ok"
        BY <2>1, <2>2, FirstErrorOk
    <2>4. 2 \in 1 .. 3
        OBVIOUS
    <2>5. b = "ok"
        BY <2>2, <2>3, <2>4
    <2>6. QED  BY <2>1, <2>5 DEF b, lasting
<1>3. QED  BY <1>1, <1>2

\* An element in order shows one of its payloads.
LEMMA PayloadShown ==
    ASSUME NEW e, delegate_payload_error(e) = "ok"
    PROVE  \E i \in DOMAIN e.delegate_payload :
                delegate_payload(e) = e.delegate_payload[i].claims
<1>1. Cardinality(shown(e)) = 1
    BY DEF delegate_payload_error
<1>2. shown(e) # {}
    BY <1>1, FS_EmptySet
<1>3. (CHOOSE i \in shown(e) : TRUE) \in shown(e)
    BY <1>2
<1>4. QED  BY <1>3 DEF shown, delegate_payload

-----------------------------------------------------------------------------
\* The elements of a presentation, root first.
LEMMA ElementsOf ==
    ASSUME NEW r \in Requests, r.p # None, NEW n, n = Len(r.p.links) + 1
    PROVE  /\ n \in Nat \ {0} /\ Len(r.p.links) = n - 1
           /\ Len(elements(r.p)) = n /\ DOMAIN elements(r.p) = 1 .. n
           /\ elements(r.p)[1] = r.p.root
           /\ \A k \in 2 .. n : elements(r.p)[k] \in Range(r.p.links)
           /\ DOMAIN chain_claims(r) = 1 .. n /\ Len(chain_claims(r)) = n
<1> DEFINE links == r.p.links
           S == Range(links) \cup {r.p.root}
           one == <<r.p.root>>
<1>1. links \in Seq(Range(links))
    BY CallsAssumption
<1>2. links \in Seq(S) /\ one \in Seq(S) /\ Len(one) = 1 /\ one[1] = r.p.root
    BY <1>1
<1>3. Len(links) \in Nat
    BY <1>1
<1>4. n \in Nat \ {0} /\ Len(links) = n - 1 /\ 1 + Len(links) = n /\ Len(links) + 1 = n
    BY <1>3
<1>5. \A k \in 1 .. Len(links) : links[k] \in Range(links)
    BY <1>1
<1>6. elements(r.p) = one \o links
    BY DEF elements
<1>7. DOMAIN chain_claims(r) = 1 .. n
    BY <1>4 DEF chain_claims, claims_of
<1>8. Len(chain_claims(r)) = n
    <2>1. Len(chain_claims(r)) \in Nat /\ 1 .. Len(chain_claims(r)) = 1 .. n
        BY <1>7, ChainClaims
    <2> DEFINE m == Len(chain_claims(r))
    <2> HIDE DEF m
    <2>2. m \in Nat /\ 1 .. m = 1 .. n /\ n \in Nat
        BY <1>4, <2>1 DEF m
    <2>3. m = n
        BY <2>2
    <2>4. QED  BY <2>3 DEF m
<1> HIDE DEF links, S, one
<1>9. /\ elements(r.p) \in Seq(S) /\ Len(elements(r.p)) = n
      /\ \A i \in 1 .. n : elements(r.p)[i] = IF i <= 1 THEN one[i] ELSE links[i - 1]
    <2>1. /\ one \o links \in Seq(S) /\ Len(one \o links) = Len(one) + Len(links)
          /\ \A i \in 1 .. Len(one) + Len(links) :
                (one \o links)[i] = IF i <= Len(one) THEN one[i] ELSE links[i - Len(one)]
        BY <1>2, ConcatProperties
    <2>2. Len(one) = 1 /\ Len(one) + Len(links) = n
        BY <1>2, <1>4
    <2>3. QED  BY <1>6, <2>1, <2>2
<1>10. elements(r.p)[1] = r.p.root
    BY <1>2, <1>4, <1>9
<1>11. \A k \in 2 .. n : elements(r.p)[k] \in Range(links)
    <2> TAKE k \in 2 .. n
    <2>1. k \in 1 .. n /\ ~(k <= 1) /\ k - 1 \in 1 .. Len(links)
        BY <1>4
    <2>2. QED  BY <1>5, <1>9, <2>1
<1>12. QED  BY <1>4, <1>7, <1>8, <1>9, <1>10, <1>11 DEF links

\* The mandates among them: all but a credential at the root.
LEMMA MandatesOf ==
    ASSUME NEW r \in Requests, r.p # None, mandate_claims(r) # <<>>,
           NEW n, n = Len(r.p.links) + 1, NEW f, f = first_mandate(r.v)
    PROVE  /\ f \in 1 .. n /\ open_count(r) \in Nat /\ open_count(r) = n - f
           /\ Len(mandate_claims(r)) = open_count(r) + 1
           /\ \A i \in 1 .. open_count(r) + 1 :
                /\ f + i - 1 \in 1 .. n
                /\ mandate_claims(r)[i] = chain_claims(r)[f + i - 1]
                /\ mandate_elements(r)[i] = elements(r.p)[f + i - 1]
                /\ f + i - 1 = 1 => r.v.root # "credential"
                /\ mandate_claims(r)[i] = delegate_payload(mandate_elements(r)[i])
           /\ leaf_claims(r) = mandate_claims(r)[open_count(r) + 1]
<1> DEFINE cs == chain_claims(r)
           es == elements(r.p)
           C == {cs[i] : i \in 1 .. n}
           E == {es[i] : i \in 1 .. n}
<1>1. n \in Nat \ {0} /\ f \in {1, 2} /\ (f = 1 => r.v.root # "credential")
    BY ElementsOf DEF first_mandate
<1>2. \A i \in f .. n : cs[i] \in C /\ es[i] \in E
    BY <1>1
<1>3. mandate_claims(r) = SubSeq(cs, f, n) /\ mandate_elements(r) = SubSeq(es, f, n)
    BY DEF mandate_claims, mandate_elements
<1>4. \A i \in 1 .. n : cs[i] = IF i = 1 /\ r.v.root = "credential" THEN r.p.root.claims
                                 ELSE delegate_payload(es[i])
    BY DEF chain_claims, claims_of, root_form
<1> HIDE DEF cs, es, C, E
<1>5. /\ mandate_claims(r) \in Seq(C)
      /\ Len(mandate_claims(r)) = IF f <= n THEN n - f + 1 ELSE 0
      /\ \A i \in 1 .. n - f + 1 : mandate_claims(r)[i] = cs[f + i - 1]
      /\ \A i \in 1 .. n - f + 1 : mandate_elements(r)[i] = es[f + i - 1]
    <2>1. f \in Int /\ n \in Int
        BY <1>1
    <2>2. /\ SubSeq(cs, f, n) \in Seq(C)
          /\ Len(SubSeq(cs, f, n)) = IF f <= n THEN n - f + 1 ELSE 0
          /\ \A i \in 1 .. n - f + 1 : SubSeq(cs, f, n)[i] = cs[f + i - 1]
        <3>1. \A i \in f .. n : cs[i] \in C
            BY <1>2
        <3>2. QED  BY <2>1, <3>1, SubSeqProperties
    <2>3. \A i \in 1 .. n - f + 1 : SubSeq(es, f, n)[i] = es[f + i - 1]
        <3>1. \A i \in f .. n : es[i] \in E
            BY <1>2
        <3>2. QED  BY <2>1, <3>1, SubSeqProperties
    <2>4. QED  BY <1>3, <2>2, <2>3
<1>6. f <= n
    BY <1>5
<1>7. /\ Len(mandate_claims(r)) = n - f + 1 /\ open_count(r) = n - f /\ open_count(r) \in Nat
      /\ open_count(r) + 1 = n - f + 1 /\ f \in 1 .. n
    BY <1>1, <1>5, <1>6 DEF open_count
<1>8. ASSUME NEW i \in 1 .. open_count(r) + 1
      PROVE  /\ f + i - 1 \in 1 .. n
             /\ mandate_claims(r)[i] = cs[f + i - 1]
             /\ mandate_elements(r)[i] = es[f + i - 1]
             /\ f + i - 1 = 1 => r.v.root # "credential"
             /\ mandate_claims(r)[i] = delegate_payload(mandate_elements(r)[i])
    <2>1. f + i - 1 \in 1 .. n /\ i \in 1 .. n - f + 1 /\ (f + i - 1 = 1 => f = 1)
        <3>1. i \in 1 .. n - f + 1
            BY <1>7
        <3>2. n \in Int /\ f \in Int /\ i \in Int
            BY <1>1, <3>1
        <3>3. 1 <= f /\ 1 <= i /\ i <= n - f + 1
            BY <1>7, <3>1, <3>2
        <3>4. f + i - 1 \in 1 .. n /\ (f + i - 1 = 1 => f = 1)
            BY <3>2, <3>3
        <3>5. QED  BY <3>1, <3>4
    <2> DEFINE j == f + i - 1
    <2>2. mandate_claims(r)[i] = cs[j] /\ mandate_elements(r)[i] = es[j]
        <3>1. i \in 1 .. n - f + 1
            BY <2>1
        <3>2. /\ \A x \in 1 .. n - f + 1 : mandate_claims(r)[x] = cs[f + x - 1]
              /\ \A x \in 1 .. n - f + 1 : mandate_elements(r)[x] = es[f + x - 1]
            BY <1>5
        <3>3. QED  BY <3>1, <3>2, Zenon
    <2>3. j = 1 => r.v.root # "credential"
        BY <1>1, <2>1
    <2> HIDE DEF j
    <2>4. j \in 1 .. n
        BY <2>1 DEF j
    <2>5. cs[j] = delegate_payload(es[j])
        BY <1>4, <2>3, <2>4
    <2>6. QED  BY <2>2, <2>3, <2>4, <2>5 DEF j
<1>9. leaf_claims(r) = mandate_claims(r)[open_count(r) + 1]
    BY <1>7 DEF leaf_claims, Last
<1>10. QED  BY <1>7, <1>8, <1>9 DEF cs, es

\* A chain that passes the check: who signed what, over what, and what each
\* element shows.
LEMMA CheckedChain ==
    ASSUME NEW r \in Requests, NEW now, check_failure(r, now) = "ok",
           NEW n, n = Len(r.p.links) + 1
    PROVE  /\ r.p # None /\ mandate_claims(r) # <<>>
           /\ elements(r.p)[1].signed_by = r.issuer_key
           /\ \A i \in 2 .. n :
                /\ elements(r.p)[i].signed_by = chain_claims(r)[i - 1].cnf
                /\ elements(r.p)[i].made_over = elements(r.p)[i - 1].jwt
           /\ \A i \in 1 .. n : (i = 1 => r.v.root # "credential") =>
                /\ delegate_payload_error(elements(r.p)[i]) = "ok"
                /\ i < n => lasting(delegate_payload(elements(r.p)[i]), options(r, now))
<1> DEFINE opts == options(r, now)
           es == elements(r.p)
           cs == chain_claims(r)
           m == Len(r.p.links)
<1>1. r.p # None /\ mandate_claims(r) # <<>> /\ verify(r.p, r.issuer_key, opts) = "ok"
    BY DEF check_failure
<1>2. n \in Nat \ {0} /\ m \in Nat /\ m = n - 1 /\ n = m + 1 /\ es[1] = r.p.root
    BY <1>1, ElementsOf
<1>3. opts.key_binding # "KbJwt" /\ opts.root_form = root_form(r.v)
    BY DEF options
<1>4. cs = claims_of(r.p, opts.root_form)
    BY <1>3 DEF chain_claims
<1>5. opts.root_form = "Credential" <=> r.v.root = "credential"
    BY <1>3 DEF root_form
<1> HIDE DEF opts
<1>6. /\ root_ok(r.p.root, r.issuer_key, opts)
      /\ \A i \in 1 .. m : /\ link_ok(es[i + 1], es[i], cs[i].cnf, opts)
                           /\ i # m => inner_ok(es[i + 1], es[i], cs[i].cnf, opts)
    <2> HIDE DEF es, cs, m
    <2>1. m \in Nat /\ m = Len(r.p.links)
        BY <1>2 DEF m
    <2>2. QED  BY <1>1, <1>3, <1>4, <2>1, VerifiedChain DEF es
<1>7. /\ es[1].signed_by = r.issuer_key
      /\ r.v.root # "credential" => /\ delegate_payload_error(es[1]) = "ok"
                                    /\ lasting(delegate_payload(es[1]), opts)
    BY <1>2, <1>5, <1>6, RootOk
<1>8. \A i \in 1 .. m :
        /\ es[i + 1].signed_by = cs[i].cnf
        /\ check_hash_binding(es[i + 1], es[i]) = "ok"
        /\ delegate_payload_error(es[i + 1]) = "ok"
        /\ i # m => lasting(delegate_payload(es[i + 1]), opts)
    <2> TAKE i \in 1 .. m
    <2> HIDE DEF es, cs, m
    <2>1. /\ link_ok(es[i + 1], es[i], cs[i].cnf, opts)
          /\ i # m => inner_ok(es[i + 1], es[i], cs[i].cnf, opts)
        BY <1>6
    <2>2. QED  BY <2>1, LinkOk DEF link_ok, inner_ok
<1>9. \A i \in 1 .. m : es[i + 1].made_over = es[i].jwt
    <2> TAKE i \in 1 .. m
    <2>1. check_hash_binding(es[i + 1], es[i]) = "ok"
        BY <1>8
    <2>2. \/ es[i + 1].sd_hash = digest(es[i].sd_alg, serialize(es[i]))
          \/ es[i + 1].issuer_jwt_hash = digest(es[i].sd_alg, es[i].jwt)
        BY <2>1 DEF check_hash_binding
    <2>3. QED  BY <1>1, <2>2, DigestAssumption
<1>10. ASSUME NEW i \in 2 .. n
       PROVE  /\ es[i].signed_by = cs[i - 1].cnf
              /\ es[i].made_over = es[i - 1].jwt
              /\ delegate_payload_error(es[i]) = "ok"
              /\ i < n => lasting(delegate_payload(es[i]), opts)
    <2>1. i - 1 \in 1 .. m /\ (i - 1) + 1 = i /\ (i < n => i - 1 # m)
        BY <1>2
    <2>2. QED  BY <1>8, <1>9, <2>1
<1>11. ASSUME NEW i \in 1 .. n, i = 1 => r.v.root # "credential"
       PROVE  /\ delegate_payload_error(es[i]) = "ok"
              /\ i < n => lasting(delegate_payload(es[i]), opts)
    <2>1. i = 1 \/ i \in 2 .. n
        BY <1>2
    <2>2. QED  BY <1>7, <1>10, <1>11, <2>1
<1>12. QED  BY <1>1, <1>7, <1>10, <1>11 DEF opts

\* Its mandates: their claims are of their types, and the open ones have not
\* expired.
LEMMA CheckedMandates ==
    ASSUME NEW r \in Requests, NEW now, check_failure(r, now) = "ok"
    PROVE  /\ r.p # None /\ open_count(r) \in Nat
           /\ leaf_claims(r) = mandate_claims(r)[open_count(r) + 1]
           /\ \A i \in 1 .. open_count(r) + 1 : claims_ok(mandate_claims(r)[i])
           /\ \A i \in 1 .. open_count(r) :
                lasting(mandate_claims(r)[i], options(r, now))
<1> DEFINE n == Len(r.p.links) + 1
           f == first_mandate(r.v)
           es == elements(r.p)
<1>1. r.p # None /\ mandate_claims(r) # <<>>
    BY CheckedChain
<1>2. /\ n \in Nat \ {0} /\ es[1] = r.p.root
      /\ \A k \in 2 .. n : es[k] \in Range(r.p.links)
    BY <1>1, ElementsOf
<1>3. /\ f \in 1 .. n /\ open_count(r) \in Nat /\ open_count(r) = n - f
      /\ leaf_claims(r) = mandate_claims(r)[open_count(r) + 1]
      /\ \A i \in 1 .. open_count(r) + 1 :
            /\ f + i - 1 \in 1 .. n
            /\ mandate_elements(r)[i] = es[f + i - 1]
            /\ f + i - 1 = 1 => r.v.root # "credential"
            /\ mandate_claims(r)[i] = delegate_payload(mandate_elements(r)[i])
    BY <1>1, MandatesOf
<1>4. \A i \in 1 .. n : (i = 1 => r.v.root # "credential") =>
        /\ delegate_payload_error(es[i]) = "ok"
        /\ i < n => lasting(delegate_payload(es[i]), options(r, now))
    BY CheckedChain
<1> HIDE DEF n, f, es
<1>5. ASSUME NEW i \in 1 .. open_count(r) + 1 PROVE claims_ok(mandate_claims(r)[i])
    <2> DEFINE e == mandate_elements(r)[i]
    <2>1. delegate_payload_error(e) = "ok"
        BY <1>3, <1>4
    <2>2. PICK k \in DOMAIN e.delegate_payload :
            delegate_payload(e) = e.delegate_payload[k].claims
        BY <2>1, PayloadShown
    <2>3. e \in Range(r.p.links) \/ (e = r.p.root /\ r.v.root # "credential")
        <3> DEFINE j == f + i - 1
        <3>1. j \in 1 .. n /\ e = es[j] /\ (j = 1 => r.v.root # "credential")
            BY <1>3
        <3>2. j = 1 \/ j \in 2 .. n
            <4> HIDE DEF j
            <4>1. QED  BY <1>2, <3>1
        <3>3. QED  BY <1>2, <3>1, <3>2
    <2>4. e \in Range(r.p.links) \cup IF r.v.root = "credential" THEN {} ELSE {r.p.root}
        BY <2>3
    <2>5. claims_ok(e.delegate_payload[k].claims)
        BY <1>1, <2>4, ClaimsAssumption
    <2>6. QED  BY <1>3, <2>2, <2>5
<1>6. ASSUME NEW i \in 1 .. open_count(r)
      PROVE  lasting(mandate_claims(r)[i], options(r, now))
    <2>1. i \in 1 .. open_count(r) + 1 /\ f + i - 1 < n
        BY <1>2, <1>3
    <2>2. QED  BY <1>3, <1>4, <2>1
<1>7. QED  BY <1>1, <1>3, <1>5, <1>6

\* The mandates that parse, and the depths that allow the chain.
LEMMA MandatesOk ==
    ASSUME NEW r \in Requests, NEW now, open_count(r) \in Nat, mandates_failure(r, now) = "ok"
    PROVE  /\ closed_failure(leaf_claims(r)) = "ok"
           /\ \A i \in 1 .. open_count(r) :
                open_failure(mandate_claims(r)[i]) = "ok" /\ depth_failure(r, i) = "ok"
<1> DEFINE n == open_count(r)
           all == mandate_claims(r)
           answer(i) == IF open_failure(all[i]) # "ok" THEN open_failure(all[i])
                        ELSE IF unrevocable(r, all[i], now) THEN "Unrevocable"
                        ELSE "ok"
           opens == [i \in 1 .. n |-> answer(i)]
           depths == [i \in 1 .. n |-> depth_failure(r, i)]
<1>1. /\ closed_failure(leaf_claims(r)) = "ok"
      /\ first_error(opens) = "ok" /\ first_error(depths) = "ok"
    BY DEF mandates_failure
<1>2. DOMAIN opens \subseteq Nat /\ DOMAIN depths \subseteq Nat
    OBVIOUS
<1>3. /\ \A i \in DOMAIN opens : opens[i] = "ok"
      /\ \A i \in DOMAIN depths : depths[i] = "ok"
    <2> HIDE DEF opens, depths
    <2>1. QED  BY <1>1, <1>2, FirstErrorOk
<1>4. ASSUME NEW i \in 1 .. n
      PROVE  open_failure(all[i]) = "ok" /\ depth_failure(r, i) = "ok"
    <2>1. answer(i) = "ok" /\ depth_failure(r, i) = "ok"
        BY <1>3
    <2>2. QED  BY <2>1
<1>5. QED  BY <1>1, <1>4

-----------------------------------------------------------------------------
\* An open mandate that parsed is one an issuer could have drafted, and allows
\* the open mandates that follow it; it has not expired.
LEMMA OpenOk ==
    ASSUME NEW r \in Requests, NEW now \in Nat, check_failure(r, now) = "ok",
           mandates_failure(r, now) = "ok", NEW i \in 1 .. open_count(r)
    PROVE  /\ drafted(open_of(r, i))
           /\ DOMAIN open_of(r, i).constraints \subseteq Nat
           /\ open_count(r) - i <= open_of(r, i).max_depth
           /\ now < mandate_claims(r)[i].exp + r.v.leeway
           /\ \A b \in budgets(open_of(r, i)) : b.max \in Nat
<1> DEFINE claims == mandate_claims(r)[i]
           open == open_of(r, i)
<1>1. /\ r.p # None /\ open_count(r) \in Nat /\ claims_ok(claims)
      /\ lasting(claims, options(r, now))
    BY CheckedMandates
<1>2. open_failure(claims) = "ok" /\ depth_failure(r, i) = "ok"
    BY <1>1, MandatesOk
<1>3. /\ open.family = claims.family /\ open.constraints = constraints_of(claims)
      /\ open.max_depth = max_depth(constraints_of(claims))
    BY DEF open_of, open_mandate
<1>4. ~parse_error(claims.family, constraints_of(claims))
    BY <1>2 DEF open_failure
<1>5. drafted(open)
    BY <1>3, <1>4 DEF drafted
<1>6. DOMAIN open.constraints \subseteq Nat
    <2>1. CASE claims.constraints = None
        BY <1>3, <2>1 DEF constraints_of
    <2>2. CASE claims.constraints # None
        <3>1. open.constraints \in Seq(Range(claims.constraints))
            BY <1>1, <1>3, <2>2 DEF constraints_of, claims_ok
        <3>2. QED  BY <3>1
    <2>3. QED  BY <2>1, <2>2
<1>7. open_count(r) - i <= open.max_depth
    <2>1. open.max_depth \in 0 .. U32Max /\ U32Max \in Nat
        BY <1>5, DepthInRange, U32MaxAssumption
    <2>2. ~(open_count(r) - i > open.max_depth)
        BY <1>2 DEF depth_failure
    <2> HIDE DEF open
    <2>3. QED  BY <1>1, <2>1, <2>2
<1>8. now < claims.exp + r.v.leeway
    <2>1. options(r, now).now = now /\ options(r, now).leeway = r.v.leeway
        BY DEF options
    <2>2. /\ claims.exp # Bad /\ claims.exp # None
          /\ ~(now >= claims.exp + r.v.leeway)
        BY <1>1, <2>1 DEF lasting, check_validity
    <2>3. claims.exp \in Int /\ r.v.leeway \in Nat
        BY <1>1, <2>2, ClaimsAssumption DEF claims_ok
    <2> HIDE DEF claims
    <2>4. QED  BY <2>2, <2>3
<1>9. \A b \in budgets(open) : b.max \in Nat
    <2>1. CASE claims.constraints = None
        BY <1>3, <2>1 DEF constraints_of, budgets, Range
    <2>2. CASE claims.constraints # None
        BY <1>1, <1>3, <2>2 DEF constraints_of, claims_ok, budgets
    <2>3. QED  BY <2>1, <2>2
<1>10. QED  BY <1>5, <1>6, <1>7, <1>8, <1>9

\* What is paid is an amount.
LEMMA PaidIsNat ==
    ASSUME NEW r \in Requests, NEW now, check_failure(r, now) = "ok",
           mandates_failure(r, now) = "ok"
    PROVE  paid(r) \in Nat
<1> DEFINE claims == leaf_claims(r)
<1>1. open_count(r) \in Nat /\ claims_ok(claims)
    BY CheckedMandates
<1>2. closed_failure(claims) = "ok"
    BY <1>1, MandatesOk
<1>3. closed_of(r).family = claims.family /\ closed_of(r).claims = claims.body
    BY DEF closed_of
<1>4. claims.family = "payment" => "payment_amount" \in DOMAIN claims.body
    BY <1>2 DEF closed_failure, content_parses
<1>5. QED  BY <1>1, <1>3, <1>4 DEF paid, claims_ok

\* Of the constraints that do not count uses, the ledger decides nothing.
LEMMA LedgerAside ==
    ASSUME NEW open, drafted(open), NEW closed, NEW r, NEW now, NEW known, NEW other,
           accepts_stateless(open, closed, env_of(r, now, known))
    PROVE  accepts_stateless(open, closed, env_of(r, now, other))
<1> DEFINE e == env_of(r, now, known)
           d == env_of(r, now, other)
<1>1. /\ e.now = d.now /\ e.checkout = d.checkout
      /\ e.open_checkout_hash = d.open_checkout_hash
    BY DEF env_of
<1> HIDE DEF e, d
<1>2. ASSUME NEW c, parses(c), c.type \notin Stateful, NEW key,
             evaluate(c, closed, e, key) = "ok"
      PROVE  evaluate(c, closed, d, key) = "ok"
    BY <1>1, <1>2 DEF evaluate, parses, Stateful, ListTypes
<1>3. \A i \in DOMAIN open.constraints : parses(open.constraints[i])
    BY DEF drafted, parse_error
<1>4. /\ structural_failure(open, closed) = "ok"
      /\ \A i \in DOMAIN open.constraints : open.constraints[i].type \notin Stateful =>
            evaluate(open.constraints[i], closed, e, open.ledger_key) = "ok"
    BY DEF accepts_stateless, e
<1>5. QED  BY <1>2, <1>3, <1>4 DEF accepts_stateless, d

-----------------------------------------------------------------------------
\* What a call at a place in the program has found out of its request: passed,
\* without mention of the ledger, which another call may change.
satisfied(r, now, i) == accepts_stateless(open_of(r, i), closed_of(r), env_of(r, now, None))

done(r, pc, i) ==
    {j \in 1 .. open_count(r) : pc \notin {"status", "mandates"} /\ (pc = "evaluate" => j < i)}

found(r, now, pc, i) ==
    /\ check_failure(r, now) = "ok"
    /\ pc = "status" => i \in 1 .. Len(chain_claims(r))
    /\ pc = "evaluate" => i \in 1 .. open_count(r) + 1
    /\ pc \notin {"status", "mandates"} => mandates_failure(r, now) = "ok"
    /\ \A j \in done(r, pc, i) : satisfied(r, now, j)

\* What an authorised request has been found to be.
vetted(r, now) ==
    /\ check_failure(r, now) = "ok"
    /\ mandates_failure(r, now) = "ok"
    /\ \A j \in 1 .. open_count(r) : satisfied(r, now, j)

Found ==
    /\ \A t \in Threads : live(t) => found(call[t].r, call[t].now, call[t].pc, call[t].i)
    /\ \A k \in DOMAIN authorized : vetted(authorized[k].r, authorized[k].now)

LEMMA KeptFound ==
    ASSUME CallsOK, Found, NEW t \in Threads, live(t), NEW pc, NEW i, kept(t, pc, i),
           authorized' = authorized, found(call[t].r, call[t].now, pc, i)
    PROVE  Found'
<1>1. ASSUME NEW u \in Threads, u # t
      PROVE  live(u)' = live(u) /\ call'[u] = call[u]
    BY <1>1 DEF kept, live, At
<1>2. found(call'[t].r, call'[t].now, call'[t].pc, call'[t].i)
    BY DEF kept
<1>3. QED  BY <1>1, <1>2 DEF Found

LEMMA OverFound ==
    ASSUME CallsOK, Found, NEW t \in Threads, ~live(t)',
           \A u \in Threads : u # t => call'[u] = call[u],
           \A k \in DOMAIN authorized' : vetted(authorized'[k].r, authorized'[k].now)
    PROVE  Found'
<1>1. ASSUME NEW u \in Threads, u # t
      PROVE  live(u)' = live(u) /\ call'[u] = call[u]
    BY <1>1 DEF live, At
<1>2. QED  BY <1>1 DEF Found

\* A call decides: against the request, or after the evaluation.
LEMMA DecideFound ==
    ASSUME CallsOK, Found, NEW t \in Threads, live(t), NEW reason, Decide(t, reason),
           reason = "ok" => At(t, "nonce"), authorized' = authorized
    PROVE  Found'
<1>1. CASE reason = "ok"
    <2>1. kept(t, "sign", call[t].i)
        BY <1>1, DecideKeeps
    <2>2. found(call[t].r, call[t].now, "nonce", call[t].i)
        BY <1>1 DEF Found, At
    <2>3. found(call[t].r, call[t].now, "sign", call[t].i)
        BY <2>2 DEF found, done
    <2>4. QED  BY <2>1, <2>3, KeptFound
<1>2. CASE reason # "ok"
    <2>1. ~live(t)' /\ \A u \in Threads : u # t => call'[u] = call[u]
        BY <1>2, DecideKeeps, RejectedIsOver
    <2>2. \A k \in DOMAIN authorized' : vetted(authorized'[k].r, authorized'[k].now)
        BY DEF Found
    <2>3. QED  BY <2>1, <2>2, OverFound
<1>3. QED  BY <1>1, <1>2

LEMMA VerifyFound ==
    ASSUME CallsOK, Found, NEW t \in Threads, NEW r \in Requests, Verify(t, r)
    PROVE  Found'
<1>1. /\ \A u \in Threads : u # t => call'[u] = call[u]
      /\ \A k \in DOMAIN authorized' : vetted(authorized'[k].r, authorized'[k].now)
      /\ authorized' = authorized
    BY VerifyStarts DEF Verify, Found
<1>2. CASE \E reason : reason # "ok" /\ call'[t] = Rejected(reason)
    <2>1. ~live(t)'
        BY <1>2, RejectedIsOver
    <2>2. QED  BY <1>1, <2>1, OverFound
<1>3. CASE /\ r.p # None /\ check_failure(r, clock) = "ok"
           /\ call'[t] = [pc |-> "status", r |-> r, now |-> clock, i |-> 1, reason |-> "none",
                          revoked |-> {s \in StatusRefs : status[s] # "Valid"},
                          looked |-> None]
    <2>1. /\ call'[t].pc = "status" /\ call'[t].r = r /\ call'[t].i = 1 /\ call'[t].now = clock
        BY <1>3
    <2>2. 1 \in 1 .. Len(chain_claims(r))
        <3>1. Len(chain_claims(r)) \in Nat \ {0}
            BY <1>3, ElementsOf
        <3>2. QED  BY <3>1
    <2>3. found(r, clock, "status", 1)
        BY <1>3, <2>2 DEF found, done
    <2>4. ASSUME NEW u \in Threads, u # t
          PROVE  live(u)' = live(u) /\ call'[u] = call[u]
        BY <1>1, <2>4 DEF live, At
    <2>5. QED  BY <1>1, <2>1, <2>3, <2>4 DEF Found
<1>4. QED  BY <1>2, <1>3, VerifyStarts

LEMMA CheckStatusFound ==
    ASSUME CallsOK, Found, NEW t \in Threads, CheckStatus(t) PROVE Found'
<1> DEFINE r == call[t].r
           i == call[t].i
           n == Len(chain_claims(r))
           failure == status_failure(r.v, chain_claims(r)[i], status)
<1>1. live(t) /\ At(t, "status") /\ authorized' = authorized
    BY DEF CheckStatus, live, At
<1>2. i \in Nat /\ n \in Nat
    BY <1>1, ChainClaims DEF CallsOK
<1>3. found(r, call[t].now, "status", i)
    BY <1>1 DEF Found, At
<1>4. CASE failure # "ok"
    <2>1. Decide(t, failure)
        BY <1>4 DEF CheckStatus
    <2>2. QED  BY <1>1, <1>4, <2>1, DecideFound
<1>5. CASE failure = "ok" /\ i < n
    <2>1. kept(t, "status", i + 1)
        BY <1>1, <1>5, GotoKeeps DEF CheckStatus
    <2>2. i + 1 \in 1 .. n
        <3> HIDE DEF i, n
        <3>1. QED  BY <1>2, <1>5
    <2>3. found(r, call[t].now, "status", i + 1)
        BY <1>3, <2>2 DEF found, done
    <2>4. QED  BY <1>1, <2>1, <2>3, KeptFound
<1>6. CASE failure = "ok" /\ ~(i < n)
    <2>1. kept(t, "mandates", 1)
        BY <1>1, <1>6, GotoKeeps DEF CheckStatus
    <2>2. found(r, call[t].now, "mandates", 1)
        BY <1>3 DEF found, done
    <2>3. QED  BY <1>1, <2>1, <2>2, KeptFound
<1>7. QED  BY <1>4, <1>5, <1>6

LEMMA CheckMandatesFound ==
    ASSUME CallsOK, Found, NEW t \in Threads, CheckMandates(t) PROVE Found'
<1> DEFINE r == call[t].r
           now == call[t].now
           failure == mandates_failure(r, now)
<1>1. live(t) /\ At(t, "mandates") /\ authorized' = authorized /\ r \in Requests
    BY DEF CheckMandates, live, At, CallsOK
<1>2. check_failure(r, now) = "ok"
    BY <1>1 DEF Found, found
<1>3. CASE failure # "ok"
    <2>1. Decide(t, failure)
        BY <1>3 DEF CheckMandates
    <2>2. QED  BY <1>1, <1>3, <2>1, DecideFound
<1>4. CASE failure = "ok"
    <2>1. kept(t, "evaluate", 1)
        BY <1>1, <1>4, LookKeeps DEF CheckMandates
    <2>2. open_count(r) \in Nat
        BY <1>1, <1>2, CheckedMandates
    <2>3. 1 \in 1 .. open_count(r) + 1 /\ \A j \in 1 .. open_count(r) : ~(j < 1)
        BY <2>2
    <2>4. found(r, now, "evaluate", 1)
        BY <1>2, <1>4, <2>3 DEF found, done
    <2>5. QED  BY <1>1, <2>1, <2>4, KeptFound
<1>5. QED  BY <1>3, <1>4

LEMMA EvaluateFound ==
    ASSUME CallsOK, Found, NEW t \in Threads, EvaluateLink(t) PROVE Found'
<1> DEFINE r == call[t].r
           now == call[t].now
           i == call[t].i
           n == open_count(r)
           answer == accepts(open_of(r, i), closed_of(r), env_of(r, now, ledger))
<1>1. /\ live(t) /\ At(t, "evaluate") /\ authorized' = authorized /\ r \in Requests
      /\ now \in Nat
    BY DEF EvaluateLink, live, At, CallsOK
<1>2. found(r, now, "evaluate", i)
    BY <1>1 DEF Found, At
<1>3. /\ check_failure(r, now) = "ok" /\ mandates_failure(r, now) = "ok"
      /\ i \in 1 .. n + 1 /\ \A j \in 1 .. n : j < i => satisfied(r, now, j)
    BY <1>2 DEF found, done
<1>4. n \in Nat
    BY <1>1, <1>3, CheckedMandates
<1>5. CASE i > n
    <2>1. kept(t, "nonce", 1)
        BY <1>1, <1>5, GotoKeeps DEF EvaluateLink
    <2>2. \A j \in 1 .. n : satisfied(r, now, j)
        <3> HIDE DEF r, now, i, n
        <3>1. \A j \in 1 .. n : j < i
            BY <1>3, <1>4, <1>5
        <3>2. QED  BY <1>3, <3>1
    <2>3. found(r, now, "nonce", 1)
        BY <1>3, <2>2 DEF found, done
    <2>4. QED  BY <1>1, <2>1, <2>3, KeptFound
<1>6. CASE ~(i > n) /\ answer # "ok"
    <2>1. \E reason : reason # "ok" /\ Decide(t, reason)
        BY <1>6 DEF EvaluateLink
    <2>2. QED  BY <1>1, <2>1, DecideFound
<1>7. CASE ~(i > n) /\ answer = "ok"
    <2>1. kept(t, "evaluate", i + 1)
        <3>1. Goto(t, "evaluate", i + 1)
            BY <1>7 DEF EvaluateLink
        <3>2. QED  BY <1>1, <3>1, GotoKeeps
    <2>2. i \in 1 .. n /\ i + 1 \in 1 .. n + 1 /\ \A j \in 1 .. n : j < i + 1 => j < i \/ j = i
        <3> HIDE DEF r, i, n, answer
        <3>1. QED  BY <1>3, <1>4, <1>7
    <2>3. satisfied(r, now, i)
        <3>1. drafted(open_of(r, i)) /\ DOMAIN open_of(r, i).constraints \subseteq Nat
            BY <1>1, <1>3, <2>2, OpenOk
        <3>2. accepts_stateless(open_of(r, i), closed_of(r), env_of(r, now, ledger))
            BY <1>7, <3>1, AcceptsMeansEveryConstraint
        <3>3. QED  BY <3>1, <3>2, LedgerAside DEF satisfied
    <2>4. found(r, now, "evaluate", i + 1)
        <3> HIDE DEF r, now, i, n, answer
        <3>1. \A j \in 1 .. n : j < i + 1 => satisfied(r, now, j)
            BY <1>3, <2>2, <2>3
        <3>2. QED  BY <1>3, <2>2, <3>1 DEF found, done, n
    <2>5. QED  BY <1>1, <2>1, <2>4, KeptFound
<1>8. QED  BY <1>5, <1>6, <1>7

LEMMA SignFound ==
    ASSUME CallsOK, Found, NEW t \in Threads, Sign(t) PROVE Found'
<1>1. CASE ~granting(t)
    <2>1. authorized' = authorized /\ call' = [call EXCEPT ![t] = Idle]
        BY <1>1 DEF Sign, granting
    <2>2. \A k \in DOMAIN authorized' : vetted(authorized'[k].r, authorized'[k].now)
        BY <2>1 DEF Found
    <2>3. QED  BY <2>1, <2>2, IdleEnds, OverFound
<1>2. CASE granting(t)
    <2> DEFINE r == call[t].r
               now == call[t].now
               n == Len(authorized)
    <2>1. live(t)
        BY <1>2, HolderTypes
    <2>2. found(r, now, "sign", call[t].i)
        BY <1>2, <2>1 DEF Found, granting, At
    <2>3. vetted(r, now) /\ found(r, now, "record", call[t].i)
        BY <2>2 DEF found, vetted, done
    <2>4. /\ n \in Nat /\ DOMAIN authorized = 1 .. n /\ DOMAIN authorized' = 1 .. n + 1
          /\ \A j \in 1 .. n : authorized'[j] = authorized[j]
          /\ authorized'[n + 1].r = r /\ authorized'[n + 1].now = now
          /\ \A u \in Threads : u # t => call'[u] = call[u]
        BY <1>2, SignAppends
    <2> HIDE DEF n, r, now
    <2>5. \A k \in DOMAIN authorized' : vetted(authorized'[k].r, authorized'[k].now)
        <3>1. \A k \in DOMAIN authorized' : k \in DOMAIN authorized \/ k = n + 1
            BY <2>4
        <3>2. QED  BY <2>3, <2>4, <3>1 DEF Found
    <2>6. CASE call' = [call EXCEPT ![t] = Idle]
        BY <2>5, <2>6, IdleEnds, OverFound
    <2>7. CASE call' = [call EXCEPT ![t].pc = "record"]
        <3>1. kept(t, "record", call[t].i)
            BY <2>1, <2>7, RecordKeeps
        <3>2. ASSUME NEW u \in Threads, u # t
              PROVE  live(u)' = live(u) /\ call'[u] = call[u]
            BY <3>1, <3>2 DEF kept, live, At
        <3>3. found(call'[t].r, call'[t].now, call'[t].pc, call'[t].i)
            BY <2>3, <3>1 DEF kept, r, now
        <3>4. QED  BY <2>5, <3>2, <3>3 DEF Found
    <2>8. QED  BY <1>2, <2>6, <2>7 DEF Sign, granting
<1>3. QED  BY <1>1, <1>2

LEMMA FoundStep == CallsOK /\ Found /\ [Next]_vars => Found'
<1> SUFFICES ASSUME CallsOK, Found, [Next]_vars PROVE Found'
    OBVIOUS
<1>1. ASSUME NEW t \in Threads, CheckNonce(t) PROVE Found'
    <2>1. live(t) /\ At(t, "nonce") /\ authorized' = authorized
        BY <1>1 DEF CheckNonce, live, At
    <2>2. \E reason : Decide(t, reason)
        BY <1>1 DEF CheckNonce
    <2>3. QED  BY <2>1, <2>2, DecideFound
<1>2. ASSUME NEW t \in Threads, Record(t) PROVE Found'
    <2>1. authorized' = authorized /\ call' = [call EXCEPT ![t] = Idle]
        BY <1>2 DEF Record
    <2>2. \A k \in DOMAIN authorized' : vetted(authorized'[k].r, authorized'[k].now)
        BY <2>1 DEF Found
    <2>3. QED  BY <2>1, <2>2, IdleEnds, OverFound
<1>3. ASSUME call' = call, authorized' = authorized PROVE Found'
    BY <1>3 DEF Found, live, At
<1>4. (\E s \in StatusRefs : Revoke(s)) \/ Tick \/ UNCHANGED vars
        => call' = call /\ authorized' = authorized
    BY DEF Revoke, Tick, vars
<1>5. QED
    BY <1>1, <1>2, <1>3, <1>4, VerifyFound, CheckStatusFound, CheckMandatesFound, EvaluateFound,
       SignFound
    DEF Next, Step

LEMMA FoundInvariant == Spec => []Found
<1>1. Init => Found
    BY DEF Init, Found, live, At, Idle
<1>2. QED  BY <1>1, FoundStep, TypeCorrect, PTL DEF Spec

\* What was authorised was handed down from the root by the keys and over the
\* elements that came before, no deeper than any mandate on the way allows,
\* before any of them expired, and every one of them accepts it: for chains of
\* every length, and whatever other calls did meanwhile.
THEOREM AuthorizedByEvery == Spec => []AuthorizedByEveryMandate
<1>1. CallsOK /\ Found => AuthorizedByEveryMandate
    <2> SUFFICES ASSUME CallsOK, Found, NEW k \in DOMAIN authorized
                 PROVE  LET r == authorized[k].r
                            now == authorized[k].now
                            all == elements(r.p)
                            claims == chain_claims(r)
                            closed == closed_of(r)
                            env == env_of(r, now, ledger)
                        IN  /\ all[1].signed_by = r.issuer_key
                            /\ \A i \in 2 .. Len(all) :
                                    /\ all[i].signed_by = claims[i - 1].cnf
                                    /\ all[i].made_over = all[i - 1].jwt
                            /\ \A i \in 1 .. open_count(r) :
                                    /\ open_count(r) - i <= open_of(r, i).max_depth
                                    /\ accepts_stateless(open_of(r, i), closed, env)
                                    /\ now < mandate_claims(r)[i].exp + r.v.leeway
        BY DEF AuthorizedByEveryMandate
    <2> DEFINE r == authorized[k].r
               now == authorized[k].now
    <2>1. r \in Requests /\ now \in Nat /\ vetted(r, now)
        <3>1. authorized[k] \in Decisions
            BY DEF CallsOK
        <3>2. QED  BY <3>1 DEF Found, Decisions
    <2> HIDE DEF r, now
    <2>2. /\ check_failure(r, now) = "ok" /\ mandates_failure(r, now) = "ok" /\ r.p # None
          /\ \A i \in 1 .. open_count(r) : satisfied(r, now, i)
        BY <2>1, CheckedMandates DEF vetted
    <2>3. /\ elements(r.p)[1].signed_by = r.issuer_key
          /\ \A i \in 2 .. Len(elements(r.p)) :
                /\ elements(r.p)[i].signed_by = chain_claims(r)[i - 1].cnf
                /\ elements(r.p)[i].made_over = elements(r.p)[i - 1].jwt
        BY <2>1, <2>2, CheckedChain, ElementsOf
    <2>4. ASSUME NEW i \in 1 .. open_count(r)
          PROVE  /\ open_count(r) - i <= open_of(r, i).max_depth
                 /\ accepts_stateless(open_of(r, i), closed_of(r), env_of(r, now, ledger))
                 /\ now < mandate_claims(r)[i].exp + r.v.leeway
        <3>1. /\ open_count(r) - i <= open_of(r, i).max_depth
              /\ now < mandate_claims(r)[i].exp + r.v.leeway
              /\ drafted(open_of(r, i))
            BY <2>1, <2>2, OpenOk
        <3>2. accepts_stateless(open_of(r, i), closed_of(r), env_of(r, now, ledger))
            BY <2>2, <3>1, LedgerAside DEF satisfied
        <3>3. QED  BY <3>1, <3>2
    <2>5. QED  BY <2>3, <2>4 DEF r, now
<1>2. QED  BY <1>1, FoundInvariant, TypeCorrect, PTL

-----------------------------------------------------------------------------
\* The sums a log of uses adds up to, up to its k-th entry.
sums(log, jwt, f, k) ==
    f = [m \in 0 .. k |->
            IF m = 0 THEN 0
            ELSE f[m - 1] + IF under(log[m].r, jwt) THEN paid(log[m].r) ELSE 0]

LEMMA SumsExist ==
    ASSUME NEW log, NEW jwt, NEW n \in Nat
    PROVE  \E f : sums(log, jwt, f, n)
<1> DEFINE add(m) == IF under(log[m].r, jwt) THEN paid(log[m].r) ELSE 0
           T == {k \in Nat : ~ \E f : sums(log, jwt, f, k)}
<1>1. ASSUME NEW f, NEW k \in Nat,
             \A m \in 0 .. k : f[m] = IF m = 0 THEN 0 ELSE f[m - 1] + add(m),
             f = [m \in 0 .. k |-> f[m]]
      PROVE  sums(log, jwt, f, k)
    <2> HIDE DEF add
    <2>1. f = [m \in 0 .. k |-> IF m = 0 THEN 0 ELSE f[m - 1] + add(m)]
        BY <1>1
    <2>2. QED  BY <2>1 DEF sums, add
<1>2. ASSUME NEW f, NEW k \in Nat, sums(log, jwt, f, k)
      PROVE  \A m \in 0 .. k : f[m] = IF m = 0 THEN 0 ELSE f[m - 1] + add(m)
    BY <1>2 DEF sums
<1> SUFFICES ASSUME T # {} PROVE FALSE
    OBVIOUS
<1>3. PICK k \in T : \A m \in T : k <= m
    <2>1. T \subseteq Nat  OBVIOUS
    <2>2. QED  BY <2>1, LeastNatural
<1>4. k \in Nat /\ ~ \E f : sums(log, jwt, f, k)
    OBVIOUS
<1> HIDE DEF add
<1>5. CASE k = 0
    <2> DEFINE f == [m \in 0 .. 0 |-> 0]
    <2>1. sums(log, jwt, f, 0)
        <3>1. \A m \in 0 .. 0 : f[m] = IF m = 0 THEN 0 ELSE f[m - 1] + add(m)
            OBVIOUS
        <3>2. f = [m \in 0 .. 0 |-> f[m]]
            OBVIOUS
        <3> HIDE DEF f
        <3>3. QED  BY <1>1, <3>1, <3>2
    <2>2. QED  BY <1>4, <1>5, <2>1
<1>6. CASE k # 0
    <2>1. k - 1 \in Nat /\ ~ (k <= k - 1)
        BY <1>4, <1>6
    <2>2. k - 1 \notin T
        <3> HIDE DEF T
        <3>1. QED  BY <1>3, <2>1
    <2>3. PICK g : sums(log, jwt, g, k - 1)
        BY <2>1, <2>2
    <2>4. \A m \in 0 .. k - 1 : g[m] = IF m = 0 THEN 0 ELSE g[m - 1] + add(m)
        BY <1>2, <2>1, <2>3
    <2> DEFINE f == [m \in 0 .. k |-> IF m = k THEN g[k - 1] + add(k) ELSE g[m]]
    <2>5. \A m \in 0 .. k : m # 0 => f[m - 1] = g[m - 1]
        BY <1>4
    <2>6. \A m \in 0 .. k : f[m] = IF m = 0 THEN 0 ELSE f[m - 1] + add(m)
        BY <1>4, <1>6, <2>4, <2>5
    <2>7. f = [m \in 0 .. k |-> f[m]]
        OBVIOUS
    <2> HIDE DEF f
    <2>8. QED  BY <1>1, <1>4, <2>6, <2>7
<1>7. QED  BY <1>5, <1>6

\* Logs that agree have the same sums.
LEMMA SumsAgree ==
    ASSUME NEW jwt, NEW log, NEW f, NEW k \in Nat, sums(log, jwt, f, k),
           NEW other, NEW g, NEW l \in Nat, sums(other, jwt, g, l),
           NEW n \in Nat, n <= k, n <= l, \A m \in 1 .. n : log[m] = other[m]
    PROVE  f[n] = g[n]
<1> DEFINE add(m) == IF under(log[m].r, jwt) THEN paid(log[m].r) ELSE 0
           T == {m \in Nat : m <= n /\ f[m] # g[m]}
<1>1. ASSUME NEW m \in Nat, m <= n
      PROVE  /\ f[m] = IF m = 0 THEN 0 ELSE f[m - 1] + add(m)
             /\ g[m] = IF m = 0 THEN 0 ELSE g[m - 1] + add(m)
    <2>1. m \in 0 .. k /\ m \in 0 .. l /\ (m = 0 \/ m \in 1 .. n)
        BY <1>1
    <2>2. f[m] = IF m = 0 THEN 0 ELSE f[m - 1] + add(m)
        BY <2>1 DEF sums
    <2>3. g[m] = IF m = 0 THEN 0
                 ELSE g[m - 1] + IF under(other[m].r, jwt) THEN paid(other[m].r) ELSE 0
        BY <2>1 DEF sums
    <2>4. QED  BY <2>1, <2>2, <2>3
<1> HIDE DEF add
<1> SUFFICES ASSUME T # {} PROVE FALSE
    OBVIOUS
<1>2. PICK m \in T : \A j \in T : m <= j
    <2>1. T \subseteq Nat  OBVIOUS
    <2>2. QED  BY <2>1, LeastNatural
<1>3. m \in Nat /\ m <= n /\ f[m] # g[m]
    OBVIOUS
<1>4. m # 0
    BY <1>1, <1>3
<1>5. m - 1 \in Nat /\ m - 1 <= n /\ ~(m <= m - 1)
    BY <1>3, <1>4
<1>6. m - 1 \notin T
    <2> HIDE DEF T
    <2>1. QED  BY <1>2, <1>5
<1>7. f[m - 1] = g[m - 1]
    BY <1>5, <1>6
<1>8. QED  BY <1>1, <1>3, <1>4, <1>7

LEMMA SpentIsSum ==
    ASSUME NEW log, NEW jwt, NEW n \in Nat
    PROVE  \E f : sums(log, jwt, f, n) /\ spent(log, n, jwt) = f[n]
<1> DEFINE f == CHOOSE g : sums(log, jwt, g, n)
<1>1. sums(log, jwt, f, n)
    BY SumsExist
<1>2. spent(log, n, jwt) = f[n]
    BY DEF spent, sums
<1> HIDE DEF f
<1>3. QED  BY <1>1, <1>2

\* A log says the same of its beginning however it goes on, and one entry more
\* adds what was paid under the mandate.
LEMMA SpentAgrees ==
    ASSUME NEW log, NEW other, NEW jwt, NEW n \in Nat, \A m \in 1 .. n : log[m] = other[m]
    PROVE  spent(log, n, jwt) = spent(other, n, jwt)
<1>1. PICK f : sums(log, jwt, f, n) /\ spent(log, n, jwt) = f[n]
    BY SpentIsSum
<1>2. PICK g : sums(other, jwt, g, n) /\ spent(other, n, jwt) = g[n]
    BY SpentIsSum
<1>3. n <= n
    OBVIOUS
<1>4. f[n] = g[n]
    BY <1>1, <1>2, <1>3, SumsAgree
<1>5. QED  BY <1>1, <1>2, <1>4

LEMMA SpentAdds ==
    ASSUME NEW log, NEW jwt, NEW n \in Nat
    PROVE  spent(log, n + 1, jwt) =
            spent(log, n, jwt) + IF under(log[n + 1].r, jwt) THEN paid(log[n + 1].r) ELSE 0
<1> DEFINE add(m) == IF under(log[m].r, jwt) THEN paid(log[m].r) ELSE 0
<1>1. PICK f : sums(log, jwt, f, n + 1) /\ spent(log, n + 1, jwt) = f[n + 1]
    BY SpentIsSum
<1>2. PICK g : sums(log, jwt, g, n) /\ spent(log, n, jwt) = g[n]
    BY SpentIsSum
<1>3. n + 1 \in Nat /\ n <= n + 1 /\ n <= n
    OBVIOUS
<1>4. f[n] = g[n]
    BY <1>1, <1>2, <1>3, SumsAgree
<1>5. f[n + 1] = f[n] + add(n + 1)
    <2>1. n + 1 \in 0 .. n + 1 /\ n + 1 # 0 /\ (n + 1) - 1 = n
        OBVIOUS
    <2>2. QED  BY <1>1, <2>1 DEF sums
<1>6. QED  BY <1>1, <1>2, <1>4, <1>5

LEMMA NothingSpent ==
    ASSUME NEW log, NEW jwt
    PROVE  spent(log, 0, jwt) = 0
<1>1. PICK f : sums(log, jwt, f, 0) /\ spent(log, 0, jwt) = f[0]
    BY SpentIsSum
<1>2. 0 \in 0 .. 0
    OBVIOUS
<1>3. QED  BY <1>1, <1>2 DEF sums

-----------------------------------------------------------------------------
Keys == UNION {{ledger_key(e) : e \in Range(elements(r.p))} : r \in {q \in Requests : q.p # None}}

\* A mandate's key in the ledger stands for its JWT.
LEMMA KeyOf ==
    ASSUME NEW r \in Requests, NEW now, check_failure(r, now) = "ok"
    PROVE  /\ \A i \in 1 .. open_count(r) :
                /\ open_of(r, i).ledger_key = ledger_key(mandate_elements(r)[i])
                /\ open_of(r, i).ledger_key \in Keys
                /\ open_of(r, i).ledger_key[2] = mandate_elements(r)[i].jwt
           /\ \A i \in 1 .. open_count(r) : open_of(r, i).ledger_key \in ledger_keys(r)
           /\ \A k \in Keys : k \in ledger_keys(r) <=> under(r, k[2])
<1> DEFINE n == Len(r.p.links) + 1
           f == first_mandate(r.v)
<1>1. r.p # None /\ mandate_claims(r) # <<>>
    BY CheckedChain
<1>2. /\ open_count(r) \in Nat
      /\ \A i \in 1 .. open_count(r) + 1 :
            f + i - 1 \in 1 .. n /\ mandate_elements(r)[i] = elements(r.p)[f + i - 1]
    BY <1>1, MandatesOf
<1>3. DOMAIN elements(r.p) = 1 .. n
    BY <1>1, ElementsOf
<1> HIDE DEF n, f
<1>4. ASSUME NEW i \in 1 .. open_count(r)
      PROVE  /\ open_of(r, i).ledger_key = ledger_key(mandate_elements(r)[i])
             /\ ledger_key(mandate_elements(r)[i]) \in Keys
             /\ ledger_key(mandate_elements(r)[i]) = <<"sha-256", mandate_elements(r)[i].jwt>>
    <2>1. open_of(r, i).ledger_key = ledger_key(mandate_elements(r)[i])
        BY DEF open_of, open_mandate
    <2>2. i \in 1 .. open_count(r) + 1
        BY <1>2
    <2>3. mandate_elements(r)[i] \in Range(elements(r.p))
        BY <1>2, <1>3, <2>2 DEF Range
    <2>4. ledger_key(mandate_elements(r)[i]) \in Keys
        BY <1>1, <2>3 DEF Keys
    <2>5. QED  BY <2>1, <2>4 DEF ledger_key, digest
<1>5. ASSUME NEW k \in Keys PROVE k \in ledger_keys(r) <=> under(r, k[2])
    <2>1. PICK e : k = ledger_key(e)
        BY DEF Keys
    <2>2. k = <<"sha-256", e.jwt>> /\ k[2] = e.jwt
        BY <2>1 DEF ledger_key, digest
    <2>3. \A i \in 1 .. open_count(r) :
            k = ledger_key(mandate_elements(r)[i]) <=> mandate_elements(r)[i].jwt = k[2]
        BY <1>4, <2>2
    <2>4. QED  BY <2>3 DEF ledger_keys, under
<1>6. QED  BY <1>4, <1>5 DEF ledger_keys

\* What a call knows from its look at the ledger: what was recorded by then is
\* recorded still, and left room for the payment in the budgets evaluated.
budgeted(r, pc, i, looked, log, known) ==
    /\ looked \in 0 .. Len(log)
    /\ \A j \in 1 .. open_count(r) :
        LET k == open_of(r, j).ledger_key
            before == spent(log, looked, k[2])
        IN  /\ before \in Nat /\ before <= known[k].total_minor
            /\ j \in done(r, pc, i) => \A b \in budgets(open_of(r, j)) : before + paid(r) <= b.max

past(t) == live(t) /\ call[t].pc \notin {"status", "mandates"}

Uses == [r : Requests, looked : Nat]

\* The ledger shows what the log of uses adds up to, and every call that has
\* looked at it knows its budgets.
LedgerInv ==
    /\ clock <= MaxClock
    /\ ledger = [k \in Keys |-> ledger[k]]
    /\ \A k \in Keys : ledger[k].uses \in Nat /\ ledger[k].total_minor \in Nat
    /\ uses \in Seq(Uses)
    /\ \A n \in DOMAIN uses : uses[n].looked < n
    /\ \A k \in Keys : ledger[k].total_minor = spent(uses, Len(uses), k[2])
    /\ \A t \in Threads : past(t) =>
            budgeted(call[t].r, call[t].pc, call[t].i, call[t].looked, uses, ledger)
    /\ BudgetsAreShared

\* A mandate that accepts has room for the payment in its budgets.
LEMMA BudgetHasRoom ==
    ASSUME NEW open, DOMAIN open.constraints \subseteq Nat, NEW r, NEW now, NEW known,
           accepts(open, closed_of(r), env_of(r, now, known)) = "ok",
           NEW b \in budgets(open)
    PROVE  known[open.ledger_key].total_minor + paid(r) <= b.max
<1> DEFINE env == env_of(r, now, known)
           closed == closed_of(r)
           key == open.ledger_key
<1>1. PICK i \in DOMAIN open.constraints : b = open.constraints[i] /\ b.type = "payment.budget"
    BY DEF budgets, Range
<1>2. evaluate(b, closed, env, key) = "ok"
    BY <1>1, AcceptsMeansEveryConstraint
<1>3. env.ledger = IF r.v.has_ledger THEN known ELSE None
    BY DEF env_of
<1> HIDE DEF env, closed
<1>4. family(b) = "payment"
    BY <1>1 DEF family
<1>5. closed.family = "payment" /\ budget(b, closed.claims, env.ledger, key) = "ok"
    BY <1>1, <1>2, <1>4 DEF evaluate
<1>6. paid(r) = closed.claims.payment_amount.minor
    BY <1>5 DEF paid, closed
<1>7. QED  BY <1>3, <1>5, <1>6 DEF budget, usage, ok_if

LEMMA KeptBudgets ==
    ASSUME CallsOK, LedgerInv, NEW t \in Threads, live(t), NEW pc, NEW i, kept(t, pc, i),
           clock' = clock, ledger' = ledger, uses' = uses,
           pc \notin {"status", "mandates"} =>
                budgeted(call[t].r, pc, i, call'[t].looked, uses, ledger)
    PROVE  LedgerInv'
<1>1. ASSUME NEW u \in Threads, u # t
      PROVE  past(u)' = past(u) /\ call'[u] = call[u]
    BY <1>1 DEF kept, past, live, At
<1>2. past(t)' => budgeted(call'[t].r, call'[t].pc, call'[t].i, call'[t].looked, uses, ledger)
    BY DEF kept, past
<1>3. BudgetsAreShared'
    BY DEF LedgerInv, BudgetsAreShared
<1>4. QED  BY <1>1, <1>2, <1>3 DEF LedgerInv

LEMMA OverBudgets ==
    ASSUME CallsOK, LedgerInv, NEW t \in Threads, ~past(t)',
           \A u \in Threads : u # t => call'[u] = call[u],
           clock' = clock, ledger' = ledger, uses' = uses
    PROVE  LedgerInv'
<1>1. ASSUME NEW u \in Threads, u # t
      PROVE  past(u)' = past(u) /\ call'[u] = call[u]
    BY <1>1 DEF past, live, At
<1>2. BudgetsAreShared'
    BY DEF LedgerInv, BudgetsAreShared
<1>3. QED  BY <1>1, <1>2 DEF LedgerInv

LEMMA DecideBudgets ==
    ASSUME CallsOK, LedgerInv, NEW t \in Threads, live(t), NEW reason, Decide(t, reason),
           reason = "ok" => At(t, "nonce"),
           clock' = clock, ledger' = ledger, uses' = uses
    PROVE  LedgerInv'
<1>1. CASE reason = "ok"
    <2>1. kept(t, "sign", call[t].i) /\ call'[t].looked = call[t].looked
        BY <1>1, DecideKeeps
    <2>2. budgeted(call[t].r, "nonce", call[t].i, call[t].looked, uses, ledger)
        BY <1>1 DEF LedgerInv, past, At
    <2>3. done(call[t].r, "sign", call[t].i) = done(call[t].r, "nonce", call[t].i)
        BY DEF done
    <2>4. budgeted(call[t].r, "sign", call[t].i, call'[t].looked, uses, ledger)
        BY <2>1, <2>2, <2>3 DEF budgeted
    <2>5. QED  BY <2>1, <2>4, KeptBudgets
<1>2. CASE reason # "ok"
    <2>1. ~past(t)' /\ \A u \in Threads : u # t => call'[u] = call[u]
        BY <1>2, DecideKeeps, RejectedIsOver DEF past
    <2>2. QED  BY <2>1, OverBudgets
<1>3. QED  BY <1>1, <1>2

LEMMA LookBudgets ==
    ASSUME CallsOK, Found, LedgerInv, NEW t \in Threads, CheckMandates(t) PROVE LedgerInv'
<1> DEFINE r == call[t].r
           now == call[t].now
           failure == mandates_failure(r, now)
<1>1. /\ live(t) /\ At(t, "mandates") /\ r \in Requests
      /\ clock' = clock /\ ledger' = ledger /\ uses' = uses
    BY DEF CheckMandates, live, At, CallsOK
<1>2. check_failure(r, now) = "ok"
    BY <1>1 DEF Found, found
<1>3. CASE failure # "ok"
    <2>1. Decide(t, failure)
        BY <1>3 DEF CheckMandates
    <2>2. QED  BY <1>1, <1>3, <2>1, DecideBudgets
<1>4. CASE failure = "ok"
    <2>1. kept(t, "evaluate", 1) /\ call'[t].looked = Len(uses)
        BY <1>1, <1>4, LookKeeps DEF CheckMandates
    <2>2. ASSUME NEW j \in 1 .. open_count(r)
          PROVE  /\ spent(uses, Len(uses), open_of(r, j).ledger_key[2]) \in Nat
                 /\ spent(uses, Len(uses), open_of(r, j).ledger_key[2])
                        = ledger[open_of(r, j).ledger_key].total_minor
                 /\ j \notin done(r, "evaluate", 1)
        <3>1. open_of(r, j).ledger_key \in Keys
            BY <1>1, <1>2, KeyOf
        <3>2. ~(j < 1)
            BY <1>1, <1>2, CheckedMandates
        <3>3. QED  BY <3>1, <3>2 DEF LedgerInv, done
    <2>3. Len(uses) \in 0 .. Len(uses)
        BY DEF LedgerInv
    <2>4. budgeted(r, "evaluate", 1, Len(uses), uses, ledger)
        <3> HIDE DEF r
        <3>1. QED  BY <2>2, <2>3 DEF budgeted
    <2>5. QED  BY <1>1, <2>1, <2>4, KeptBudgets
<1>5. QED  BY <1>3, <1>4

LEMMA EvaluateBudgets ==
    ASSUME CallsOK, Found, LedgerInv, NEW t \in Threads, EvaluateLink(t) PROVE LedgerInv'
<1> DEFINE r == call[t].r
           now == call[t].now
           i == call[t].i
           n == open_count(r)
           looked == call[t].looked
           answer == accepts(open_of(r, i), closed_of(r), env_of(r, now, ledger))
<1>1. /\ live(t) /\ At(t, "evaluate") /\ r \in Requests /\ now \in Nat
      /\ clock' = clock /\ ledger' = ledger /\ uses' = uses
    BY DEF EvaluateLink, live, At, CallsOK
<1>2. /\ check_failure(r, now) = "ok" /\ mandates_failure(r, now) = "ok" /\ i \in 1 .. n + 1
    BY <1>1 DEF Found, found, At
<1>3. n \in Nat
    BY <1>1, <1>2, CheckedMandates
<1>4. budgeted(r, "evaluate", i, looked, uses, ledger)
    BY <1>1 DEF LedgerInv, past, At
<1>5. CASE i > n
    <2>1. kept(t, "nonce", 1) /\ call'[t].looked = looked
        BY <1>1, <1>5, GotoKeeps DEF EvaluateLink
    <2>2. \A j \in 1 .. n : j < i
        <3> HIDE DEF r, i, n
        <3>1. QED  BY <1>2, <1>3, <1>5
    <2>3. \A j \in 1 .. n : j \in done(r, "evaluate", i)
        BY <2>2 DEF done
    <2>4. budgeted(r, "nonce", 1, call'[t].looked, uses, ledger)
        BY <1>4, <2>1, <2>3 DEF budgeted
    <2>5. QED  BY <1>1, <2>1, <2>4, KeptBudgets
<1>6. CASE ~(i > n) /\ answer # "ok"
    <2>1. \E reason : reason # "ok" /\ Decide(t, reason)
        BY <1>6 DEF EvaluateLink
    <2>2. QED  BY <1>1, <2>1, DecideBudgets
<1>7. CASE ~(i > n) /\ answer = "ok"
    <2>1. kept(t, "evaluate", i + 1) /\ call'[t].looked = looked
        <3>1. Goto(t, "evaluate", i + 1)
            BY <1>7 DEF EvaluateLink
        <3>2. QED  BY <1>1, <3>1, GotoKeeps
    <2>2. i \in 1 .. n /\ \A j \in 1 .. n : j < i + 1 => j < i \/ j = i
        <3> HIDE DEF r, i, n, answer
        <3>1. QED  BY <1>2, <1>3, <1>7
    <2>3. \A b \in budgets(open_of(r, i)) :
            spent(uses, looked, open_of(r, i).ledger_key[2]) + paid(r) <= b.max
        <3> DEFINE k == open_of(r, i).ledger_key
                   before == spent(uses, looked, k[2])
                   recorded == ledger[k].total_minor
                   payment == paid(r)
        <3>1. /\ DOMAIN open_of(r, i).constraints \subseteq Nat
              /\ \A b \in budgets(open_of(r, i)) : b.max \in Nat
            BY <1>1, <1>2, <2>2, OpenOk
        <3>2. \A b \in budgets(open_of(r, i)) : recorded + payment <= b.max
            BY <1>7, <3>1, BudgetHasRoom
        <3>3. before \in Nat /\ before <= recorded /\ payment \in Nat /\ recorded \in Nat
            <4>1. before \in Nat /\ before <= recorded
                BY <1>4, <2>2 DEF budgeted
            <4>2. k \in Keys
                BY <1>1, <1>2, <2>2, KeyOf
            <4>3. QED  BY <1>1, <1>2, <4>1, <4>2, PaidIsNat DEF LedgerInv
        <3> HIDE DEF before, recorded, payment
        <3>4. \A b \in budgets(open_of(r, i)) : before + payment <= b.max
            <4> DEFINE B == budgets(open_of(r, i))
            <4> HIDE DEF B
            <4>1. QED  BY <3>1, <3>2, <3>3 DEF B
        <3>5. QED  BY <3>4 DEF before, payment
    <2>4. \A j \in done(r, "evaluate", i + 1) : j \in done(r, "evaluate", i) \/ j = i
        BY <2>2 DEF done
    <2>5. budgeted(r, "evaluate", i + 1, looked, uses, ledger)
        <3> HIDE DEF r, i, looked, answer, n
        <3>1. QED  BY <1>4, <2>3, <2>4 DEF budgeted
    <2>6. QED  BY <1>1, <2>1, <2>5, KeptBudgets
<1>8. QED  BY <1>5, <1>6, <1>7

LEMMA SignBudgets ==
    ASSUME CallsOK, LedgerInv, NEW t \in Threads, Sign(t) PROVE LedgerInv'
<1>1. clock' = clock /\ ledger' = ledger /\ uses' = uses
    BY DEF Sign
<1>2. CASE call' = [call EXCEPT ![t] = Idle]
    <2>1. ~past(t)' /\ \A u \in Threads : u # t => call'[u] = call[u]
        BY <1>2, IdleEnds DEF past
    <2>2. QED  BY <1>1, <2>1, OverBudgets
<1>3. CASE call' = [call EXCEPT ![t].pc = "record"] /\ call[t].reason = "ok"
    <2>1. live(t) /\ past(t) /\ At(t, "sign")
        BY <1>3 DEF Sign, live, past, At
    <2>2. kept(t, "record", call[t].i) /\ call'[t].looked = call[t].looked
        BY <1>3, <2>1, RecordKeeps
    <2>3. budgeted(call[t].r, "sign", call[t].i, call[t].looked, uses, ledger)
        BY <2>1 DEF LedgerInv, At
    <2>4. done(call[t].r, "record", call[t].i) = done(call[t].r, "sign", call[t].i)
        BY DEF done
    <2>5. budgeted(call[t].r, "record", call[t].i, call'[t].looked, uses, ledger)
        BY <2>2, <2>3, <2>4 DEF budgeted
    <2>6. QED  BY <1>1, <2>1, <2>2, <2>5, KeptBudgets
<1>4. QED  BY <1>2, <1>3 DEF Sign

\* A use that is recorded only adds to what the ledger shows, and changes
\* nothing of what was there when another call looked.
LEMMA RecordBudgets ==
    ASSUME CallsOK, Found, LedgerInv, NEW t \in Threads, Record(t) PROVE LedgerInv'
<1> DEFINE r == call[t].r
           now == call[t].now
           looked == call[t].looked
           n == Len(uses)
           use == [r |-> r, looked |-> looked]
<1>1. live(t) /\ past(t) /\ At(t, "record") /\ r \in Requests /\ now \in Nat
    BY DEF Record, live, past, At, CallsOK
<1>2. check_failure(r, now) = "ok" /\ mandates_failure(r, now) = "ok"
    BY <1>1 DEF Found, found, At
<1>3. open_count(r) \in Nat /\ paid(r) \in Nat
    BY <1>1, <1>2, CheckedMandates, PaidIsNat
<1>4. /\ budgeted(r, "record", call[t].i, looked, uses, ledger)
      /\ \A j \in 1 .. open_count(r) : j \in done(r, "record", call[t].i)
    BY <1>1 DEF LedgerInv, At, done
<1>5. /\ clock' = clock /\ uses' = Append(uses, use) /\ call' = [call EXCEPT ![t] = Idle]
      /\ ledger' = [k \in DOMAIN ledger |->
                IF k \notin ledger_keys(r) THEN ledger[k]
                ELSE [total_minor |-> ledger[k].total_minor + paid(r),
                      uses |-> ledger[k].uses + 1, last_use |-> now]]
    BY DEF Record
<1>6. DOMAIN ledger = Keys
    BY DEF LedgerInv
<1>7. /\ \A k \in Keys : k \in ledger_keys(r) <=> under(r, k[2])
      /\ \A i \in 1 .. open_count(r) :
            /\ open_of(r, i).ledger_key \in Keys
            /\ open_of(r, i).ledger_key[2] = mandate_elements(r)[i].jwt
            /\ open_of(r, i).ledger_key \in ledger_keys(r)
    BY <1>1, <1>2, KeyOf
<1>8. use.r = r /\ use.looked = looked /\ use \in Uses /\ looked \in 0 .. n
    <2>1. looked \in 0 .. n /\ looked \in Nat
        BY <1>4 DEF budgeted, LedgerInv
    <2>2. QED  BY <1>1, <2>1 DEF Uses
<1> HIDE DEF r, now, looked, use
<1>9. /\ uses' \in Seq(Uses) /\ n \in Nat /\ Len(uses') = n + 1
      /\ DOMAIN uses = 1 .. n /\ DOMAIN uses' = 1 .. n + 1
      /\ uses'[n + 1] = use
      /\ \A m \in 1 .. n : uses'[m] = uses[m]
    BY <1>5, <1>8, AppendProperties DEF LedgerInv
<1> HIDE DEF n
<1>10. /\ ledger' = [k \in Keys |-> ledger'[k]]
       /\ \A k \in Keys : ledger[k].uses \in Nat /\ ledger[k].total_minor \in Nat
       /\ \A k \in Keys : k \notin ledger_keys(r) => ledger'[k] = ledger[k]
       /\ \A k \in Keys : k \in ledger_keys(r) =>
                /\ ledger'[k].total_minor = ledger[k].total_minor + paid(r)
                /\ ledger'[k].uses = ledger[k].uses + 1
    BY <1>5, <1>6 DEF LedgerInv
<1>11. \A k \in Keys : ledger'[k].uses \in Nat /\ ledger'[k].total_minor \in Nat
    BY <1>3, <1>10
<1>12. ASSUME NEW jwt, NEW m \in 0 .. n PROVE spent(uses', m, jwt) = spent(uses, m, jwt)
    <2>1. m \in Nat /\ \A j \in 1 .. m : uses'[j] = uses[j]
        BY <1>9
    <2>2. QED  BY <2>1, SpentAgrees
<1>13. ASSUME NEW jwt
       PROVE  spent(uses', n + 1, jwt) = spent(uses, n, jwt) + IF under(r, jwt) THEN paid(r) ELSE 0
    <2>1. spent(uses', n, jwt) = spent(uses, n, jwt)
        BY <1>9, <1>12
    <2>2. spent(uses', n + 1, jwt) =
            spent(uses', n, jwt)
              + IF under(uses'[n + 1].r, jwt) THEN paid(uses'[n + 1].r) ELSE 0
        BY <1>9, SpentAdds
    <2>3. QED  BY <1>8, <1>9, <2>1, <2>2
<1>14. \A k \in Keys : ledger[k].total_minor = spent(uses, n, k[2])
    BY DEF LedgerInv, n
<1>15. ASSUME NEW k \in Keys PROVE ledger'[k].total_minor = spent(uses', Len(uses'), k[2])
    <2>1. CASE k \in ledger_keys(r)
        BY <1>7, <1>9, <1>10, <1>13, <1>14, <2>1
    <2>2. CASE k \notin ledger_keys(r)
        <3>1. ledger'[k].total_minor = ledger[k].total_minor
            BY <1>10, <2>2
        <3>2. spent(uses', n + 1, k[2]) = ledger[k].total_minor + 0
            BY <1>7, <1>13, <1>14, <2>2
        <3>3. QED  BY <1>9, <1>10, <3>1, <3>2
    <2>3. QED  BY <2>1, <2>2
<1>16. ASSUME NEW u \in Threads, past(u)'
       PROVE  budgeted(call'[u].r, call'[u].pc, call'[u].i, call'[u].looked, uses', ledger')
    <2>1. u # t /\ call'[u] = call[u] /\ past(u)
        BY <1>5, <1>16, IdleEnds DEF past, live, At
    <2> DEFINE c == call[u]
    <2>2. budgeted(c.r, c.pc, c.i, c.looked, uses, ledger)
        BY <2>1 DEF LedgerInv
    <2>3. c.r \in Requests /\ check_failure(c.r, c.now) = "ok"
        BY <2>1 DEF CallsOK, past, Found, found
    <2>4. \A j \in 1 .. open_count(c.r) : open_of(c.r, j).ledger_key \in Keys
        BY <2>3, KeyOf
    <2> HIDE DEF c
    <2>5. c.looked \in 0 .. n /\ c.looked \in 0 .. n + 1
        BY <1>9, <2>2 DEF budgeted, n
    <2>6. ASSUME NEW j \in 1 .. open_count(c.r), NEW k, k = open_of(c.r, j).ledger_key
          PROVE  /\ spent(uses', c.looked, k[2]) = spent(uses, c.looked, k[2])
                 /\ spent(uses, c.looked, k[2]) <= ledger'[k].total_minor
        <3> DEFINE before == spent(uses, c.looked, k[2])
        <3>1. k \in Keys /\ before \in Nat /\ before <= ledger[k].total_minor
            BY <2>2, <2>4, <2>6 DEF budgeted
        <3>2. spent(uses', c.looked, k[2]) = before
            BY <1>12, <2>5
        <3> HIDE DEF before
        <3>3. ledger'[k].total_minor = ledger[k].total_minor
              \/ ledger'[k].total_minor = ledger[k].total_minor + paid(r)
            BY <1>10, <3>1
        <3>4. before <= ledger'[k].total_minor
            BY <1>3, <1>10, <3>1, <3>3
        <3>5. QED  BY <3>2, <3>4 DEF before
    <2>7. budgeted(c.r, c.pc, c.i, c.looked, uses', ledger')
        BY <1>9, <2>2, <2>5, <2>6 DEF budgeted
    <2>8. QED  BY <2>1, <2>7 DEF c
<1>17. BudgetsAreShared'
    <2> SUFFICES ASSUME NEW m \in DOMAIN uses', NEW i \in 1 .. open_count(uses'[m].r),
                        NEW b \in budgets(open_of(uses'[m].r, i))
                 PROVE  spent(uses', uses'[m].looked, mandate_elements(uses'[m].r)[i].jwt)
                            + paid(uses'[m].r) <= b.max
        BY DEF BudgetsAreShared
    <2>1. CASE m \in 1 .. n
        <3>1. uses'[m] = uses[m] /\ m \in DOMAIN uses /\ uses[m].looked \in 0 .. n
            <4>1. uses'[m] = uses[m] /\ m \in DOMAIN uses
                BY <1>9, <2>1
            <4>2. uses[m] \in Uses /\ uses[m].looked < m
                BY <4>1 DEF LedgerInv
            <4>3. uses[m].looked \in 0 .. n
                BY <1>9, <2>1, <4>2 DEF Uses
            <4>4. QED  BY <4>1, <4>3
        <3>2. spent(uses, uses[m].looked, mandate_elements(uses[m].r)[i].jwt)
                + paid(uses[m].r) <= b.max
            BY <3>1 DEF LedgerInv, BudgetsAreShared
        <3>3. QED  BY <1>12, <3>1, <3>2
    <2>2. CASE m = n + 1
        <3> DEFINE k == open_of(r, i).ledger_key
        <3>1. i \in 1 .. open_count(r) /\ b \in budgets(open_of(r, i))
            BY <1>8, <1>9, <2>2
        <3>2. k[2] = mandate_elements(r)[i].jwt
            BY <1>7, <3>1
        <3>3. spent(uses, looked, k[2]) + paid(r) <= b.max
            BY <1>4, <3>1 DEF budgeted
        <3>4. spent(uses', looked, k[2]) = spent(uses, looked, k[2])
            BY <1>8, <1>12
        <3> HIDE DEF k
        <3>5. QED  BY <1>8, <1>9, <2>2, <3>2, <3>3, <3>4
    <2>3. QED  BY <1>9, <2>1, <2>2
<1>18. clock' <= MaxClock
    BY <1>5 DEF LedgerInv
<1>19. \A m \in DOMAIN uses' : uses'[m].looked < m
    <2>1. \A m \in 1 .. n : uses[m].looked < m
        BY <1>9 DEF LedgerInv
    <2>2. uses'[n + 1].looked < n + 1
        BY <1>8, <1>9
    <2>3. QED  BY <1>9, <2>1, <2>2
<1>20. QED  BY <1>9, <1>10, <1>11, <1>15, <1>16, <1>17, <1>18, <1>19 DEF LedgerInv

LEMMA LedgerStep == CallsOK /\ Found /\ LedgerInv /\ [Next]_vars => LedgerInv'
<1> SUFFICES ASSUME CallsOK, Found, LedgerInv, [Next]_vars PROVE LedgerInv'
    OBVIOUS
<1>1. ASSUME NEW t \in Threads, NEW r \in Requests, Verify(t, r) PROVE LedgerInv'
    <2>1. clock' = clock /\ ledger' = ledger /\ uses' = uses
        BY <1>1 DEF Verify
    <2>2. ~past(t)' /\ \A u \in Threads : u # t => call'[u] = call[u]
        <3>1. CASE \E reason : reason # "ok" /\ call'[t] = Rejected(reason)
            BY <1>1, <3>1, VerifyStarts, RejectedIsOver DEF past
        <3>2. CASE call'[t].pc = "status"
            BY <1>1, <3>2, VerifyStarts DEF past
        <3>3. \/ \E reason : reason # "ok" /\ call'[t] = Rejected(reason)
              \/ call'[t] = [pc |-> "status", r |-> r, now |-> clock, i |-> 1, reason |-> "none",
                             revoked |-> {s \in StatusRefs : status[s] # "Valid"},
                             looked |-> None]
            BY <1>1, VerifyStarts
        <3>4. QED  BY <3>1, <3>2, <3>3
    <2>3. QED  BY <2>1, <2>2, OverBudgets
<1>2. ASSUME NEW t \in Threads, CheckStatus(t) PROVE LedgerInv'
    <2>1. live(t) /\ clock' = clock /\ ledger' = ledger /\ uses' = uses
        BY <1>2 DEF CheckStatus, live, At
    <2>2. \/ \E reason : reason # "ok" /\ Decide(t, reason)
          \/ Goto(t, "status", call[t].i + 1) \/ Goto(t, "mandates", 1)
        BY <1>2 DEF CheckStatus
    <2>3. \/ \E reason : reason # "ok" /\ Decide(t, reason)
          \/ kept(t, "status", call[t].i + 1) \/ kept(t, "mandates", 1)
        BY <2>1, <2>2, GotoKeeps
    <2>4. QED  BY <2>1, <2>3, DecideBudgets, KeptBudgets
<1>3. ASSUME NEW t \in Threads, CheckNonce(t) PROVE LedgerInv'
    <2>1. live(t) /\ At(t, "nonce") /\ clock' = clock /\ ledger' = ledger /\ uses' = uses
        BY <1>3 DEF CheckNonce, live, At
    <2>2. \E reason : Decide(t, reason)
        BY <1>3 DEF CheckNonce
    <2>3. QED  BY <2>1, <2>2, DecideBudgets
<1>4. ASSUME call' = call, ledger' = ledger, uses' = uses, clock' <= MaxClock PROVE LedgerInv'
    <2>1. BudgetsAreShared'
        BY <1>4 DEF LedgerInv, BudgetsAreShared
    <2>2. \A t \in Threads : past(t)' = past(t)
        BY <1>4 DEF past, live, At
    <2>3. QED  BY <1>4, <2>1, <2>2 DEF LedgerInv
<1>5. (\E s \in StatusRefs : Revoke(s)) \/ Tick \/ UNCHANGED vars
        => call' = call /\ ledger' = ledger /\ uses' = uses /\ clock' <= MaxClock
    <2>1. clock \in Nat /\ MaxClock \in Nat /\ clock <= MaxClock
        BY CallsAssumption DEF CallsOK, LedgerInv
    <2>2. QED  BY <2>1 DEF Revoke, Tick, vars
<1>6. QED
    BY <1>1, <1>2, <1>3, <1>4, <1>5, LookBudgets, EvaluateBudgets, SignBudgets, RecordBudgets
    DEF Next, Step

LEMMA LedgerStart == Init => LedgerInv
<1> SUFFICES ASSUME Init PROVE LedgerInv
    OBVIOUS
<1>1. clock = 0 /\ uses = <<>> /\ ledger = [k \in Keys |-> NoUsage]
    BY DEF Init, Keys
<1>2. \A t \in Threads : ~past(t)
    BY DEF Init, past, live, At, Idle
<1>3. \A k \in Keys : ledger[k].uses = 0 /\ ledger[k].total_minor = 0
    BY <1>1 DEF NoUsage
<1>4. Len(uses) = 0 /\ uses \in Seq(Uses) /\ DOMAIN uses = {}
    BY <1>1
<1>5. \A k \in Keys : ledger[k].total_minor = spent(uses, Len(uses), k[2])
    BY <1>3, <1>4, NothingSpent
<1>6. BudgetsAreShared
    BY <1>4 DEF BudgetsAreShared
<1>7. clock <= MaxClock
    BY <1>1, CallsAssumption
<1>8. QED  BY <1>1, <1>2, <1>3, <1>4, <1>5, <1>6, <1>7 DEF LedgerInv

LEMMA LedgerInvariant == Spec => []LedgerInv
BY LedgerStart, LedgerStep, FoundInvariant, TypeCorrect, PTL DEF Spec

\* Every payment fits into each budget of each link, together with all that was
\* recorded under that mandate before the call looked, through whichever agents
\* and with whatever of it disclosed: the ledger's key is the signed JWT.
THEOREM BudgetsAreSharedTheorem == Spec => []BudgetsAreShared
<1>1. LedgerInv => BudgetsAreShared
    BY DEF LedgerInv
<1>2. QED  BY <1>1, LedgerInvariant, PTL

\* Every call is where its program counter says and has passed what lies
\* before it; the nonce store remembers what it must and the ledger what was
\* spent.
THEOREM CallsInvariant == Spec => []CallsInv
<1>1. CallsOK /\ LedgerInv => TypeOK
    <2> SUFFICES ASSUME CallsOK, LedgerInv PROVE TypeOK
        OBVIOUS
    <2>1. clock \in 0 .. MaxClock
        BY CallsAssumption DEF CallsOK, LedgerInv
    <2>2. \A k \in DOMAIN ledger : ledger[k].uses \in Nat /\ ledger[k].total_minor \in Nat
        <3>1. DOMAIN ledger = Keys
            BY DEF LedgerInv
        <3>2. QED  BY <3>1 DEF LedgerInv
    <2>3. \A t \in Threads : live(t) => call[t].r \in Requests /\ call[t].now \in 0 .. clock
        BY DEF CallsOK
    <2>4. QED  BY <2>1, <2>2, <2>3 DEF TypeOK, CallsOK
<1>2. CallsOK /\ Found => ChecksPassed
    <2> SUFFICES ASSUME CallsOK, Found, NEW t \in Threads, live(t) PROVE passed(call[t])
        BY DEF ChecksPassed
    <2> DEFINE c == call[t]
    <2>1. c.r \in Requests /\ c.now \in Nat /\ found(c.r, c.now, c.pc, c.i)
        BY DEF CallsOK, Found
    <2> HIDE DEF c
    <2>2. evaluated(c) = done(c.r, c.pc, c.i)
        BY DEF evaluated, done, past_mandates
    <2>3. ASSUME NEW i \in evaluated(c)
          PROVE  accepts_stateless(open_of(c.r, i), closed_of(c.r), env_of(c.r, c.now, ledger))
        <3>1. /\ satisfied(c.r, c.now, i) /\ i \in 1 .. open_count(c.r)
              /\ check_failure(c.r, c.now) = "ok" /\ mandates_failure(c.r, c.now) = "ok"
            BY <2>1, <2>2 DEF found, done
        <3>2. drafted(open_of(c.r, i))
            BY <2>1, <3>1, OpenOk
        <3>3. QED  BY <3>1, <3>2, LedgerAside DEF satisfied
    <2>4. /\ check_failure(c.r, c.now) = "ok"
          /\ c.pc = "status" => c.i \in 1 .. Len(chain_claims(c.r))
          /\ c.pc = "evaluate" => c.i \in 1 .. open_count(c.r) + 1
          /\ past_mandates(c) => mandates_failure(c.r, c.now) = "ok"
        BY <2>1 DEF found, past_mandates
    <2>5. passed(c)
        BY <2>3, <2>4 DEF passed
    <2>6. QED  BY <2>5 DEF c
<1>3. CallsOK /\ Found /\ LedgerInv => LedgerIsTrue
    <2> SUFFICES ASSUME CallsOK, Found, LedgerInv PROVE LedgerIsTrue
        OBVIOUS
    <2>1. \A k \in DOMAIN ledger : ledger[k].total_minor = spent(uses, Len(uses), k[2])
        <3>1. DOMAIN ledger = Keys
            BY DEF LedgerInv
        <3>2. QED  BY <3>1 DEF LedgerInv
    <2>2. ASSUME NEW t \in Threads, live(t), past_mandates(call[t]) PROVE in_order(call[t])
        <3> DEFINE c == call[t]
        <3>1. budgeted(c.r, c.pc, c.i, c.looked, uses, ledger)
            BY <2>2 DEF LedgerInv, past, past_mandates
        <3> HIDE DEF c
        <3>2. evaluated(c) = done(c.r, c.pc, c.i)
            BY DEF evaluated, done, past_mandates
        <3>3. in_order(c)
            BY <3>1, <3>2 DEF in_order, budgeted
        <3>4. QED  BY <3>3 DEF c
    <2>3. QED  BY <2>1, <2>2 DEF LedgerIsTrue
<1>4. CallsOK /\ Found /\ LedgerInv /\ ReplayInv => CallsInv
    BY <1>1, <1>2, <1>3 DEF CallsInv
<1>5. QED
    BY <1>4, FoundInvariant, LedgerInvariant, ReplayInvariant, TypeCorrect, PTL
=============================================================================
