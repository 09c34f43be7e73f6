-------------------------- MODULE Dockerfile_proofs -------------------------
(***************************************************************************)
(* What a rewriting of a Dockerfile, line by line, does to what Docker and *)
(* verify_shim_wiring.py make of it, for Dockerfiles of any length over    *)
(* any vocabulary.  ImageFiles_proofs draws the theorems from it.          *)
(***************************************************************************)
EXTENDS ShimWiring, TLAPS, WellFoundedInduction, SequenceTheorems

-----------------------------------------------------------------------------
(* Sequences and what a rewriting makes of them.                           *)

\* A nonempty set of numbers has a least element.
LEMMA LeastNatural ==
    ASSUME NEW T, T \subseteq Nat, T # {}
    PROVE  \E x \in T : \A y \in T : x <= y
<1>1. \E R : /\ IsWellFoundedOn(R, Nat)
             /\ \A m, n \in Nat : m < n => <<m, n>> \in R
    <2>1. \A m, n \in Nat : m < n => <<m, n>> \in OpToRel(<, Nat)
        BY DEF OpToRel
    <2> QED
        BY <2>1, NatLessThanWellFounded
<1>2. PICK R : /\ IsWellFoundedOn(R, Nat)
               /\ \A m, n \in Nat : m < n => <<m, n>> \in R
    BY <1>1
<1>3. IsWellFoundedOn(R, Nat)
    BY <1>2
<1>4. \E x \in T : \A y \in T : ~ (<<y, x>> \in R)
    BY <1>3, WFMin, Zenon
<1>5. ASSUME NEW x \in T, NEW y \in T, ~ (<<y, x>> \in R)
      PROVE  x <= y
    BY <1>2, <1>5
<1> QED
    BY <1>4, <1>5

\* A number above i and below j is in the interval between them.
LEMMA Between ==
    ASSUME NEW i \in Nat, NEW a \in Nat, NEW j \in Nat, i < a, a < j
    PROVE  a \in (i + 1)..(j - 1)
OBVIOUS

\* Positions a and i, in the order of the lines and of what is written for them,
\* cannot each come before the other.
LEMMA NothingBetween ==
    ASSUME NEW i \in Nat, NEW a \in Nat, NEW k \in Nat, NEW c \in Nat,
           i < a \/ (i = a /\ k < c), a < i \/ (a = i /\ c < k + 1)
    PROVE  FALSE
OBVIOUS

\* Induction over a set of numbers.
LEMMA Induction ==
    ASSUME NEW T, 0 \in T, \A n \in Nat : n \in T => n + 1 \in T
    PROVE  \A n \in Nat : n \in T
<1> SUFFICES ASSUME NEW n \in Nat, n \notin T PROVE FALSE
    OBVIOUS
<1> DEFINE missing == {m \in Nat : m \notin T}
<1>1. PICK least \in missing : \A m \in missing : least <= m
    <2>1. missing \subseteq Nat /\ missing # {}
        OBVIOUS
    <2> HIDE DEF missing
    <2> QED
        BY <2>1, LeastNatural
<1>2. least - 1 \in Nat /\ least - 1 \notin missing
    BY <1>1
<1> QED
    BY <1>1, <1>2

\* The greatest of some line numbers is among them.
LEMMA MaxLine ==
    ASSUME NEW n \in Nat, NEW T \in SUBSET (1..n), T # {}
    PROVE  Max(T) \in T /\ \A x \in T : x <= Max(T)
<1> DEFINE bounds == {m \in Nat : \A x \in T : x <= m}
<1>1. PICK least \in bounds : \A m \in bounds : least <= m
    <2>1. n \in bounds
        OBVIOUS
    <2>2. bounds \subseteq Nat /\ bounds # {}
        BY <2>1
    <2> HIDE DEF bounds
    <2> QED
        BY <2>2, LeastNatural
<1>2. least \in T
    <2> SUFFICES ASSUME least \notin T PROVE FALSE
        OBVIOUS
    <2>1. PICK y \in T : TRUE
        OBVIOUS
    <2>2. y \in Nat /\ y <= least /\ y # least
        BY <1>1
    <2>3. \A x \in T : x <= least - 1
        BY <1>1
    <2>4. least - 1 \in bounds
        BY <1>1, <2>2, <2>3
    <2> QED
        BY <1>1, <2>4
<1>3. \E x \in T : \A y \in T : x >= y
    BY <1>1, <1>2
<1> QED
    BY <1>3 DEF Max

\* The least of some line numbers is among them.
LEMMA MinLine ==
    ASSUME NEW n \in Nat, NEW T \in SUBSET (1..n), T # {}
    PROVE  Min(T) \in T /\ \A x \in T : Min(T) <= x
<1>1. T \subseteq Nat
    OBVIOUS
<1>2. \E x \in T : \A y \in T : x <= y
    BY <1>1, LeastNatural
<1> QED
    BY <1>2 DEF Min

\* The elements of a concatenation are those of s, then those of t.
LEMMA Concatenated ==
    ASSUME NEW S, NEW s \in Seq(S), NEW t \in Seq(S)
    PROVE  /\ s \o t \in Seq(S)
           /\ Len(s \o t) = Len(s) + Len(t)
           /\ \A w \in 1..Len(s) : (s \o t)[w] = s[w]
           /\ \A k \in 1..Len(t) : (s \o t)[Len(s) + k] = t[k]
<1> DEFINE m == Len(s)
           n == Len(t)
<1>1. m \in Nat /\ n \in Nat
    OBVIOUS
<1>2. /\ s \o t \in Seq(S) /\ Len(s \o t) = m + n
      /\ \A w \in 1..(m + n) : (s \o t)[w] = IF w <= m THEN s[w] ELSE t[w - m]
    BY ConcatProperties
<1> HIDE DEF m, n
<1>3. ASSUME NEW w \in 1..m PROVE (s \o t)[w] = s[w]
    <2>1. w \in 1..(m + n) /\ w <= m
        BY <1>1
    <2> QED
        BY <1>2, <2>1
<1>4. ASSUME NEW k \in 1..n PROVE (s \o t)[m + k] = t[k]
    <2>1. m + k \in 1..(m + n) /\ ~ (m + k <= m) /\ (m + k) - m = k
        BY <1>1
    <2> QED
        BY <1>2, <2>1
<1> QED
    BY <1>2, <1>3, <1>4 DEF m, n

\* g is the elements of piece one after the other: piece[i] from start[i] on.
LaidOut(g, piece, start) ==
    /\ start \in [1..(Len(piece) + 1) -> Nat \ {0}]
    /\ \A i \in 1..Len(piece), j \in 1..(Len(piece) + 1) :
         i < j => start[i] + Len(piece[i]) <= start[j]
    /\ start[Len(piece) + 1] = Len(g) + 1
    /\ \A i \in 1..Len(piece) : \A k \in 1..Len(piece[i]) : g[start[i] + k - 1] = piece[i][k]
    /\ \A w \in 1..Len(g) : \E i \in 1..Len(piece) : \E k \in 1..Len(piece[i]) : w = start[i] + k - 1

\* FlattenSeq is what its recursion says.
LEMMA FlattenRecursion ==
    ASSUME NEW S, NEW seqs \in Seq(Seq(S)), Len(seqs) # 0
    PROVE  \E g \in [1..Len(seqs) -> Seq(S)] :
              /\ FlattenSeq(seqs) = g[Len(seqs)]
              /\ g[1] = seqs[1]
              /\ \A i \in 2..Len(seqs) : g[i] = g[i - 1] \o seqs[i]
<1> DEFINE Good(n, g) == /\ g \in [1..n -> Seq(S)]
                         /\ \A i \in 1..n : g[i] = IF i = 1 THEN seqs[i] ELSE g[i - 1] \o seqs[i]
           done == {n \in Nat : n <= Len(seqs) => \E g : Good(n, g)}
<1>1. Len(seqs) \in Nat /\ \A i \in 1..Len(seqs) : seqs[i] \in Seq(S)
    OBVIOUS
<1>0. Len(seqs) \in 1..Len(seqs) /\ 1 \in 1..Len(seqs)
    BY <1>1
<1>2. 0 \in done
    <2>1. Good(0, [i \in 1..0 |-> <<>>])
        OBVIOUS
    <2> QED
        BY <2>1
<1>3. ASSUME NEW n \in Nat, n \in done PROVE n + 1 \in done
    <2> SUFFICES ASSUME n + 1 <= Len(seqs) PROVE \E g : Good(n + 1, g)
        OBVIOUS
    <2>1. PICK g : Good(n, g)
        <3>1. n <= Len(seqs)
            BY <1>1
        <3> QED
            BY <1>3, <3>1
    <2> DEFINE h == [i \in 1..(n + 1) |->
                        IF i <= n THEN g[i] ELSE IF i = 1 THEN seqs[i] ELSE g[i - 1] \o seqs[i]]
    <2>2. h \in [1..(n + 1) -> Seq(S)]
        BY <1>1, <2>1
    <2>3. ASSUME NEW i \in 1..(n + 1)
          PROVE  h[i] = IF i = 1 THEN seqs[i] ELSE h[i - 1] \o seqs[i]
        <3>1. i # 1 => i - 1 \in 1..n /\ i - 1 \in 1..(n + 1) /\ h[i - 1] = g[i - 1]
            OBVIOUS
        <3>2. CASE i <= n
            <4>1. h[i] = g[i] /\ i \in 1..n
                BY <3>2
            <4>2. g[i] = IF i = 1 THEN seqs[i] ELSE g[i - 1] \o seqs[i]
                BY <2>1, <4>1
            <4> HIDE DEF h
            <4> QED
                BY <3>1, <4>1, <4>2
        <3>3. CASE ~ (i <= n)
            <4>1. h[i] = IF i = 1 THEN seqs[i] ELSE g[i - 1] \o seqs[i]
                BY <3>3
            <4> HIDE DEF h
            <4> QED
                BY <3>1, <4>1
        <3> QED
            BY <3>2, <3>3
    <2>4. Good(n + 1, h)
        BY <2>2, <2>3
    <2> QED
        BY <2>4
<1>4. Len(seqs) \in done
    <2> HIDE DEF done
    <2> QED
        BY <1>1, <1>2, <1>3, Induction
<1>5. PICK g : Good(Len(seqs), g)
    BY <1>1, <1>4, SMTT(30)
<1> DEFINE F(h) == [i \in 1..Len(seqs) |-> IF i = 1 THEN seqs[i] ELSE h[i - 1] \o seqs[i]]
           flat == CHOOSE h : h = F(h)
<1>6. g = F(g)
    BY <1>5
<1>7. flat = F(flat)
    BY <1>6
<1>8. \A n \in Nat : n \in {m \in Nat : m \in 1..Len(seqs) => flat[m] = g[m]}
    <2> DEFINE same == {m \in Nat : m \in 1..Len(seqs) => flat[m] = g[m]}
    <2>1. 0 \in same
        OBVIOUS
    <2>2. ASSUME NEW n \in Nat, n \in same PROVE n + 1 \in same
        <3> SUFFICES ASSUME n + 1 \in 1..Len(seqs) PROVE flat[n + 1] = g[n + 1]
            OBVIOUS
        <3> DEFINE m == n + 1
        <3>0. m \in 1..Len(seqs) /\ m - 1 = n
            OBVIOUS
        <3>1. flat[m] = IF m = 1 THEN seqs[m] ELSE flat[m - 1] \o seqs[m]
            <4> HIDE DEF m, flat
            <4> QED
                BY <1>7, <3>0
        <3>2. g[m] = IF m = 1 THEN seqs[m] ELSE g[m - 1] \o seqs[m]
            <4> HIDE DEF m
            <4> QED
                BY <1>5, <3>0
        <3>3. n + 1 # 1 => flat[n] = g[n]
            BY <2>2
        <3> QED
            BY <3>0, <3>1, <3>2, <3>3
    <2> HIDE DEF same
    <2>3. \A n \in Nat : n \in same
        BY <2>1, <2>2, Induction
    <2> QED
        BY <2>3 DEF same
<1>9. FlattenSeq(seqs) = flat[Len(seqs)]
    BY DEF FlattenSeq
<1>10. FlattenSeq(seqs) = g[Len(seqs)]
    <2>1. Len(seqs) \in {m \in Nat : m \in 1..Len(seqs) => flat[m] = g[m]} /\ Len(seqs) \in 1..Len(seqs)
        <3> HIDE DEF flat
        <3> QED
            BY <1>0, <1>1, <1>8
    <2> HIDE DEF flat
    <2> QED
        BY <2>1, <1>9
<1>11. g[1] = seqs[1] /\ \A i \in 2..Len(seqs) : g[i] = g[i - 1] \o seqs[i]
    <2>1. \A i \in 1..Len(seqs) : g[i] = IF i = 1 THEN seqs[i] ELSE g[i - 1] \o seqs[i]
        BY <1>5
    <2>2. \A i \in 2..Len(seqs) : i \in 1..Len(seqs) /\ i # 1
        BY <1>1
    <2> QED
        BY <1>0, <2>1, <2>2
<1>12. g \in [1..Len(seqs) -> Seq(S)]
    BY <1>5
<1> QED
    BY <1>10, <1>11, <1>12

\* A flattened sequence of sequences has them one after the other.
LEMMA FlattenLaysOut ==
    ASSUME NEW S, NEW seqs \in Seq(Seq(S)), Len(seqs) # 0
    PROVE  /\ FlattenSeq(seqs) \in Seq(S)
           /\ \E start : LaidOut(FlattenSeq(seqs), seqs, start)
<1> DEFINE n == Len(seqs)
<1>1. /\ n \in Nat \ {0} /\ n \in 1..n /\ 1 \in 1..n
      /\ \A i \in 1..n : seqs[i] \in Seq(S) /\ Len(seqs[i]) \in Nat
    OBVIOUS
<1>2. PICK g \in [1..n -> Seq(S)] : /\ FlattenSeq(seqs) = g[n]
                                    /\ g[1] = seqs[1]
                                    /\ \A i \in 2..n : g[i] = g[i - 1] \o seqs[i]
    BY FlattenRecursion
<1> HIDE DEF n
<1>3. \A i \in 1..n : g[i] \in Seq(S) /\ Len(g[i]) \in Nat
    BY <1>2
<1>4. ASSUME NEW m \in Nat, m + 1 \in 1..n, m # 0
      PROVE  /\ m \in 1..n
             /\ g[m + 1] = g[m] \o seqs[m + 1]
             /\ Len(g[m + 1]) = Len(g[m]) + Len(seqs[m + 1])
             /\ \A w \in 1..Len(g[m]) : g[m + 1][w] = g[m][w]
             /\ \A k \in 1..Len(seqs[m + 1]) : g[m + 1][Len(g[m]) + k] = seqs[m + 1][k]
    <2> DEFINE j == m + 1
    <2>1. j \in 2..n /\ j - 1 = m /\ m \in 1..n /\ j \in 1..n
        BY <1>1, <1>4
    <2> HIDE DEF j
    <2>2. g[j] = g[m] \o seqs[j] /\ g[m] \in Seq(S) /\ seqs[j] \in Seq(S)
        BY <1>1, <1>2, <1>3, <2>1
    <2>3. /\ g[j] = g[m] \o seqs[j]
          /\ Len(g[j]) = Len(g[m]) + Len(seqs[j])
          /\ \A w \in 1..Len(g[m]) : g[j][w] = g[m][w]
          /\ \A k \in 1..Len(seqs[j]) : g[j][Len(g[m]) + k] = seqs[j][k]
        <3> DEFINE a == g[m]
                   b == seqs[j]
        <3>1. a \in Seq(S) /\ b \in Seq(S) /\ g[j] = a \o b
            BY <2>2
        <3> HIDE DEF a, b
        <3>2. /\ Len(a \o b) = Len(a) + Len(b)
              /\ \A w \in 1..Len(a) : (a \o b)[w] = a[w]
              /\ \A k \in 1..Len(b) : (a \o b)[Len(a) + k] = b[k]
            BY <3>1, Concatenated
        <3>3. /\ g[j] = a \o b
              /\ Len(g[j]) = Len(a) + Len(b)
              /\ \A w \in 1..Len(a) : g[j][w] = a[w]
              /\ \A k \in 1..Len(b) : g[j][Len(a) + k] = b[k]
            BY <3>1, <3>2
        <3> QED
            BY <3>3 DEF a, b
    <2> QED
        BY <2>1, <2>3 DEF j
<1> DEFINE start == [i \in 1..(n + 1) |-> IF i = 1 THEN 1 ELSE Len(g[i - 1]) + 1]
<1>5. start \in [1..(n + 1) -> Nat \ {0}] /\ start[n + 1] = Len(g[n]) + 1
    <2>1. \A i \in 1..(n + 1) : i = 1 \/ i - 1 \in 1..n
        BY <1>1
    <2>2. n + 1 \in 1..(n + 1) /\ (n + 1) - 1 = n /\ n + 1 # 1
        BY <1>1
    <2> QED
        BY <1>1, <1>3, <2>1, <2>2
<1>6. ASSUME NEW i \in 1..n PROVE start[i + 1] = start[i] + Len(seqs[i])
    <2>1. i + 1 \in 1..(n + 1) /\ (i + 1) - 1 = i /\ i + 1 # 1 /\ i \in 1..(n + 1)
        BY <1>1
    <2>2. start[i + 1] = Len(g[i]) + 1
        BY <2>1
    <2>3. CASE i = 1
        <3>1. start[i] = 1
            BY <2>1, <2>3
        <3>2. Len(g[i]) = Len(seqs[i])
            BY <1>2, <2>3
        <3> HIDE DEF start
        <3>3. Len(seqs[i]) \in Nat
            BY <1>1
        <3> QED
            BY <2>2, <3>1, <3>2, <3>3
    <2>4. CASE i # 1
        <3>1. i - 1 \in Nat /\ i - 1 # 0 /\ (i - 1) + 1 = i
            BY <1>1, <2>4
        <3>2. Len(g[i]) = Len(g[i - 1]) + Len(seqs[i])
            BY <1>4, <3>1
        <3>3. start[i] = Len(g[i - 1]) + 1
            BY <2>1, <2>4
        <3>4. Len(g[i - 1]) \in Nat /\ Len(seqs[i]) \in Nat
            BY <1>1, <1>3, <3>1
        <3> HIDE DEF start
        <3>5. \A a, b \in Nat : (a + b) + 1 = (a + 1) + b
            OBVIOUS
        <3> QED
            BY <2>2, <3>2, <3>3, <3>4, <3>5, Zenon
    <2> QED
        BY <2>3, <2>4
<1>7. \A m \in 1..n : start[m + 1] = Len(g[m]) + 1
    BY <1>1
<1> HIDE DEF start
<1>8. \A i \in 1..n, j \in 1..(n + 1) : i < j => start[i] + Len(seqs[i]) <= start[j]
    <2> DEFINE T == {m \in Nat : m \in 1..(n + 1) =>
                        \A i \in 1..n : i < m => start[i] + Len(seqs[i]) <= start[m]}
    <2>1. 0 \in T
        OBVIOUS
    <2>2. ASSUME NEW m \in Nat, m \in T PROVE m + 1 \in T
        <3> SUFFICES ASSUME m + 1 \in 1..(n + 1), NEW i \in 1..n, i < m + 1
                     PROVE  start[i] + Len(seqs[i]) <= start[m + 1]
            OBVIOUS
        <3>1. m \in 1..n /\ m \in 1..(n + 1) /\ i \in 1..(n + 1)
            BY <1>1
        <3>2. start[m + 1] = start[m] + Len(seqs[m])
            BY <1>6, <3>1
        <3>3. start[i] \in Nat /\ start[m] \in Nat /\ Len(seqs[i]) \in Nat /\ Len(seqs[m]) \in Nat
            BY <1>1, <1>5, <3>1
        <3>4. i = m \/ i < m
            BY <3>1
        <3>5. i < m => start[i] + Len(seqs[i]) <= start[m]
            BY <2>2, <3>1
        <3> QED
            BY <3>2, <3>3, <3>4, <3>5, SMTT(30)
    <2> HIDE DEF T
    <2>3. \A m \in Nat : m \in T
        BY <2>1, <2>2, Induction
    <2> QED
        BY <1>1, <2>3 DEF T
<1>9. \A i \in 1..n : \A k \in 1..Len(seqs[i]) : g[n][start[i] + k - 1] = seqs[i][k]
    <2> DEFINE T == {m \in Nat : m \in 1..n =>
                        \A i \in 1..m : \A k \in 1..Len(seqs[i]) : g[m][start[i] + k - 1] = seqs[i][k]}
    <2>1. 0 \in T
        BY <1>1
    <2>2. ASSUME NEW m \in Nat, m \in T PROVE m + 1 \in T
        <3> SUFFICES ASSUME m + 1 \in 1..n, NEW i \in 1..(m + 1), NEW k \in 1..Len(seqs[i])
                     PROVE  g[m + 1][start[i] + k - 1] = seqs[i][k]
            OBVIOUS
        <3>1. i \in 1..n /\ i \in 1..(n + 1) /\ start[i] \in Nat \ {0} /\ Len(seqs[i]) \in Nat
            BY <1>1, <1>5
        <3>2. CASE m = 0
            <4>1. i = 1 /\ start[1] = 1
                BY <3>2, <1>1 DEF start
            <4>2. start[i] + k - 1 = k
                BY <4>1, <3>1
            <4> QED
                BY <1>2, <3>2, <4>1, <4>2
        <3>3. CASE m # 0
            <4>1. m \in 1..n /\ Len(g[m]) \in Nat
                BY <1>3, <1>4, <3>3
            <4>2. start[m + 1] = Len(g[m]) + 1
                BY <1>7, <4>1
            <4>3. CASE i = m + 1
                <5>1. start[i] + k - 1 = Len(g[m]) + k
                    BY <4>1, <4>2, <4>3
                <5> QED
                    BY <1>4, <3>3, <4>3, <5>1
            <4>4. CASE i # m + 1
                <5>1. i \in 1..m /\ i < m + 1
                    BY <4>4
                <5>2. start[i] + Len(seqs[i]) <= start[m + 1]
                    <6>1. m + 1 \in 1..(n + 1)
                        BY <1>1
                    <6> QED
                        BY <1>8, <3>1, <5>1, <6>1
                <5>3. start[i] + k - 1 \in 1..Len(g[m])
                    <6> DEFINE s == start[i]
                               z == Len(seqs[i])
                               size == Len(g[m])
                    <6>1. s \in Nat \ {0} /\ z \in Nat /\ size \in Nat /\ k \in 1..z
                        BY <3>1, <4>1
                    <6>2. s + z <= size + 1
                        BY <4>2, <5>2
                    <6> HIDE DEF s, z, size
                    <6>3. s + k - 1 \in 1..size
                        BY <6>1, <6>2
                    <6> QED
                        BY <6>3 DEF s, size
                <5>4. g[m][start[i] + k - 1] = seqs[i][k]
                    BY <2>2, <4>1, <5>1
                <5> QED
                    BY <1>4, <3>3, <5>3, <5>4
            <4> QED
                BY <4>3, <4>4
        <3> QED
            BY <3>2, <3>3
    <2> HIDE DEF T
    <2>3. n \in T
        BY <1>1, <2>1, <2>2, Induction
    <2> QED
        BY <1>1, <2>3 DEF T
<1>10. \A w \in 1..Len(g[n]) : \E i \in 1..n : \E k \in 1..Len(seqs[i]) : w = start[i] + k - 1
    <2> DEFINE T == {m \in Nat : m \in 1..n =>
                        \A w \in 1..Len(g[m]) : \E i \in 1..m : \E k \in 1..Len(seqs[i]) : w = start[i] + k - 1}
    <2>1. 0 \in T
        BY <1>1
    <2>2. ASSUME NEW m \in Nat, m \in T PROVE m + 1 \in T
        <3> SUFFICES ASSUME m + 1 \in 1..n, NEW w \in 1..Len(g[m + 1])
                     PROVE  \E i \in 1..(m + 1) : \E k \in 1..Len(seqs[i]) : w = start[i] + k - 1
            OBVIOUS
        <3>1. m + 1 \in 1..(m + 1) /\ Len(seqs[m + 1]) \in Nat
            BY <1>1
        <3>2. CASE m = 0
            <4>1. start[1] = 1 /\ 1 \in 1..(m + 1) /\ w \in 1..Len(seqs[1])
                BY <1>1, <1>2, <3>2 DEF start
            <4>2. w = start[1] + w - 1
                BY <4>1, <1>1
            <4> QED
                BY <4>1, <4>2
        <3>3. CASE m # 0
            <4>1. m \in 1..n /\ Len(g[m]) \in Nat /\ Len(g[m + 1]) = Len(g[m]) + Len(seqs[m + 1])
                BY <1>3, <1>4, <3>3
            <4>2. start[m + 1] = Len(g[m]) + 1
                BY <1>7, <4>1
            <4>3. CASE w \in 1..Len(g[m])
                <5>1. PICK i \in 1..m : \E k \in 1..Len(seqs[i]) : w = start[i] + k - 1
                    BY <2>2, <4>1, <4>3
                <5>2. i \in 1..(m + 1)
                    OBVIOUS
                <5> QED
                    BY <5>1, <5>2
            <4>4. CASE w \notin 1..Len(g[m])
                <5>1. w - Len(g[m]) \in 1..Len(seqs[m + 1])
                    BY <3>1, <4>1, <4>4
                <5>2. w = start[m + 1] + (w - Len(g[m])) - 1
                    BY <4>1, <4>2
                <5> QED
                    BY <3>1, <5>1, <5>2
            <4> QED
                BY <4>3, <4>4
        <3> QED
            BY <3>2, <3>3
    <2> HIDE DEF T
    <2>3. n \in T
        BY <1>1, <2>1, <2>2, Induction
    <2> QED
        BY <1>1, <2>3 DEF T
<1>11. LaidOut(FlattenSeq(seqs), seqs, start)
    BY <1>2, <1>5, <1>8, <1>9, <1>10 DEF LaidOut, n
<1> QED
    BY <1>1, <1>2, <1>3, <1>11

\* Lines one by one.
LEMMA SinglesLayOut ==
    ASSUME NEW S, NEW f \in Seq(S), Len(f) # 0
    PROVE  \E start : LaidOut(f, [i \in 1..Len(f) |-> <<f[i]>>], start)
<1> DEFINE n == Len(f)
           piece == [i \in 1..n |-> <<f[i]>>]
           start == [i \in 1..(n + 1) |-> i]
<1>1. n \in Nat \ {0} /\ n + 1 \in 1..(n + 1) /\ Len(piece) = n
    OBVIOUS
<1>2. \A i \in 1..n : Len(piece[i]) = 1 /\ piece[i][1] = f[i] /\ i \in 1..(n + 1)
    OBVIOUS
<1> HIDE DEF n, piece
<1>3. start \in [1..(n + 1) -> Nat \ {0}] /\ \A i \in 1..(n + 1) : start[i] = i
    BY <1>1
<1> HIDE DEF start
<1>4. ASSUME NEW i \in 1..n, NEW j \in 1..(n + 1), i < j PROVE start[i] + Len(piece[i]) <= start[j]
    <2>1. start[i] = i /\ start[j] = j /\ Len(piece[i]) = 1
        BY <1>2, <1>3
    <2> QED
        BY <1>1, <1>4, <2>1
<1>5. ASSUME NEW i \in 1..n, NEW k \in 1..Len(piece[i]) PROVE f[start[i] + k - 1] = piece[i][k]
    <2>1. start[i] + k - 1 = i /\ k = 1
        BY <1>1, <1>2, <1>3
    <2> QED
        BY <1>2, <2>1
<1>6. ASSUME NEW w \in 1..n PROVE \E i \in 1..n : \E k \in 1..Len(piece[i]) : w = start[i] + k - 1
    <2>1. w = start[w] + 1 - 1 /\ 1 \in 1..Len(piece[w])
        BY <1>1, <1>2, <1>3
    <2> QED
        BY <2>1
<1>7. LaidOut(f, piece, start)
    BY <1>1, <1>3, <1>4, <1>5, <1>6 DEF LaidOut, n
<1> QED
    BY <1>7 DEF piece, n

\* More lines at the end.
LEMMA TailLaysOut ==
    ASSUME NEW S, NEW g \in Seq(S), NEW t \in Seq(S),
           NEW piece \in Seq(Seq(S)), Len(piece) # 0, NEW start, LaidOut(g, piece, start)
    PROVE  \E later : LaidOut(g \o t, [piece EXCEPT ![Len(piece)] = @ \o t], later)
<1> DEFINE n == Len(piece)
           longer == [piece EXCEPT ![n] = @ \o t]
           later == [start EXCEPT ![n + 1] = @ + Len(t)]
           h == g \o t
           size(i) == Len(piece[i])
           newSize(i) == Len(longer[i])
<1>1. /\ n \in Nat \ {0} /\ n \in 1..n /\ n + 1 \in 1..(n + 1) /\ Len(g) \in Nat /\ Len(t) \in Nat
      /\ \A i \in 1..n : piece[i] \in Seq(S) /\ size(i) \in Nat /\ i \in 1..(n + 1) /\ i # n + 1
      /\ piece \in [1..n -> Seq(S)]
    OBVIOUS
<1>2. /\ start \in [1..(n + 1) -> Nat \ {0}]
      /\ \A i \in 1..n, j \in 1..(n + 1) : i < j => start[i] + size(i) <= start[j]
      /\ start[n + 1] = Len(g) + 1
      /\ \A i \in 1..n : \A k \in 1..size(i) : g[start[i] + k - 1] = piece[i][k]
      /\ \A w \in 1..Len(g) : \E i \in 1..n : \E k \in 1..size(i) : w = start[i] + k - 1
    BY DEF LaidOut
<1>3. Len(longer) = n
    OBVIOUS
<1>4. /\ Len(h) = Len(g) + Len(t)
      /\ \A w \in 1..Len(g) : h[w] = g[w]
      /\ \A k \in 1..Len(t) : h[Len(g) + k] = t[k]
    BY Concatenated
<1>5. /\ newSize(n) = size(n) + Len(t)
      /\ \A k \in 1..size(n) : longer[n][k] = piece[n][k]
      /\ \A k \in 1..Len(t) : longer[n][size(n) + k] = t[k]
    <2> DEFINE last == piece[n]
    <2>1. last \in Seq(S) /\ longer[n] = last \o t
        BY <1>1
    <2> HIDE DEF last, longer, n
    <2>2. /\ Len(last \o t) = Len(last) + Len(t)
          /\ \A k \in 1..Len(last) : (last \o t)[k] = last[k]
          /\ \A k \in 1..Len(t) : (last \o t)[Len(last) + k] = t[k]
        BY <2>1, Concatenated
    <2> QED
        BY <2>1, <2>2 DEF last
<1>6. \A i \in 1..n : i # n => longer[i] = piece[i] /\ newSize(i) = size(i)
    BY <1>1
<1>7. \A i \in 1..n : later[i] = start[i]
    BY <1>1, <1>2
<1>8. later[n + 1] = start[n + 1] + Len(t) /\ later \in [1..(n + 1) -> Nat \ {0}]
    BY <1>1, <1>2
<1> HIDE DEF n, longer, later, h, size, newSize
\* the last piece ends where g does
<1>9. start[n] + size(n) = Len(g) + 1
    <2>1. start[n] + size(n) <= Len(g) + 1 /\ start[n] \in Nat \ {0}
        BY <1>1, <1>2
    <2>2. ASSUME start[n] + size(n) < Len(g) + 1 PROVE FALSE
        <3>1. start[n] + size(n) \in 1..Len(g)
            BY <1>1, <2>1, <2>2
        <3>2. PICK i \in 1..n : \E k \in 1..size(i) : start[n] + size(n) = start[i] + k - 1
            BY <1>2, <3>1
        <3>3. PICK k \in 1..size(i) : start[n] + size(n) = start[i] + k - 1
            BY <3>2
        <3>4. start[i] \in Nat /\ size(i) \in Nat /\ size(n) \in Nat /\ k \in Nat /\ k <= size(i)
            BY <1>1, <1>2
        <3>5. i # n
            BY <2>1, <3>3, <3>4
        <3>6. i < n
            BY <1>1, <3>5
        <3>7. start[i] + size(i) <= start[n]
            BY <1>1, <1>2, <3>6
        <3> DEFINE s == start[n]
                   z == size(n)
                   r == start[i]
                   y == size(i)
        <3>8. s \in Nat /\ z \in Nat /\ r \in Nat /\ y \in Nat /\ k \in Nat /\ k <= y
            BY <2>1, <3>4
        <3>9. s + z = r + k - 1 /\ r + y <= s
            BY <3>3, <3>7
        <3> HIDE DEF s, z, r, y
        <3> QED
            BY <3>8, <3>9
    <2>3. start[n] + size(n) \in Nat
        BY <1>1, <2>1
    <2> QED
        BY <1>1, <2>1, <2>2, <2>3
<1>10. ASSUME NEW i \in 1..n PROVE newSize(i) \in Nat /\ size(i) <= newSize(i) /\ later[i] \in Nat
    <2>1. start[i] \in Nat /\ size(i) \in Nat
        BY <1>1, <1>2
    <2>2. newSize(i) \in Nat /\ size(i) <= newSize(i)
        <3>1. CASE i = n
            BY <1>1, <1>5, <2>1, <3>1
        <3>2. CASE i # n
            BY <1>6, <2>1, <3>2
        <3> QED
            BY <3>1, <3>2
    <2> QED
        BY <1>7, <2>1, <2>2
<1>11. ASSUME NEW i \in 1..n, NEW j \in 1..(n + 1), i < j
       PROVE  later[i] + newSize(i) <= later[j]
    <2>1. start[i] + size(i) <= start[j] /\ start[i] \in Nat /\ start[j] \in Nat
        BY <1>1, <1>2, <1>11
    <2>2. CASE j # n + 1
        <3>1. i # n /\ j \in 1..n
            BY <1>1, <1>11, <2>2
        <3> QED
            BY <1>6, <1>7, <2>1, <3>1
    <2>3. CASE j = n + 1 /\ i = n
        <3>1. start[n] \in Nat /\ size(n) \in Nat
            BY <1>1, <1>2
        <3>2. later[i] + newSize(i) = start[n] + (size(n) + Len(t))
            BY <1>1, <1>5, <1>7, <2>3
        <3>3. later[j] = (Len(g) + 1) + Len(t)
            BY <1>2, <1>8, <2>3
        <3> DEFINE s == start[n]
                   z == size(n)
                   m == Len(g)
                   l == Len(t)
        <3>4. s \in Nat /\ z \in Nat /\ m \in Nat /\ l \in Nat
            BY <1>1, <3>1
        <3>5. s + z = m + 1
            BY <1>9
        <3> HIDE DEF s, z, m, l
        <3>6. s + (z + l) <= (m + 1) + l
            BY <3>4, <3>5
        <3>7. s + (z + l) = later[i] + newSize(i) /\ (m + 1) + l = later[j]
            BY <3>2, <3>3 DEF s, z, m, l
        <3> QED
            BY <3>6, <3>7
    <2>4. CASE j = n + 1 /\ i # n
        <3>1. later[i] + newSize(i) = start[i] + size(i)
            BY <1>6, <1>7, <2>4
        <3> QED
            BY <1>1, <1>8, <2>1, <2>4, <3>1, SMTT(30)
    <2> QED
        BY <2>2, <2>3, <2>4
<1>12. later[n + 1] = Len(h) + 1
    BY <1>1, <1>2, <1>4, <1>8
<1>13. ASSUME NEW i \in 1..n, NEW k \in 1..newSize(i)
       PROVE  h[later[i] + k - 1] = longer[i][k]
    <2>1. start[i] \in Nat \ {0} /\ size(i) \in Nat /\ later[i] = start[i] /\ k \in Nat
        BY <1>1, <1>2, <1>7, <1>10
    <2>2. start[i] + size(i) <= Len(g) + 1
        <3>1. i < n + 1
            BY <1>1
        <3> QED
            BY <1>1, <1>2, <3>1
    <2>3. CASE k \in 1..size(i)
        <3>1. start[i] + k - 1 \in 1..Len(g)
            <4> DEFINE s == start[i]
                       z == size(i)
                       m == Len(g)
            <4>1. s \in Nat \ {0} /\ z \in Nat /\ m \in Nat /\ k \in 1..z
                BY <1>1, <2>1, <2>3
            <4>2. s + z <= m + 1
                BY <2>2
            <4> HIDE DEF s, z, m
            <4>3. s + k - 1 \in 1..m
                BY <4>1, <4>2
            <4> QED
                BY <4>3 DEF s, m
        <3>2. longer[i][k] = piece[i][k]
            BY <1>5, <1>6, <2>3
        <3>3. g[start[i] + k - 1] = piece[i][k]
            BY <1>2, <2>3
        <3> QED
            BY <1>4, <2>1, <3>1, <3>2, <3>3
    <2>4. CASE k \notin 1..size(i)
        <3>1. i = n
            BY <1>6, <2>4
        <3>2. k <= size(n) + Len(t) /\ size(n) \in Nat /\ ~ (k <= size(n))
            BY <1>1, <1>5, <2>1, <2>4, <3>1
        <3>3. k - size(n) \in 1..Len(t)
            BY <1>1, <2>1, <3>2
        <3>4. start[n] + k - 1 = Len(g) + (k - size(n)) /\ k = size(n) + (k - size(n))
            <4>1. start[n] \in Nat /\ size(n) \in Nat /\ Len(g) \in Nat /\ k \in Nat
                BY <1>1, <2>1, <3>1, <3>2
            <4>2. start[n] + size(n) = Len(g) + 1
                BY <1>9
            <4>3. k = size(n) + (k - size(n))
                BY <4>1
            <4>4. start[n] + k - 1 = Len(g) + (k - size(n))
                <5> DEFINE s == start[n]
                           z == size(n)
                           m == Len(g)
                <5>1. s \in Nat /\ z \in Nat /\ m \in Nat /\ k \in Nat /\ s + z = m + 1
                    BY <4>1, <4>2
                <5> HIDE DEF s, z, m
                <5>2. s + k - 1 = m + (k - z)
                    BY <5>1
                <5> QED
                    BY <5>2 DEF s, z, m
            <4> QED
                BY <4>3, <4>4
        <3>5. longer[n][size(n) + (k - size(n))] = t[k - size(n)]
            BY <1>5, <3>3
        <3>6. h[Len(g) + (k - size(n))] = t[k - size(n)]
            BY <1>4, <3>3
        <3> QED
            BY <2>1, <3>1, <3>4, <3>5, <3>6
    <2> QED
        BY <2>3, <2>4
<1>14. ASSUME NEW w \in 1..Len(h)
       PROVE  \E i \in 1..n : \E k \in 1..newSize(i) : w = later[i] + k - 1
    <2>1. CASE w \in 1..Len(g)
        <3>1. PICK i \in 1..n : \E k \in 1..size(i) : w = start[i] + k - 1
            BY <1>2, <2>1
        <3>2. PICK k \in 1..size(i) : w = start[i] + k - 1
            BY <3>1
        <3>3. k \in 1..newSize(i)
            <4>1. newSize(i) \in Nat /\ size(i) \in Nat /\ size(i) <= newSize(i)
                BY <1>1, <1>10
            <4> QED
                BY <4>1
        <3> QED
            BY <1>7, <3>2, <3>3
    <2>2. CASE w \notin 1..Len(g)
        <3> DEFINE k == w - Len(g)
        <3>1. k \in 1..Len(t) /\ w = Len(g) + k
            BY <1>1, <1>4, <2>2
        <3> HIDE DEF k
        <3>2. w = start[n] + (size(n) + k) - 1
            <4>1. start[n] \in Nat /\ size(n) \in Nat /\ k \in Nat
                BY <1>1, <1>2, <3>1
            <4> DEFINE s == start[n]
                       z == size(n)
                       m == Len(g)
            <4>2. s \in Nat /\ z \in Nat /\ m \in Nat /\ k \in Nat /\ s + z = m + 1 /\ w = m + k
                BY <1>1, <1>9, <3>1, <4>1
            <4> HIDE DEF s, z, m
            <4>3. w = s + (z + k) - 1
                BY <4>2
            <4> QED
                BY <4>3 DEF s, z
        <3>3. size(n) + k \in 1..newSize(n)
            BY <1>1, <1>5, <3>1
        <3> QED
            BY <1>1, <1>7, <3>2, <3>3
    <2> QED
        BY <2>1, <2>2
<1>15. LaidOut(h, longer, later)
    BY <1>3, <1>8, <1>11, <1>12, <1>13, <1>14 DEF LaidOut, size, newSize
<1> QED
    BY <1>15 DEF h, longer, n

\* One more line.
LEMMA OneMoreLine ==
    ASSUME NEW S, NEW f \in Seq(S), NEW e \in S, NEW q \in 1..(Len(f) + 1)
    PROVE  /\ InsertAt(f, q, e) \in Seq(S)
           /\ Len(InsertAt(f, q, e)) = Len(f) + 1
           /\ \A w \in 1..(Len(f) + 1) :
                InsertAt(f, q, e)[w] = IF w < q THEN f[w] ELSE IF w = q THEN e ELSE f[w - 1]
<1> DEFINE n == Len(f)
           s == SubSeq(f, 1, q - 1)
           t == SubSeq(f, q, n)
<1>1. n \in Nat /\ q \in Nat
    OBVIOUS
<1>2. s \in Seq(S) /\ Len(s) = q - 1 /\ \A w \in 1..(q - 1) : s[w] = f[w]
    BY <1>1, SubSeqProperties
<1>3. t \in Seq(S) /\ Len(t) = n - q + 1 /\ \A w \in 1..(n - q + 1) : t[w] = f[q + w - 1]
    BY <1>1, SubSeqProperties
<1> DEFINE u == s \o <<e>>
<1>4. <<e>> \in Seq(S) /\ Len(<<e>>) = 1 /\ <<e>>[1] = e
    OBVIOUS
<1> HIDE DEF n, s, t
<1>5. u \in Seq(S) /\ Len(u) = q /\ u[q] = e /\ \A w \in 1..(q - 1) : u[w] = f[w]
    <2> DEFINE x == <<e>>
    <2>1. x \in Seq(S) /\ Len(x) = 1 /\ x[1] = e /\ 1 \in 1..Len(x)
        BY <1>4
    <2> HIDE DEF x
    <2>2. /\ s \o x \in Seq(S)
          /\ Len(s \o x) = Len(s) + Len(x)
          /\ \A w \in 1..Len(s) : (s \o x)[w] = s[w]
          /\ \A k \in 1..Len(x) : (s \o x)[Len(s) + k] = x[k]
        <3>1. s \in Seq(S) /\ x \in Seq(S)
            BY <1>2, <2>1
        <3> QED
            BY <3>1, Concatenated
    <2>3. Len(s \o x) = q /\ Len(s) + 1 = q
        BY <1>1, <1>2, <2>1, <2>2
    <2>4. (s \o x)[q] = e
        BY <2>1, <2>2, <2>3
    <2>5. \A w \in 1..(q - 1) : (s \o x)[w] = f[w]
        BY <1>2, <2>2
    <2> QED
        BY <2>2, <2>3, <2>4, <2>5 DEF x
<1> HIDE DEF u
<1>6. /\ u \o t \in Seq(S)
      /\ Len(u \o t) = Len(u) + Len(t)
      /\ \A w \in 1..Len(u) : (u \o t)[w] = u[w]
      /\ \A k \in 1..Len(t) : (u \o t)[Len(u) + k] = t[k]
    <2>1. u \in Seq(S) /\ t \in Seq(S)
        BY <1>3, <1>5
    <2> QED
        BY <2>1, Concatenated
<1>7. InsertAt(f, q, e) = u \o t
    BY DEF InsertAt, u, s, t, n
<1>8. Len(u \o t) = n + 1 /\ q <= n + 1
    BY <1>1, <1>3, <1>5, <1>6 DEF n
<1>9. ASSUME NEW w \in 1..(n + 1)
      PROVE  (u \o t)[w] = IF w < q THEN f[w] ELSE IF w = q THEN e ELSE f[w - 1]
    <2>1. CASE w < q
        <3>1. w \in 1..(q - 1) /\ w \in 1..Len(u)
            BY <1>1, <1>5, <2>1
        <3> QED
            BY <1>5, <1>6, <2>1, <3>1
    <2>2. CASE w = q
        <3>1. w \in 1..Len(u)
            BY <1>1, <1>5, <2>2
        <3> QED
            BY <1>1, <1>5, <1>6, <2>2, <3>1
    <2>3. CASE w > q
        <3>0. ~ (w < q) /\ w # q
            BY <1>1, <2>3
        <3> DEFINE k == w - q
        <3>1. k \in 1..(n - q + 1) /\ w = q + k /\ q + k - 1 = w - 1
            BY <1>1, <2>3
        <3> HIDE DEF k
        <3>2. (u \o t)[w] = t[k]
            BY <1>3, <1>5, <1>6, <3>1
        <3>3. t[k] = f[w - 1]
            BY <1>3, <3>1
        <3> QED
            BY <3>0, <3>1, <3>2, <3>3
    <2>4. w \in Nat /\ (w < q \/ w = q \/ w > q)
        BY <1>1
    <2> QED
        BY <2>1, <2>2, <2>3, <2>4
<1> QED
    BY <1>6, <1>7, <1>8, <1>9 DEF n

\* A line inserted before line p, or after it.
LEMMA InsertLaysOut ==
    ASSUME NEW S, NEW f \in Seq(S), NEW e \in S, NEW p \in 1..Len(f)
    PROVE  /\ \E start : LaidOut(InsertAt(f, p, e),
                                 [i \in 1..Len(f) |-> IF i = p THEN <<e, f[i]>> ELSE <<f[i]>>], start)
           /\ \E start : LaidOut(InsertAt(f, p + 1, e),
                                 [i \in 1..Len(f) |-> IF i = p THEN <<f[i], e>> ELSE <<f[i]>>], start)
<1>0. /\ \A q \in 1..(Len(f) + 1) : Len(InsertAt(f, q, e)) = Len(f) + 1
      /\ \A q \in 1..(Len(f) + 1) : \A w \in 1..(Len(f) + 1) :
           InsertAt(f, q, e)[w] = IF w < q THEN f[w] ELSE IF w = q THEN e ELSE f[w - 1]
    BY OneMoreLine
<1> DEFINE n == Len(f)
           size(i) == IF i = p THEN 2 ELSE 1
           start == [i \in 1..(n + 1) |-> IF i <= p THEN i ELSE i + 1]
<1>1. n \in Nat /\ p \in Nat /\ p \in 1..n
    OBVIOUS
<1>7. /\ \A q \in 1..(n + 1) : Len(InsertAt(f, q, e)) = n + 1
      /\ \A q \in 1..(n + 1) : \A w \in 1..(n + 1) :
           InsertAt(f, q, e)[w] = IF w < q THEN f[w] ELSE IF w = q THEN e ELSE f[w - 1]
    BY <1>0
<1> HIDE DEF n
<1>2. /\ start \in [1..(n + 1) -> Nat \ {0}]
      /\ start[n + 1] = n + 2
      /\ \A i \in 1..(n + 1) : start[i] = IF i <= p THEN i ELSE i + 1
    BY <1>1
<1> HIDE DEF start
<1>3. ASSUME NEW g, NEW piece, Len(piece) = n, Len(g) = n + 1,
             \A i \in 1..n : Len(piece[i]) = size(i),
             \A i \in 1..n : \A k \in 1..size(i) : g[start[i] + k - 1] = piece[i][k]
      PROVE  LaidOut(g, piece, start)
    <2>1. ASSUME NEW i \in 1..n, NEW j \in 1..(n + 1), i < j PROVE start[i] + size(i) <= start[j]
        <3>1. i \in 1..(n + 1) /\ i \in Nat /\ j \in Nat
            BY <1>1
        <3> QED
            BY <1>1, <1>2, <2>1, <3>1
    <2>2. ASSUME NEW w \in 1..(n + 1) PROVE \E i \in 1..n : \E k \in 1..size(i) : w = start[i] + k - 1
        <3>1. CASE w <= p
            <4>1. w \in 1..n /\ 1 \in 1..size(w) /\ w = start[w] + 1 - 1
                BY <1>1, <1>2, <3>1
            <4> QED
                BY <4>1
        <3>2. CASE w = p + 1
            <4>1. p \in 1..n /\ 2 \in 1..size(p) /\ w = start[p] + 2 - 1
                BY <1>1, <1>2, <3>2
            <4> QED
                BY <4>1
        <3>3. CASE w > p + 1
            <4>1. w - 1 \in 1..n /\ 1 \in 1..size(w - 1) /\ start[w - 1] = w
                BY <1>1, <1>2, <3>3
            <4>2. w = start[w - 1] + 1 - 1
                BY <4>1
            <4> QED
                BY <4>1, <4>2
        <3> QED
            BY <1>1, <3>1, <3>2, <3>3
    <2>3. n + 2 = Len(g) + 1
        BY <1>1, <1>3
    <2> HIDE DEF size
    <2>4. \A i \in 1..n, j \in 1..(n + 1) : i < j => start[i] + Len(piece[i]) <= start[j]
        BY <1>3, <2>1
    <2>5. \A i \in 1..n : \A k \in 1..Len(piece[i]) : g[start[i] + k - 1] = piece[i][k]
        BY <1>3
    <2>6. \A w \in 1..Len(g) : \E i \in 1..n : \E k \in 1..Len(piece[i]) : w = start[i] + k - 1
        BY <1>3, <2>2
    <2> QED
        BY <1>2, <1>3, <2>3, <2>4, <2>5, <2>6 DEF LaidOut
<1>4. ASSUME NEW i \in 1..n, NEW k \in 1..size(i)
      PROVE  /\ start[i] + k - 1 \in 1..(n + 1)
             /\ i < p => start[i] + k - 1 = i
             /\ i = p => start[i] + k - 1 = IF k = 1 THEN p ELSE p + 1
             /\ i > p => start[i] + k - 1 = i + 1
             /\ i = p => k \in {1, 2}
             /\ i # p => k = 1
    <2>1. start[i] = IF i <= p THEN i ELSE i + 1
        BY <1>1, <1>2
    <2> QED
        BY <1>1, <2>1
<1>5. \E st : LaidOut(InsertAt(f, p, e), [i \in 1..n |-> IF i = p THEN <<e, f[i]>> ELSE <<f[i]>>], st)
    <2> DEFINE g == InsertAt(f, p, e)
               piece == [i \in 1..n |-> IF i = p THEN <<e, f[i]>> ELSE <<f[i]>>]
    <2>1. /\ Len(g) = n + 1
          /\ \A w \in 1..(n + 1) : g[w] = IF w < p THEN f[w] ELSE IF w = p THEN e ELSE f[w - 1]
        <3>1. p \in 1..(n + 1)
            BY <1>1
        <3> QED
            BY <1>7, <3>1
    <2>2. /\ Len(piece) = n
          /\ \A i \in 1..n : Len(piece[i]) = size(i)
          /\ \A i \in 1..n : i # p => piece[i][1] = f[i]
          /\ piece[p][1] = e /\ piece[p][2] = f[p]
        BY <1>1
    <2> HIDE DEF g, piece
    <2>3. ASSUME NEW i \in 1..n, NEW k \in 1..size(i) PROVE g[start[i] + k - 1] = piece[i][k]
        <3>1. CASE i < p
            BY <1>1, <1>4, <2>1, <2>2, <3>1
        <3>2. CASE i = p
            <4>1. p \in 1..(n + 1) /\ p + 1 \in 1..(n + 1) /\ g[p] = e /\ g[p + 1] = f[p]
                BY <1>1, <2>1
            <4> QED
                BY <1>4, <2>2, <3>2, <4>1
        <3>3. CASE i > p
            <4>1. i + 1 \in 1..(n + 1) /\ g[i + 1] = f[i]
                BY <1>1, <2>1, <3>3
            <4> QED
                BY <1>1, <1>4, <2>2, <3>3, <4>1
        <3> QED
            BY <1>1, <3>1, <3>2, <3>3
    <2> HIDE DEF size
    <2>4. LaidOut(g, piece, start)
        BY <1>3, <2>1, <2>2, <2>3
    <2> QED
        BY <2>4 DEF g, piece
<1>6. \E st : LaidOut(InsertAt(f, p + 1, e), [i \in 1..n |-> IF i = p THEN <<f[i], e>> ELSE <<f[i]>>], st)
    <2> DEFINE g == InsertAt(f, p + 1, e)
               piece == [i \in 1..n |-> IF i = p THEN <<f[i], e>> ELSE <<f[i]>>]
    <2>1. /\ Len(g) = n + 1
          /\ \A w \in 1..(n + 1) : g[w] = IF w < p + 1 THEN f[w] ELSE IF w = p + 1 THEN e ELSE f[w - 1]
        <3>1. p + 1 \in 1..(n + 1)
            BY <1>1
        <3> QED
            BY <1>7, <3>1
    <2>2. /\ Len(piece) = n
          /\ \A i \in 1..n : Len(piece[i]) = size(i)
          /\ \A i \in 1..n : i # p => piece[i][1] = f[i]
          /\ piece[p][1] = f[p] /\ piece[p][2] = e
        BY <1>1
    <2> HIDE DEF g, piece
    <2>3. ASSUME NEW i \in 1..n, NEW k \in 1..size(i) PROVE g[start[i] + k - 1] = piece[i][k]
        <3>1. CASE i < p
            BY <1>1, <1>4, <2>1, <2>2, <3>1
        <3>2. CASE i = p
            <4>1. p \in 1..(n + 1) /\ p + 1 \in 1..(n + 1) /\ g[p] = f[p] /\ g[p + 1] = e
                BY <1>1, <2>1
            <4> QED
                BY <1>4, <2>2, <3>2, <4>1
        <3>3. CASE i > p
            <4>1. i + 1 \in 1..(n + 1) /\ g[i + 1] = f[i]
                BY <1>1, <2>1, <3>3
            <4> QED
                BY <1>1, <1>4, <2>2, <3>3, <4>1
        <3> QED
            BY <1>1, <3>1, <3>2, <3>3
    <2> HIDE DEF size
    <2>4. LaidOut(g, piece, start)
        BY <1>3, <2>1, <2>2, <2>3
    <2> QED
        BY <2>4 DEF g, piece
<1> QED
    BY <1>5, <1>6 DEF n

\* Line k of piece[i] is line at[i][k] of g.
Woven(g, piece, at) ==
    /\ \A i \in DOMAIN piece : \A k \in DOMAIN piece[i] :
         at[i][k] \in DOMAIN g /\ g[at[i][k]] = piece[i][k]
    /\ \A i, j \in DOMAIN piece : \A k \in DOMAIN piece[i], m \in DOMAIN piece[j] :
         at[i][k] < at[j][m] <=> i < j \/ (i = j /\ k < m)
    /\ \A w \in DOMAIN g : \E i \in DOMAIN piece : \E k \in DOMAIN piece[i] : w = at[i][k]

\* What is laid out is woven.
LEMMA LaidOutWoven ==
    ASSUME NEW S, NEW g \in Seq(S), NEW piece \in Seq(Seq(S)), NEW start, LaidOut(g, piece, start)
    PROVE  \E at : Woven(g, piece, at)
<1> DEFINE n == Len(piece)
           size(i) == Len(piece[i])
           at == [i \in 1..n |-> [k \in 1..size(i) |-> start[i] + k - 1]]
<1>1. /\ n \in Nat /\ Len(g) \in Nat /\ DOMAIN g = 1..Len(g) /\ DOMAIN piece = 1..n
      /\ \A i \in 1..n : size(i) \in Nat /\ DOMAIN piece[i] = 1..size(i) /\ i \in 1..(n + 1)
    OBVIOUS
<1>2. /\ start \in [1..(n + 1) -> Nat \ {0}]
      /\ \A i \in 1..n, j \in 1..(n + 1) : i < j => start[i] + size(i) <= start[j]
      /\ start[n + 1] = Len(g) + 1
      /\ \A i \in 1..n : \A k \in 1..size(i) : g[start[i] + k - 1] = piece[i][k]
      /\ \A w \in 1..Len(g) : \E i \in 1..n : \E k \in 1..size(i) : w = start[i] + k - 1
    BY DEF LaidOut
<1>3. \A i \in 1..n : \A k \in 1..size(i) : at[i][k] = start[i] + k - 1
    OBVIOUS
<1> HIDE DEF n, size, at
<1>4. ASSUME NEW i \in 1..n, NEW k \in 1..size(i)
      PROVE  at[i][k] \in 1..Len(g) /\ g[at[i][k]] = piece[i][k]
    <2>1. i < n + 1 /\ n + 1 \in 1..(n + 1) /\ i \in 1..(n + 1)
        BY <1>1
    <2>2. start[i] + size(i) <= Len(g) + 1 /\ start[i] \in Nat \ {0} /\ size(i) \in Nat
        BY <1>1, <1>2, <2>1
    <2>3. at[i][k] = start[i] + k - 1 /\ k \in Nat /\ 1 <= k /\ k <= size(i)
        BY <1>1, <1>3
    <2>4. at[i][k] \in 1..Len(g)
        <3> DEFINE s == start[i]
                   z == size(i)
                   m == Len(g)
                   a == at[i][k]
        <3>1. s \in Nat \ {0} /\ z \in Nat /\ m \in Nat /\ s + z <= m + 1 /\ a = s + k - 1 /\ k \in Nat /\ 1 <= k /\ k <= z
            BY <1>1, <2>2, <2>3
        <3> HIDE DEF s, z, m, a
        <3>2. a \in 1..m
            BY <3>1
        <3> QED
            BY <3>2 DEF a, m
    <2> QED
        BY <1>2, <2>3, <2>4
<1>5. ASSUME NEW i \in 1..n, NEW j \in 1..n, NEW k \in 1..size(i), NEW m \in 1..size(j)
      PROVE  /\ i < j \/ (i = j /\ k < m) => at[i][k] < at[j][m]
             /\ at[i][k] \in Nat
    <2>1. /\ start[i] \in Nat /\ start[j] \in Nat /\ size(i) \in Nat /\ size(j) \in Nat
          /\ i \in 1..(n + 1) /\ j \in 1..(n + 1)
        BY <1>1, <1>2
    <2>2. at[i][k] = start[i] + k - 1 /\ at[j][m] = start[j] + m - 1
        BY <1>3
    <2>3. k \in Nat /\ m \in Nat /\ k <= size(i) /\ 1 <= m /\ 1 <= k
        BY <2>1
    <2>4. i < j => start[i] + size(i) <= start[j]
        BY <1>2, <2>1
    <2>5. at[i][k] \in Nat
        BY <1>1, <1>4
    <2>6. i < j => at[i][k] < at[j][m]
        BY <2>1, <2>2, <2>3, <2>4, SMTT(30)
    <2>7. i = j /\ k < m => at[i][k] < at[j][m]
        <3>1. i = j => start[i] = start[j]
            OBVIOUS
        <3> QED
            BY <2>1, <2>2, <2>3, <3>1
    <2> QED
        BY <2>5, <2>6, <2>7
<1>6. ASSUME NEW i \in 1..n, NEW j \in 1..n, NEW k \in 1..size(i), NEW m \in 1..size(j), at[i][k] < at[j][m]
      PROVE  i < j \/ (i = j /\ k < m)
    <2>1. at[i][k] \in Nat /\ at[j][m] \in Nat /\ i \in Nat /\ j \in Nat /\ k \in Nat /\ m \in Nat
        BY <1>1, <1>5
    <2>2. ~ (j < i)
        BY <1>5, <1>6, <2>1
    <2>3. ~ (j = i /\ m < k)
        BY <1>5, <1>6, <2>1
    <2>4. ~ (j = i /\ m = k)
        BY <1>6, <2>1
    <2> QED
        BY <2>1, <2>2, <2>3, <2>4
<1>7. ASSUME NEW w \in 1..Len(g) PROVE \E i \in 1..n : \E k \in 1..size(i) : w = at[i][k]
    <2>1. PICK i \in 1..n : \E k \in 1..size(i) : w = start[i] + k - 1
        BY <1>2
    <2>2. PICK k \in 1..size(i) : w = start[i] + k - 1
        BY <2>1
    <2> QED
        BY <1>3, <2>2
<1>8. Woven(g, piece, at)
    <2>1. \A i \in DOMAIN piece : \A k \in DOMAIN piece[i] :
            at[i][k] \in DOMAIN g /\ g[at[i][k]] = piece[i][k]
        BY <1>1, <1>4
    <2>2. ASSUME NEW i \in DOMAIN piece, NEW j \in DOMAIN piece,
                 NEW k \in DOMAIN piece[i], NEW m \in DOMAIN piece[j]
          PROVE  at[i][k] < at[j][m] <=> i < j \/ (i = j /\ k < m)
        <3>1. i \in 1..n /\ j \in 1..n /\ k \in 1..size(i) /\ m \in 1..size(j)
            BY <1>1
        <3> QED
            BY <1>5, <1>6, <3>1
    <2>3. \A w \in DOMAIN g : \E i \in DOMAIN piece : \E k \in DOMAIN piece[i] : w = at[i][k]
        BY <1>1, <1>7
    <2> QED
        BY <2>1, <2>2, <2>3 DEF Woven
<1> QED
    BY <1>8

\* A rewritten Dockerfile has its pieces one after the other, in the order of the
\* lines they stand for.
LEMMA RewriteWoven ==
    ASSUME NEW S, NEW T, NEW f \in Seq(T), Len(f) # 0, NEW piece \in Seq(Seq(S)), Len(piece) = Len(f)
    PROVE  /\ Rewrite(f, piece) \in Seq(S)
           /\ \E at : Woven(Rewrite(f, piece), piece, at)
<1>1. [i \in DOMAIN f |-> piece[i]] = piece
    OBVIOUS
<1>2. Rewrite(f, piece) = FlattenSeq(piece)
    BY <1>1 DEF Rewrite
<1>3. FlattenSeq(piece) \in Seq(S) /\ \E start : LaidOut(FlattenSeq(piece), piece, start)
    BY FlattenLaysOut
<1> QED
    BY <1>2, <1>3, LaidOutWoven

-----------------------------------------------------------------------------
(* What dangles, what Docker parses and who runs, through a rewriting.     *)

\* The instructions that end a stretch of lines, as in Ends.
EndOps == {"HEALTHCHECK", "ENTRYPOINT"}
\* The lines that Dangles looks past.
Skipped == {"USER", "blank"}

\* What a continued line goes on with.
LEMMA Undangled ==
    ASSUME NEW f \in Seq(TextLines), NEW i \in DOMAIN f, f[i].more, ~Dangles(f, i)
    PROVE  \E j \in DOMAIN f : /\ i < j /\ f[j].op \notin Skipped \cup EndOps
                               /\ \A a \in (i + 1)..(j - 1) : f[a].op \in Skipped
<1> DEFINE n == Len(f)
           T == {j \in (i + 1)..n : f[j].op \notin Skipped}
<1>1. n \in Nat /\ DOMAIN f = 1..n /\ i \in 1..n
    OBVIOUS
<1> HIDE DEF n
<1>2. T # {}
    <2> SUFFICES ASSUME T = {} PROVE FALSE
        OBVIOUS
    <2>1. n + 1 \in (i + 1)..(n + 1) /\ (n + 1) - 1 = n
        BY <1>1
    <2>2. \A k \in (i + 1)..n : f[k].op \in {"USER", "blank"}
        BY DEF Skipped
    <2>3. Ends(f, n + 1)
        BY DEF Ends, n
    <2> QED
        BY <2>1, <2>2, <2>3 DEF Dangles, n
<1>3. PICK j \in T : \A x \in T : j <= x
    <2>1. T \in SUBSET (1..n)
        BY <1>1
    <2> HIDE DEF T
    <2> QED
        BY <1>1, <1>2, <2>1, MinLine
<1>4. j \in 1..n /\ i < j /\ f[j].op \notin Skipped
    BY <1>1
<1>5. \A a \in (i + 1)..(j - 1) : f[a].op \in Skipped
    <2> SUFFICES ASSUME NEW a \in (i + 1)..(j - 1), f[a].op \notin Skipped PROVE FALSE
        OBVIOUS
    <2>1. a \in T /\ a < j
        BY <1>1, <1>4
    <2> QED
        BY <1>3, <1>4, <2>1
<1>6. f[j].op \notin EndOps
    <2> SUFFICES ASSUME f[j].op \in EndOps PROVE FALSE
        OBVIOUS
    <2>1. Ends(f, j) /\ j \in (i + 1)..(n + 1)
        BY <1>1, <1>4 DEF Ends, EndOps
    <2> QED
        BY <1>5, <2>1 DEF Dangles, n, Skipped
<1> QED
    BY <1>1, <1>4, <1>5, <1>6

\* Pieces in place of the lines of f that leave nothing dangling.
NoneLoose(f, piece) ==
    /\ \A i \in DOMAIN piece : \A k \in DOMAIN piece[i] :
         k + 1 \in DOMAIN piece[i] /\ piece[i][k].more => piece[i][k + 1].op \notin Skipped \cup EndOps
    /\ \A i \in DOMAIN piece : \A k \in DOMAIN piece[i] :
         k + 1 \notin DOMAIN piece[i] /\ piece[i][k].more => f[i].more
    /\ \A i \in DOMAIN piece : i # Len(f) /\ f[i].op \in Skipped =>
         \A k \in DOMAIN piece[i] : piece[i][k].op \notin EndOps
    /\ \A i, j \in DOMAIN piece :
         /\ i < j /\ f[i].more /\ piece[i] # <<>>
         /\ f[j].op \notin Skipped \cup EndOps
         /\ \A a \in (i + 1)..(j - 1) : f[a].op \in Skipped
         => \E b \in DOMAIN piece[j] : /\ piece[j][b].op \notin Skipped \cup EndOps
                                       /\ \A c \in DOMAIN piece[j] : c < b => piece[j][c].op \notin EndOps

\* A rewriting with no loose end in any of its pieces leaves nothing dangling.
LEMMA NoneDangles ==
    ASSUME NEW f \in Seq(TextLines), NEW g \in Seq(TextLines),
           NEW piece \in Seq(Seq(TextLines)), Len(piece) = Len(f), NEW at, Woven(g, piece, at),
           \A i \in DOMAIN f : ~Dangles(f, i), NoneLoose(f, piece)
    PROVE  \A w \in DOMAIN g : ~Dangles(g, w)
<1> SUFFICES ASSUME NEW w \in DOMAIN g, Dangles(g, w) PROVE FALSE
    OBVIOUS
<1> DEFINE n == Len(f)
<1>1. /\ n \in Nat /\ DOMAIN f = 1..n /\ DOMAIN piece = 1..n
      /\ Len(g) \in Nat /\ DOMAIN g = 1..Len(g)
      /\ \A i \in 1..n : DOMAIN piece[i] = 1..Len(piece[i]) /\ Len(piece[i]) \in Nat
    OBVIOUS
<1> HIDE DEF n
<1>2. /\ \A i \in DOMAIN piece : \A k \in DOMAIN piece[i] : at[i][k] \in DOMAIN g /\ g[at[i][k]] = piece[i][k]
      /\ \A i, j \in DOMAIN piece : \A k \in DOMAIN piece[i], m \in DOMAIN piece[j] :
           at[i][k] < at[j][m] <=> i < j \/ (i = j /\ k < m)
      /\ \A x \in DOMAIN g : \E i \in DOMAIN piece : \E k \in DOMAIN piece[i] : x = at[i][k]
    BY DEF Woven
<1>3. PICK e \in (w + 1)..(Len(g) + 1) : Ends(g, e) /\ \A k \in (w + 1)..(e - 1) : g[k].op \in Skipped
    BY DEF Dangles, Skipped
<1>4. g[w].more /\ w \in Nat /\ e \in Nat /\ w < e
    BY <1>1 DEF Dangles
<1>5. PICK i \in DOMAIN piece : \E k \in DOMAIN piece[i] : w = at[i][k]
    BY <1>2
<1>6. PICK k \in DOMAIN piece[i] : w = at[i][k]
    BY <1>5
<1>7. piece[i][k].more
    BY <1>2, <1>4, <1>6
\* A line after w that is neither skipped nor an end is not before e.
<1>8. ASSUME NEW j \in DOMAIN piece, NEW b \in DOMAIN piece[j], w < at[j][b],
             piece[j][b].op \notin Skipped \cup EndOps
      PROVE  e < at[j][b] /\ e \in DOMAIN g /\ g[e].op \in EndOps
    <2>1. at[j][b] \in 1..Len(g) /\ g[at[j][b]] = piece[j][b]
        BY <1>1, <1>2
    <2>2. ~ (at[j][b] < e)
        <3> SUFFICES ASSUME at[j][b] < e PROVE FALSE
            OBVIOUS
        <3>1. at[j][b] \in (w + 1)..(e - 1)
            <4> DEFINE x == at[j][b]
            <4>1. x \in Nat /\ w \in Nat /\ e \in Nat /\ w < x /\ x < e
                BY <1>1, <1>4, <1>8, <2>1, SMTT(30)
            <4> HIDE DEF x
            <4>2. x \in (w + 1)..(e - 1)
                BY <4>1, Between
            <4> QED
                BY <4>2 DEF x
        <3> QED
            BY <1>3, <1>8, <2>1, <3>1
    <2>3. e # at[j][b]
        <3> SUFFICES ASSUME e = at[j][b] PROVE FALSE
            OBVIOUS
        <3>1. e # Len(g) + 1
            BY <1>1, <2>1
        <3> QED
            BY <1>3, <1>8, <2>1, <3>1 DEF Ends, EndOps
    <2>4. e < at[j][b] /\ e \in 1..Len(g)
        BY <1>1, <1>4, <2>1, <2>2, <2>3, SMTT(30)
    <2>5. e # Len(g) + 1
        BY <1>1, <2>4
    <2> QED
        BY <1>1, <1>3, <2>4, <2>5 DEF Ends, EndOps
<1>9. k + 1 \notin DOMAIN piece[i]
    <2> SUFFICES ASSUME k + 1 \in DOMAIN piece[i] PROVE FALSE
        OBVIOUS
    <2>1. piece[i][k + 1].op \notin Skipped \cup EndOps
        BY <1>1, <1>7 DEF NoneLoose
    <2>2. k \in Nat /\ k < k + 1
        BY <1>1
    <2>3. w < at[i][k + 1]
        BY <1>2, <1>6, <2>2
    <2>4. e < at[i][k + 1] /\ e \in DOMAIN g
        BY <1>8, <2>1, <2>3
    <2>5. PICK a \in DOMAIN piece : \E c \in DOMAIN piece[a] : e = at[a][c]
        BY <1>2, <2>4
    <2>6. PICK c \in DOMAIN piece[a] : e = at[a][c]
        BY <2>5
    <2>7. i < a \/ (i = a /\ k < c)
        BY <1>2, <1>4, <1>6, <2>6
    <2>8. a < i \/ (a = i /\ c < k + 1)
        BY <1>2, <2>4, <2>6
    <2>9. i \in Nat /\ a \in Nat /\ c \in Nat
        BY <1>1, SMTT(30)
    <2>10. k \in Nat
        BY <2>2
    <2> QED
        BY <2>7, <2>8, <2>9, <2>10, NothingBetween
<1>10. f[i].more
    BY <1>1, <1>7, <1>9 DEF NoneLoose
<1>11. PICK j \in DOMAIN piece : /\ i < j /\ f[j].op \notin Skipped \cup EndOps
                         /\ \A a \in (i + 1)..(j - 1) : f[a].op \in Skipped
    BY <1>1, <1>10, Undangled
<1>12. piece[i] # <<>>
    BY <1>1
<1>13. PICK b \in DOMAIN piece[j] : /\ piece[j][b].op \notin Skipped \cup EndOps
                                    /\ \A c \in DOMAIN piece[j] : c < b => piece[j][c].op \notin EndOps
    BY <1>1, <1>10, <1>11, <1>12 DEF NoneLoose
<1>14. w < at[j][b]
    BY <1>2, <1>6, <1>11
<1>15. e < at[j][b] /\ e \in DOMAIN g /\ g[e].op \in EndOps
    BY <1>8, <1>13, <1>14
<1>16. PICK a \in DOMAIN piece : \E c \in DOMAIN piece[a] : e = at[a][c]
    BY <1>2, <1>15
<1>17. PICK c \in DOMAIN piece[a] : e = at[a][c]
    BY <1>16
<1>18. piece[a][c].op \in EndOps
    BY <1>2, <1>15, <1>17
<1>19. i < a
    <2>1. i < a \/ (i = a /\ k < c)
        BY <1>2, <1>4, <1>6, <1>17
    <2>2. i = a => ~ (k < c)
        BY <1>1, <1>9
    <2> QED
        BY <2>1, <2>2
<1>20. a < j \/ (a = j /\ c < b)
    BY <1>2, <1>15, <1>17
<1>21. CASE a < j
    <2>1. a \in (i + 1)..(j - 1) /\ a # n
        <3>1. n \in Nat /\ a \in Nat /\ i \in Nat /\ j \in Nat /\ j <= n /\ i < a /\ a < j
            BY <1>1, <1>19, <1>21, SMTT(30)
        <3>4. i \in Nat /\ a \in Nat /\ j \in Nat /\ i < a /\ a < j
            BY <3>1
        <3>2. a \in (i + 1)..(j - 1)
            BY <3>4, Between
        <3>3. a < n
            BY <3>1
        <3> QED
            BY <3>1, <3>2, <3>3
    <2>2. f[a].op \in Skipped
        BY <1>11, <2>1
    <2> QED
        BY <1>1, <1>18, <2>1, <2>2 DEF NoneLoose, n
<1>22. CASE a = j /\ c < b
    BY <1>13, <1>18, <1>22
<1> QED
    BY <1>20, <1>21, <1>22

\* Line j goes on with the instruction that line i leaves open.
Continues(f, i, j) ==
    i < j /\ f[i].more /\ f[j].op # "blank" /\ \A k \in (i + 1)..(j - 1) : f[k].op = "blank"
\* What a continued line goes on with, and what makes a Dockerfile parse in terms
\* of each line and the next that is not empty.
GoesOnWith(line) == IF line.op = "HEALTHCHECK" THEN "CMD" ELSE "var"
\* Parses, line by line.
Local(f) ==
    /\ \A j \in DOMAIN f : f[j].op = "var" => \E i \in DOMAIN f : Continues(f, i, j)
    /\ \A i, j \in DOMAIN f : Continues(f, i, j) => f[j].op = GoesOnWith(f[i])
    /\ \A i \in DOMAIN f : f[i].more => \E j \in DOMAIN f : Continues(f, i, j)
    /\ \A i \in DOMAIN f : f[i].op = "HEALTHCHECK" /\ ~f[i].more => f[i].args # <<>>

\* A line that is not empty is inside an instruction when a line continues into it.
LEMMA InsideContinues ==
    ASSUME NEW f \in Seq(TextLines), NEW i \in DOMAIN f, f[i].op # "blank"
    PROVE  Inside(f, i) <=> \E p \in DOMAIN f : Continues(f, p, i)
<1>1. DOMAIN f = 1..Len(f) /\ Len(f) \in Nat
    OBVIOUS
<1>2. ASSUME Inside(f, i) PROVE \E p \in DOMAIN f : Continues(f, p, i)
    <2>1. PICK p \in 1..(i - 1) : f[p].more /\ \A j \in (p + 1)..(i - 1) : f[j].op = "blank"
        BY <1>2 DEF Inside
    <2>2. p \in DOMAIN f /\ p < i
        BY <1>1
    <2> QED
        BY <2>1, <2>2 DEF Continues
<1>3. ASSUME NEW p \in DOMAIN f, Continues(f, p, i) PROVE Inside(f, i)
    <2>1. p \in 1..(i - 1)
        BY <1>1, <1>3 DEF Continues
    <2> QED
        BY <1>3, <2>1 DEF Continues, Inside
<1> QED
    BY <1>2, <1>3

\* Only blank lines between the line that is open and the one that goes on.
LEMMA OpenerIsLast ==
    ASSUME NEW f \in Seq(TextLines), NEW p \in DOMAIN f, NEW i \in DOMAIN f, Continues(f, p, i),
           NEW q \in DOMAIN f, q < i, f[q].op # "blank"
    PROVE  q <= p
<1>1. DOMAIN f = 1..Len(f) /\ Len(f) \in Nat
    OBVIOUS
<1> SUFFICES ASSUME ~ (q <= p) PROVE FALSE
    OBVIOUS
<1>2. q \in (p + 1)..(i - 1)
    BY <1>1
<1> QED
    BY <1>2 DEF Continues

\* A continued line goes on with the first line that is not empty after it.
LEMMA NextLine ==
    ASSUME NEW f \in Seq(TextLines), NEW i \in DOMAIN f, f[i].more,
           NEW x \in DOMAIN f, i < x, f[x].op # "blank"
    PROVE  \E j \in DOMAIN f : Continues(f, i, j) /\ j <= x
<1> DEFINE n == Len(f)
           T == {j \in (i + 1)..n : f[j].op # "blank"}
<1>1. n \in Nat /\ DOMAIN f = 1..n /\ i \in 1..n /\ x \in 1..n
    OBVIOUS
<1> HIDE DEF n
<1>2. x \in T
    BY <1>1
<1>3. PICK j \in T : \A y \in T : j <= y
    <2>1. T \in SUBSET (1..n)
        BY <1>1
    <2> HIDE DEF T
    <2> QED
        BY <1>1, <1>2, <2>1, MinLine
<1>4. j \in 1..n /\ i < j /\ f[j].op # "blank" /\ j <= x
    BY <1>1, <1>2, <1>3
<1>5. \A a \in (i + 1)..(j - 1) : f[a].op = "blank"
    <2> SUFFICES ASSUME NEW a \in (i + 1)..(j - 1), f[a].op # "blank" PROVE FALSE
        OBVIOUS
    <2>1. a \in T /\ a < j
        BY <1>1, <1>4
    <2> QED
        BY <1>3, <1>4, <2>1
<1> QED
    BY <1>1, <1>4, <1>5 DEF Continues

\* The lines after one that is open, up to the one that goes on, are inside.
LEMMA InsideUpTo ==
    ASSUME NEW f \in Seq(TextLines), NEW p \in DOMAIN f, NEW i \in DOMAIN f, Continues(f, p, i)
    PROVE  \A k \in (p + 1)..i : Inside(f, k)
<1> SUFFICES ASSUME NEW k \in (p + 1)..i PROVE Inside(f, k)
    OBVIOUS
<1>1. DOMAIN f = 1..Len(f) /\ Len(f) \in Nat
    OBVIOUS
<1>2. p \in 1..(k - 1) /\ \A j \in (p + 1)..(k - 1) : j \in (p + 1)..(i - 1)
    BY <1>1
<1> QED
    BY <1>2 DEF Inside, Continues

\* What parses does so line by line, when nothing dangles.
LEMMA ParsesLocal ==
    ASSUME NEW f \in Seq(TextLines), \A i \in DOMAIN f : f[i].more => f[i].op \in Continuable,
           \A i \in DOMAIN f : ~Dangles(f, i), Parses(f)
    PROVE  Local(f)
<1>1. DOMAIN f = 1..Len(f) /\ Len(f) \in Nat
    OBVIOUS
<1>2. ASSUME NEW i \in DOMAIN f, f[i].op # "blank", Inside(f, i)
      PROVE  f[i].op = IF InHealthCheck(f, i) THEN "CMD" ELSE "var"
    BY <1>2 DEF Parses
<1>3. ASSUME NEW i \in DOMAIN f, f[i].op = "HEALTHCHECK" PROVE ~Inside(f, i)
    BY <1>2, <1>3
<1>4. ASSUME NEW j \in DOMAIN f, f[j].op = "var" PROVE \E i \in DOMAIN f : Continues(f, i, j)
    BY <1>4, InsideContinues DEF Parses
<1>5. ASSUME NEW p \in DOMAIN f, NEW i \in DOMAIN f, Continues(f, p, i) PROVE f[i].op = GoesOnWith(f[p])
    <2>1. Inside(f, i) /\ f[i].op # "blank" /\ p < i
        BY <1>5, InsideContinues DEF Continues
    <2>2. ASSUME f[p].op = "HEALTHCHECK" PROVE InHealthCheck(f, i)
        <3>1. p \in Begins(f, "HEALTHCHECK")
            BY <1>3, <2>2 DEF Begins, LinesOf
        <3> QED
            BY <1>5, <2>1, <3>1, InsideUpTo DEF InHealthCheck
    <2>3. ASSUME InHealthCheck(f, i) PROVE f[p].op = "HEALTHCHECK"
        <3>1. PICK h \in Begins(f, "HEALTHCHECK") : h < i /\ \A k \in (h + 1)..i : Inside(f, k)
            BY <2>3 DEF InHealthCheck
        <3>2. h \in DOMAIN f /\ f[h].op = "HEALTHCHECK"
            BY DEF Begins, LinesOf
        <3>3. h <= p
            BY <1>5, <3>1, <3>2, OpenerIsLast
        <3>4. CASE h < p
            <4>1. p \in (h + 1)..i
                BY <1>1, <2>1, <3>2, <3>4
            <4>2. \A k \in (h + 1)..p : k \in (h + 1)..i
                BY <1>1, <2>1
            <4>3. InHealthCheck(f, p) /\ Inside(f, p)
                BY <3>1, <3>4, <4>1, <4>2 DEF InHealthCheck
            <4>4. f[p].more /\ f[p].op \in Continuable
                BY <1>5 DEF Continues
            <4> QED
                BY <1>2, <4>3, <4>4 DEF Continuable
        <3> QED
            BY <1>1, <3>2, <3>3, <3>4
    <2> QED
        BY <1>2, <2>1, <2>2, <2>3 DEF GoesOnWith
<1>6. ASSUME NEW i \in DOMAIN f, f[i].more PROVE \E j \in DOMAIN f : Continues(f, i, j)
    <2>1. PICK x \in DOMAIN f : i < x /\ f[x].op \notin Skipped \cup EndOps
        BY <1>6, Undangled
    <2> QED
        BY <1>6, <2>1, NextLine DEF Skipped
<1>7. ASSUME NEW i \in DOMAIN f, f[i].op = "HEALTHCHECK", ~f[i].more PROVE f[i].args # <<>>
    <2>1. i \in Begins(f, "HEALTHCHECK")
        BY <1>3, <1>7 DEF Begins, LinesOf
    <2>2. HealthCheckEnds(f, i)
        BY <2>1 DEF Parses
    <2> SUFFICES ASSUME NEW c \in LinesOf(f, "CMD"), c > i, \A k \in (i + 1)..c : Inside(f, k) /\ (k < c => f[k].op = "blank")
                 PROVE  FALSE
        BY <2>2 DEF HealthCheckEnds
    <2>3. c \in DOMAIN f /\ f[c].op # "blank" /\ c \in (i + 1)..c
        BY <1>1 DEF LinesOf
    <2>4. PICK p \in DOMAIN f : Continues(f, p, c)
        BY <2>3, InsideContinues
    <2>5. i <= p
        BY <1>7, <2>3, <2>4, OpenerIsLast
    <2>6. p # i
        BY <1>7, <2>4 DEF Continues
    <2>7. p \in (i + 1)..c /\ p < c
        BY <1>1, <2>3, <2>4, <2>5, <2>6 DEF Continues
    <2>8. f[p].op = "blank"
        BY <2>7
    <2> QED
        BY <2>4, <2>8 DEF Continues, Continuable
<1> QED
    BY <1>4, <1>5, <1>6, <1>7 DEF Local

\* What parses line by line parses.
LEMMA LocalParses ==
    ASSUME NEW f \in Seq(TextLines), \A i \in DOMAIN f : f[i].more => f[i].op \in Continuable, Local(f)
    PROVE  Parses(f)
<1>1. DOMAIN f = 1..Len(f) /\ Len(f) \in Nat
    OBVIOUS
<1>2. ASSUME NEW i \in DOMAIN f, ~Inside(f, i) PROVE f[i].op # "var"
    BY <1>2, InsideContinues DEF Local
<1>3. ASSUME NEW p \in DOMAIN f, NEW i \in DOMAIN f, Continues(f, p, i)
      PROVE  f[i].op = GoesOnWith(f[p])
    BY <1>3 DEF Local
<1>4. ASSUME NEW i \in Begins(f, "HEALTHCHECK") PROVE HealthCheckEnds(f, i)
    <2>1. i \in DOMAIN f /\ f[i].op = "HEALTHCHECK"
        BY DEF Begins, LinesOf
    <2>2. CASE f[i].more
        <3>1. PICK c \in DOMAIN f : Continues(f, i, c)
            BY <2>1, <2>2 DEF Local
        <3>2. c \in LinesOf(f, "CMD") /\ c > i
            BY <1>1, <1>3, <2>1, <3>1 DEF GoesOnWith, LinesOf, Continues
        <3>3. \A k \in (i + 1)..c : k < c => k \in (i + 1)..(c - 1)
            BY <1>1, <2>1
        <3> QED
            BY <2>1, <3>1, <3>2, <3>3, InsideUpTo DEF HealthCheckEnds, Continues
    <2>3. CASE ~f[i].more
        BY <2>1, <2>3 DEF Local, HealthCheckEnds
    <2> QED
        BY <2>2, <2>3
\* What is open after the health check at h is not open any more after its CMD.
<1>5. ASSUME NEW h \in DOMAIN f, f[h].op = "HEALTHCHECK", NEW p \in DOMAIN f, h < p, f[p].more,
             \A k \in (h + 1)..p : Inside(f, k)
      PROVE  FALSE
    <2>1. f[p].op # "blank" /\ f[h].op # "blank"
        BY <1>5 DEF Continuable
    <2>2. f[h].more
        <3>1. h + 1 \in (h + 1)..p /\ h + 1 \in DOMAIN f
            BY <1>1, <1>5
        <3>2. PICK q \in 1..((h + 1) - 1) : f[q].more /\ \A j \in (q + 1)..((h + 1) - 1) : f[j].op = "blank"
            BY <1>5, <3>1 DEF Inside
        <3>3. q = h
            <4> SUFFICES ASSUME q # h PROVE FALSE
                OBVIOUS
            <4>1. h \in (q + 1)..((h + 1) - 1)
                BY <1>1
            <4> QED
                BY <2>1, <3>2, <4>1
        <3> QED
            BY <3>2, <3>3
    <2>3. PICK c \in DOMAIN f : Continues(f, h, c) /\ c <= p
        BY <1>5, <2>1, <2>2, NextLine
    <2>4. f[c].op = "CMD" /\ ~f[c].more /\ h < c
        BY <1>3, <1>5, <2>3 DEF GoesOnWith, Continues, Continuable
    <2>5. c < p /\ c + 1 \in (h + 1)..p
        BY <1>1, <1>5, <2>3, <2>4
    <2>6. PICK q \in 1..((c + 1) - 1) : f[q].more /\ \A j \in (q + 1)..((c + 1) - 1) : f[j].op = "blank"
        BY <1>5, <2>5 DEF Inside
    <2>7. q # c
        BY <2>4, <2>6
    <2>8. c \in (q + 1)..((c + 1) - 1)
        BY <1>1, <2>7
    <2> QED
        BY <2>4, <2>6, <2>8
<1>6. ASSUME NEW i \in DOMAIN f, Inside(f, i), f[i].op # "blank"
      PROVE  f[i].op = IF InHealthCheck(f, i) THEN "CMD" ELSE "var"
    <2>1. PICK p \in DOMAIN f : Continues(f, p, i)
        BY <1>6, InsideContinues
    <2>2. ASSUME f[p].op = "HEALTHCHECK" PROVE InHealthCheck(f, i)
        <3>1. ~Inside(f, p)
            BY <1>3, <2>2, InsideContinues DEF GoesOnWith
        <3>2. p \in Begins(f, "HEALTHCHECK") /\ p < i
            BY <2>1, <2>2, <3>1 DEF Begins, LinesOf, Continues
        <3> QED
            BY <2>1, <3>2, InsideUpTo DEF InHealthCheck
    <2>3. ASSUME InHealthCheck(f, i) PROVE f[p].op = "HEALTHCHECK"
        <3>1. PICK h \in Begins(f, "HEALTHCHECK") : h < i /\ \A k \in (h + 1)..i : Inside(f, k)
            BY <2>3 DEF InHealthCheck
        <3>2. h \in DOMAIN f /\ f[h].op = "HEALTHCHECK"
            BY DEF Begins, LinesOf
        <3>3. h <= p
            BY <2>1, <3>1, <3>2, OpenerIsLast
        <3>4. p < i /\ f[p].more
            BY <2>1 DEF Continues
        <3>5. \A k \in (h + 1)..p : k \in (h + 1)..i
            BY <1>1, <3>4
        <3>6. ~ (h < p)
            BY <1>5, <3>1, <3>2, <3>4, <3>5
        <3> QED
            BY <1>1, <3>2, <3>3, <3>6
    <2>4. f[i].op = GoesOnWith(f[p])
        BY <1>3, <2>1
    <2> QED
        BY <2>2, <2>3, <2>4 DEF GoesOnWith
<1>7. ASSUME NEW i \in DOMAIN f, Inside(f, i)
      PROVE  f[i].op \in IF InHealthCheck(f, i) THEN {"CMD", "blank"} ELSE {"var", "blank"}
    BY <1>6, <1>7
<1> QED
    BY <1>2, <1>4, <1>7 DEF Parses

\* Empty lines stand for empty lines, and other lines for other lines.
BlankAlike(f, piece) ==
    \A i \in DOMAIN piece : \A k \in DOMAIN piece[i] :
        /\ piece[i][k].op = "blank" => f[i].op = "blank"
        /\ f[i].op = "blank" /\ i # Len(f) => piece[i][k].op = "blank"

\* Pieces in place of the lines of f that begin, go on and end as these do.
WellJoined(f, piece) ==
    /\ BlankAlike(f, piece)
    /\ \A i \in DOMAIN piece : piece[i] # <<>> =>
         IF \E p \in DOMAIN f : Continues(f, p, i) THEN piece[i][1].op = f[i].op ELSE piece[i][1].op # "var"
    /\ \A i \in DOMAIN piece : \A k \in DOMAIN piece[i] : k + 1 \in DOMAIN piece[i] =>
         IF piece[i][k].more THEN piece[i][k + 1].op = GoesOnWith(piece[i][k]) ELSE piece[i][k + 1].op # "var"
    /\ \A i \in DOMAIN piece : \A k \in DOMAIN piece[i] : k + 1 \notin DOMAIN piece[i] =>
         /\ piece[i][k].more <=> f[i].more
         /\ f[i].more => GoesOnWith(piece[i][k]) = GoesOnWith(f[i])
    /\ \A i \in DOMAIN piece : \A k \in DOMAIN piece[i] :
         piece[i][k].op = "HEALTHCHECK" /\ ~piece[i][k].more => piece[i][k].args # <<>>
    /\ \A i, j \in DOMAIN piece : Continues(f, i, j) =>
         IF piece[i] # <<>> THEN piece[j] # <<>> ELSE piece[j] # <<>> => f[j].op # "var"

\* A rewriting whose pieces join as the lines did keeps what parses line by line.
LEMMA LocalKept ==
    ASSUME NEW f \in Seq(TextLines), NEW g \in Seq(TextLines),
           NEW piece \in Seq(Seq(TextLines)), Len(piece) = Len(f), NEW at, Woven(g, piece, at),
           \A i \in DOMAIN g : g[i].more => g[i].op \in Continuable, WellJoined(f, piece), Local(f)
    PROVE  Local(g)
<1>1. /\ DOMAIN f = DOMAIN piece /\ DOMAIN f \subseteq Nat /\ DOMAIN g \subseteq Nat
      /\ DOMAIN f = 1..Len(f) /\ Len(f) \in Nat
      /\ \A i \in DOMAIN piece : DOMAIN piece[i] \subseteq Nat
      /\ \A i \in DOMAIN piece : piece[i] # <<>> <=> 1 \in DOMAIN piece[i]
      /\ \A i \in DOMAIN piece : \A k \in DOMAIN piece[i] : \A b \in Nat : 1 <= b /\ b <= k => b \in DOMAIN piece[i]
    OBVIOUS
<1>2. /\ \A i \in DOMAIN piece : \A k \in DOMAIN piece[i] : at[i][k] \in DOMAIN g /\ g[at[i][k]] = piece[i][k]
      /\ \A i, j \in DOMAIN piece : \A k \in DOMAIN piece[i], m \in DOMAIN piece[j] :
           at[i][k] < at[j][m] <=> i < j \/ (i = j /\ k < m)
      /\ \A x \in DOMAIN g : \E i \in DOMAIN piece : \E k \in DOMAIN piece[i] : x = at[i][k]
    BY DEF Woven
\* Between two lines of g that are nonblank in g there is none if only blanks are.
<1>3. ASSUME NEW v \in DOMAIN g, NEW w \in DOMAIN g, Continues(g, v, w),
             NEW i \in DOMAIN piece, NEW k \in DOMAIN piece[i], v < at[i][k], at[i][k] < w
      PROVE  piece[i][k].op = "blank" /\ f[i].op = "blank"
    <2>1. at[i][k] \in (v + 1)..(w - 1)
        <3> DEFINE x == at[i][k]
        <3>1. x \in Nat /\ v \in Nat /\ w \in Nat /\ v < x /\ x < w
            BY <1>1, <1>2, <1>3
        <3> HIDE DEF x
        <3>2. x \in (v + 1)..(w - 1)
            BY <3>1
        <3> QED
            BY <3>2 DEF x
    <2>2. g[at[i][k]].op = "blank"
        BY <1>3, <2>1 DEF Continues
    <2>3. piece[i][k].op = "blank"
        BY <1>2, <2>2
    <2> QED
        BY <2>3 DEF WellJoined, BlankAlike
\* A line and the next of its piece.
<1>4. ASSUME NEW i \in DOMAIN piece, NEW k \in DOMAIN piece[i], k + 1 \in DOMAIN piece[i], piece[i][k].more
      PROVE  Continues(g, at[i][k], at[i][k + 1])
    <2>1. k < k + 1
        BY <1>1
    <2>2. at[i][k] < at[i][k + 1]
        BY <1>2, <1>4, <2>1
    <2>3. g[at[i][k]].more /\ g[at[i][k + 1]] = piece[i][k + 1] /\ piece[i][k + 1].op # "blank"
        <3>1. piece[i][k + 1].op = GoesOnWith(piece[i][k])
            BY <1>4 DEF WellJoined
        <3>2. piece[i][k + 1].op # "blank"
            BY <3>1 DEF GoesOnWith
        <3> QED
            BY <1>2, <1>4, <3>2
    <2>4. ASSUME NEW x \in (at[i][k] + 1)..(at[i][k + 1] - 1) PROVE FALSE
        <3> DEFINE a == at[i][k]
                   b == at[i][k + 1]
        <3>1. a \in DOMAIN g /\ b \in DOMAIN g /\ a \in Nat /\ b \in Nat
            BY <1>1, <1>2, <1>4
        <3>2. x \in DOMAIN g /\ a < x /\ x < b
            <4>1. x \in (a + 1)..(b - 1) /\ DOMAIN g = 1..Len(g) /\ Len(g) \in Nat
                BY <2>4
            <4> HIDE DEF a, b
            <4> QED
                BY <3>1, <4>1
        <3>3. PICK j \in DOMAIN piece : \E m \in DOMAIN piece[j] : x = at[j][m]
            BY <1>2, <3>2
        <3>4. PICK m \in DOMAIN piece[j] : x = at[j][m]
            BY <3>3
        <3>5. i < j \/ (i = j /\ k < m)
            BY <1>2, <3>2, <3>4
        <3>6. j < i \/ (j = i /\ m < k + 1)
            BY <1>2, <1>4, <3>2, <3>4
        <3>7. i \in Nat /\ j \in Nat /\ k \in Nat /\ m \in Nat
            BY <1>1
        <3> QED
            BY <3>5, <3>6, <3>7
    <2> QED
        BY <2>2, <2>3, <2>4 DEF Continues
\* The last line of a piece and the first of the piece of the line that goes on.
<1>5. ASSUME NEW i \in DOMAIN piece, NEW k \in DOMAIN piece[i], k + 1 \notin DOMAIN piece[i],
             NEW j \in DOMAIN piece, Continues(f, i, j), 1 \in DOMAIN piece[j]
      PROVE  Continues(g, at[i][k], at[j][1])
    <2>1. i < j /\ f[i].more /\ f[j].op # "blank" /\ \A a \in (i + 1)..(j - 1) : f[a].op = "blank"
        BY <1>5 DEF Continues
    <2>2. at[i][k] < at[j][1]
        BY <1>2, <1>5, <2>1
    <2>3. g[at[i][k]].more
        <3>1. piece[i][k].more
            BY <1>5, <2>1 DEF WellJoined
        <3> QED
            BY <1>2, <3>1
    <2>4. g[at[j][1]] = piece[j][1] /\ piece[j][1].op # "blank"
        <3>1. piece[j][1].op # "blank"
            BY <1>5, <2>1 DEF WellJoined, BlankAlike
        <3> QED
            BY <1>2, <1>5, <3>1
    <2>5. ASSUME NEW x \in (at[i][k] + 1)..(at[j][1] - 1) PROVE g[x].op = "blank"
        <3> DEFINE a == at[i][k]
                   b == at[j][1]
        <3>1. a \in DOMAIN g /\ b \in DOMAIN g /\ a \in Nat /\ b \in Nat
            BY <1>1, <1>2, <1>5
        <3>2. x \in DOMAIN g /\ a < x /\ x < b
            <4>1. x \in (a + 1)..(b - 1) /\ DOMAIN g = 1..Len(g) /\ Len(g) \in Nat
                BY <2>5
            <4> HIDE DEF a, b
            <4> QED
                BY <3>1, <4>1
        <3>3. PICK c \in DOMAIN piece : \E m \in DOMAIN piece[c] : x = at[c][m]
            BY <1>2, <3>2
        <3>4. PICK m \in DOMAIN piece[c] : x = at[c][m]
            BY <3>3
        <3>5. i < c \/ (i = c /\ k < m)
            BY <1>2, <3>2, <3>4
        <3>6. c < j \/ (c = j /\ m < 1)
            BY <1>2, <1>5, <3>2, <3>4
        <3>7. i \in Nat /\ j \in Nat /\ k \in Nat /\ m \in Nat /\ c \in Nat /\ m >= 1
            BY <1>1, SMTT(30)
        <3>8. ~ (i = c /\ k < m)
            <4> SUFFICES ASSUME i = c, k < m PROVE FALSE
                OBVIOUS
            <4>1. k + 1 \in Nat /\ 1 <= k + 1 /\ k + 1 <= m
                BY <3>7
            <4>2. k + 1 \in DOMAIN piece[i]
                BY <1>1, <3>4, <4>1
            <4> QED
                BY <1>5, <4>2
        <3>9. c \in (i + 1)..(j - 1)
            BY <3>5, <3>6, <3>7, <3>8, SMTT(30)
        <3>10. f[c].op = "blank"
            BY <2>1, <3>9
        <3>11. c # Len(f)
            BY <1>1, <3>5, <3>6, <3>7, <3>8
        <3>12. piece[c][m].op = "blank"
            BY <3>10, <3>11 DEF WellJoined, BlankAlike
        <3> QED
            BY <1>2, <3>4, <3>12
    <2> QED
        BY <2>2, <2>3, <2>4, <2>5 DEF Continues
<1>6. ASSUME NEW j \in DOMAIN g, g[j].op = "var" PROVE \E w \in DOMAIN g : Continues(g, w, j)
    <2>1. PICK i \in DOMAIN piece : \E k \in DOMAIN piece[i] : j = at[i][k]
        BY <1>2
    <2>2. PICK k \in DOMAIN piece[i] : j = at[i][k]
        BY <2>1
    <2>3. piece[i][k].op = "var"
        BY <1>2, <1>6, <2>2
    <2>4. CASE k # 1
        <3> DEFINE b == k - 1
        <3>1. b \in DOMAIN piece[i] /\ b + 1 = k
            <4>1. k \in Nat /\ k >= 1
                BY <1>1
            <4>2. b \in Nat /\ 1 <= b /\ b <= k /\ b + 1 = k
                BY <2>4, <4>1
            <4> QED
                BY <1>1, <4>2
        <3> HIDE DEF b
        <3>2. piece[i][b].more
            BY <2>3, <3>1 DEF WellJoined
        <3>3. Continues(g, at[i][b], j)
            BY <1>4, <2>2, <3>1, <3>2
        <3> QED
            BY <1>2, <3>1, <3>3
    <2>5. CASE k = 1
        <3>1. piece[i] # <<>>
            BY <1>1, <2>5
        <3>2. (\E p \in DOMAIN f : Continues(f, p, i)) /\ f[i].op = "var"
            BY <2>3, <2>5, <3>1 DEF WellJoined
        <3>3. PICK p \in DOMAIN f : Continues(f, p, i)
            BY <3>2
        <3>4. p \in DOMAIN piece /\ piece[p] # <<>>
            BY <1>1, <3>1, <3>2, <3>3 DEF WellJoined
        <3> DEFINE k2 == Len(piece[p])
        <3>5. k2 \in DOMAIN piece[p] /\ k2 + 1 \notin DOMAIN piece[p]
            <4>1. piece[p] \in Seq(TextLines)
                BY <3>4
            <4> QED
                BY <3>4, <4>1
        <3> HIDE DEF k2
        <3>6. Continues(g, at[p][k2], j)
            BY <1>1, <1>5, <2>2, <2>5, <3>1, <3>3, <3>4, <3>5
        <3> QED
            BY <1>2, <3>4, <3>5, <3>6
    <2> QED
        BY <2>4, <2>5
<1>7. ASSUME NEW v \in DOMAIN g, NEW w \in DOMAIN g, Continues(g, v, w) PROVE g[w].op = GoesOnWith(g[v])
    <2>1. PICK i \in DOMAIN piece : \E k \in DOMAIN piece[i] : v = at[i][k]
        BY <1>2
    <2>2. PICK k \in DOMAIN piece[i] : v = at[i][k]
        BY <2>1
    <2>3. PICK j \in DOMAIN piece : \E m \in DOMAIN piece[j] : w = at[j][m]
        BY <1>2
    <2>4. PICK m \in DOMAIN piece[j] : w = at[j][m]
        BY <2>3
    <2>5. i < j \/ (i = j /\ k < m)
        BY <1>2, <1>7, <2>2, <2>4 DEF Continues
    <2>6. g[v] = piece[i][k] /\ g[w] = piece[j][m] /\ piece[i][k].more /\ piece[i][k].op # "blank"
          /\ piece[j][m].op # "blank"
        BY <1>2, <1>7, <2>2, <2>4 DEF Continues, Continuable
    <2>7. (i # Len(f) => f[i].op # "blank") /\ (j # Len(f) => f[j].op # "blank")
        BY <2>6, SMTT(30) DEF WellJoined, BlankAlike
    <2>8. i \in Nat /\ j \in Nat /\ k \in Nat /\ m \in Nat /\ m >= 1
        BY <1>1, SMTT(30)
    <2>9. CASE k + 1 \in DOMAIN piece[i]
        <3>1. ~ (at[i][k + 1] < w)
            <4> SUFFICES ASSUME at[i][k + 1] < w PROVE FALSE
                OBVIOUS
            <4>1. v < at[i][k + 1]
                <5>1. k < k + 1
                    BY <2>8
                <5> QED
                    BY <1>2, <2>2, <2>9, <5>1
            <4>2. piece[i][k + 1].op = GoesOnWith(piece[i][k])
                BY <2>6, <2>9 DEF WellJoined
            <4>3. piece[i][k + 1].op # "blank"
                BY <4>2 DEF GoesOnWith
            <4> QED
                BY <1>3, <1>7, <2>9, <4>1, <4>3
        <3>2. ~ (i < j \/ (i = j /\ k + 1 < m))
            BY <1>2, <2>4, <2>9, <3>1
        <3>3. i = j /\ m = k + 1
            BY <2>5, <2>8, <3>2
        <3> QED
            BY <2>6, <2>9, <3>3 DEF WellJoined
    <2>10. CASE k + 1 \notin DOMAIN piece[i]
        <3>1. i < j
            <4> SUFFICES ASSUME i = j, k < m PROVE FALSE
                BY <2>5
            <4>1. k + 1 \in Nat /\ 1 <= k + 1 /\ k + 1 <= m
                BY <2>8
            <4> QED
                BY <1>1, <2>10, <4>1
        <3>2. f[i].more
            BY <2>6, <2>10 DEF WellJoined
        <3>3. PICK c \in DOMAIN piece : Continues(f, i, c)
            BY <1>1, <3>2 DEF Local
        <3>4. piece[c] # <<>> /\ 1 \in DOMAIN piece[c]
            <4>1. piece[i] # <<>>
                BY <2>2
            <4> QED
                BY <1>1, <3>3, <4>1 DEF WellJoined
        <3>5. i < c /\ f[c].op # "blank" /\ c \in Nat
            BY <1>1, <3>3 DEF Continues
        <3>6. ~ (at[c][1] < w)
            <4> SUFFICES ASSUME at[c][1] < w PROVE FALSE
                OBVIOUS
            <4>1. v < at[c][1]
                BY <1>2, <2>2, <3>4, <3>5
            <4> QED
                BY <1>3, <1>7, <3>4, <3>5, <4>1
        <3>7. ~ (c < j \/ (c = j /\ 1 < m))
            BY <1>2, <2>4, <3>4, <3>6
        <3>8. ~ (j < c)
            <4> SUFFICES ASSUME j < c PROVE FALSE
                OBVIOUS
            <4>1. j \in (i + 1)..(c - 1) /\ j # Len(f)
                <5>1. c <= Len(f) /\ Len(f) \in Nat
                    BY <1>1
                <5>2. j \in (i + 1)..(c - 1)
                    BY <2>8, <3>1, <3>5, SMTT(30)
                <5>3. j # Len(f)
                    BY <2>8, <3>5, <5>1
                <5> QED
                    BY <5>2, <5>3
            <4> QED
                BY <2>7, <3>3, <4>1 DEF Continues
        <3>9. j = c /\ m = 1
            BY <2>8, <3>5, <3>7, <3>8
        <3>10. piece[j][1].op = f[j].op /\ f[j].op = GoesOnWith(f[i])
            BY <1>1, <3>3, <3>4, <3>9 DEF WellJoined, Local
        <3>11. GoesOnWith(piece[i][k]) = GoesOnWith(f[i])
            BY <2>10, <3>2 DEF WellJoined
        <3> QED
            BY <2>6, <3>9, <3>10, <3>11
    <2> QED
        BY <2>9, <2>10
<1>8. ASSUME NEW v \in DOMAIN g, g[v].more PROVE \E w \in DOMAIN g : Continues(g, v, w)
    <2>1. PICK i \in DOMAIN piece : \E k \in DOMAIN piece[i] : v = at[i][k]
        BY <1>2
    <2>2. PICK k \in DOMAIN piece[i] : v = at[i][k]
        BY <2>1
    <2>3. piece[i][k].more
        BY <1>2, <1>8, <2>2
    <2>4. CASE k + 1 \in DOMAIN piece[i]
        BY <1>2, <1>4, <2>2, <2>3, <2>4
    <2>5. CASE k + 1 \notin DOMAIN piece[i]
        <3>1. f[i].more
            BY <2>3, <2>5 DEF WellJoined
        <3>2. PICK c \in DOMAIN piece : Continues(f, i, c)
            BY <1>1, <3>1 DEF Local
        <3>3. 1 \in DOMAIN piece[c]
            <4>1. piece[i] # <<>>
                BY <2>2
            <4> QED
                BY <1>1, <3>2, <4>1 DEF WellJoined
        <3> QED
            BY <1>2, <1>5, <2>2, <2>5, <3>2, <3>3
    <2> QED
        BY <2>4, <2>5
<1>9. ASSUME NEW v \in DOMAIN g, g[v].op = "HEALTHCHECK", ~g[v].more PROVE g[v].args # <<>>
    <2>1. PICK i \in DOMAIN piece : \E k \in DOMAIN piece[i] : v = at[i][k]
        BY <1>2
    <2>2. PICK k \in DOMAIN piece[i] : v = at[i][k]
        BY <2>1
    <2> QED
        BY <1>2, <1>9, <2>2, SMTT(30) DEF WellJoined
<1> QED
    BY <1>6, <1>7, <1>8, <1>9 DEF Local

\* No USER line is part of another instruction.
NoUserInside(f) == \A i \in LinesOf(f, "USER") : ~Inside(f, i)
\* u is the last USER line, it is of the last stage and it names 65532.
EndsAs(f, u) ==
    /\ u \in LinesOf(f, "USER") /\ f[u].args = Exec(<<"65532">>)
    /\ \A v \in LinesOf(f, "USER") : v <= u
    /\ \A v \in LinesOf(f, "FROM") : v < u

\* In a Dockerfile that parses, every USER line is an instruction.
LEMMA ParsesNoUserInside ==
    ASSUME NEW f, Parses(f)
    PROVE  NoUserInside(f)
BY DEF Parses, NoUserInside, LinesOf

\* Where no USER is inside another instruction, the last of the last stage counts.
LEMMA NonrootEnds ==
    ASSUME NEW f \in Seq(TextLines), LinesOf(f, "FROM") # {}, NoUserInside(f)
    PROVE  Nonroot(f) <=> \E u \in DOMAIN f : EndsAs(f, u)
<1> DEFINE n == Len(f)
           own == {i \in Begins(f, "USER") : i > LastLine(f, "FROM")}
           last == LastLine(f, "FROM")
<1>1. n \in Nat /\ DOMAIN f = 1..n
    OBVIOUS
<1> HIDE DEF n
<1>2. last \in LinesOf(f, "FROM") /\ \A v \in LinesOf(f, "FROM") : v <= last
    <2>1. LinesOf(f, "FROM") \in SUBSET (1..n)
        BY <1>1 DEF LinesOf
    <2>2. last = Max(LinesOf(f, "FROM"))
        BY DEF LastLine
    <2> HIDE DEF last
    <2> QED
        BY <1>1, <2>1, <2>2, MaxLine
<1>3. last \in 1..n /\ f[last].op = "FROM"
    BY <1>1, <1>2 DEF LinesOf
<1> HIDE DEF last
<1>4. own = {i \in LinesOf(f, "USER") : i > last} /\ own \in SUBSET (1..n)
    BY <1>1 DEF Begins, NoUserInside, LinesOf, last
<1>5. Exec(<<"65532">>) # <<>>
    BY DEF Exec
<1>6. Nonroot(f) <=> own # {} /\ f[Max(own)].args = Exec(<<"65532">>)
    BY <1>5 DEF Nonroot, InForce
<1> HIDE DEF own
<1>7. own # {} => Max(own) \in own /\ \A v \in own : v <= Max(own)
    BY <1>1, <1>4, MaxLine
<1>8. ASSUME own # {}, f[Max(own)].args = Exec(<<"65532">>) PROVE \E u \in DOMAIN f : EndsAs(f, u)
    <2> DEFINE u == Max(own)
    <2>1. u \in own /\ \A v \in own : v <= u
        BY <1>7, <1>8
    <2>2. u \in 1..n /\ u \in LinesOf(f, "USER") /\ u > last /\ f[u].args = Exec(<<"65532">>)
        BY <1>4, <1>8, <2>1
    <2> HIDE DEF u
    <2>3. ASSUME NEW v \in LinesOf(f, "USER") PROVE v <= u
        <3>1. v \in 1..n
            BY <1>1 DEF LinesOf
        <3>2. CASE v > last
            BY <1>4, <2>1, <3>2
        <3>3. CASE ~ (v > last)
            BY <1>3, <2>2, <3>1, <3>3
        <3> QED
            BY <3>2, <3>3
    <2>4. ASSUME NEW v \in LinesOf(f, "FROM") PROVE v < u
        <3>1. v \in 1..n /\ v <= last
            BY <1>1, <1>2 DEF LinesOf
        <3> QED
            BY <1>3, <2>2, <3>1
    <2> QED
        BY <1>1, <2>2, <2>3, <2>4 DEF EndsAs
<1>9. ASSUME NEW u \in DOMAIN f, EndsAs(f, u) PROVE own # {} /\ f[Max(own)].args = Exec(<<"65532">>)
    <2>1. u \in LinesOf(f, "USER") /\ f[u].args = Exec(<<"65532">>) /\ last < u
          /\ \A v \in LinesOf(f, "USER") : v <= u
        BY <1>2, <1>9 DEF EndsAs
    <2>2. u \in own
        BY <1>1, <1>3, <1>4, <2>1
    <2>3. Max(own) = u
        <3>1. Max(own) \in own /\ u <= Max(own) /\ Max(own) <= u /\ Max(own) \in 1..n
            BY <1>4, <1>7, <2>1, <2>2
        <3> DEFINE m == Max(own)
        <3> HIDE DEF m
        <3>2. m \in Nat /\ u \in Nat /\ u <= m /\ m <= u
            BY <1>1, <3>1 DEF m
        <3>3. m = u
            BY <3>2
        <3> QED
            BY <3>3 DEF m
    <2> QED
        BY <2>1, <2>2, <2>3
<1> QED
    BY <1>6, <1>8, <1>9

\* Pieces that keep the USER lines, and open none before them.
UsersKept(f, piece) ==
    /\ BlankAlike(f, piece)
    /\ \A i \in DOMAIN piece : \A k \in DOMAIN piece[i] : piece[i][k].op = "USER" => f[i].op = "USER" /\ k = 1
    /\ \A i \in DOMAIN piece : f[i].op = "USER" =>
         piece[i] # <<>> /\ piece[i][1].op = "USER" /\ (f[i].args = Exec(<<"65532">>) => piece[i][1].args = f[i].args)
    /\ \A i \in DOMAIN piece : \A k \in DOMAIN piece[i] : piece[i][k].op = "FROM" => f[i].op = "FROM"
    /\ \A i \in DOMAIN piece : \A k \in DOMAIN piece[i] :
         k + 1 \notin DOMAIN piece[i] /\ piece[i][k].more => f[i].more
    /\ \A i, u \in DOMAIN piece : i < u /\ f[i].more /\ piece[i] # <<>> /\ f[u].op = "USER" =>
         \E a \in (i + 1)..(u - 1) : piece[a] # <<>> /\ f[a].op # "blank"

\* A rewriting that keeps the USER lines keeps the user of the container.
LEMMA NonrootTransported ==
    ASSUME NEW f \in Seq(TextLines), NEW g \in Seq(TextLines),
           NEW piece \in Seq(Seq(TextLines)), Len(piece) = Len(f), NEW at, Woven(g, piece, at),
           \A i \in DOMAIN g : g[i].more => g[i].op \in Continuable,
           LinesOf(f, "FROM") # {}, LinesOf(g, "FROM") # {},
           NoUserInside(f), UsersKept(f, piece)
    PROVE  NoUserInside(g) /\ (Nonroot(f) => Nonroot(g))
<1>1. /\ DOMAIN f = DOMAIN piece /\ DOMAIN f \subseteq Nat /\ DOMAIN g \subseteq Nat
      /\ DOMAIN f = 1..Len(f) /\ Len(f) \in Nat
      /\ \A i \in DOMAIN piece : DOMAIN piece[i] \subseteq Nat \ {0}
      /\ \A i \in DOMAIN piece : piece[i] # <<>> <=> 1 \in DOMAIN piece[i]
    OBVIOUS
<1>2. /\ \A i \in DOMAIN piece : \A k \in DOMAIN piece[i] : at[i][k] \in DOMAIN g /\ g[at[i][k]] = piece[i][k]
      /\ \A i, j \in DOMAIN piece : \A k \in DOMAIN piece[i], m \in DOMAIN piece[j] :
           at[i][k] < at[j][m] <=> i < j \/ (i = j /\ k < m)
      /\ \A x \in DOMAIN g : \E i \in DOMAIN piece : \E k \in DOMAIN piece[i] : x = at[i][k]
    BY DEF Woven
<1>3. ASSUME NEW v \in DOMAIN g, NEW w \in DOMAIN g, Continues(g, v, w),
             NEW i \in DOMAIN piece, NEW k \in DOMAIN piece[i], v < at[i][k], at[i][k] < w
      PROVE  piece[i][k].op = "blank" /\ f[i].op = "blank"
    <2>1. at[i][k] \in (v + 1)..(w - 1)
        <3> DEFINE x == at[i][k]
        <3>1. x \in Nat /\ v \in Nat /\ w \in Nat /\ v < x /\ x < w
            BY <1>1, <1>2, <1>3
        <3> HIDE DEF x
        <3>2. x \in (v + 1)..(w - 1)
            BY <3>1
        <3> QED
            BY <3>2 DEF x
    <2>2. g[at[i][k]].op = "blank"
        BY <1>3, <2>1 DEF Continues
    <2>3. piece[i][k].op = "blank"
        BY <1>2, <2>2
    <2> QED
        BY <2>3 DEF UsersKept, BlankAlike
\* The USER lines of g are those of f.
<1>4. ASSUME NEW w \in LinesOf(g, "USER")
      PROVE  \E u \in LinesOf(f, "USER") : 1 \in DOMAIN piece[u] /\ w = at[u][1]
    <2>1. w \in DOMAIN g /\ g[w].op = "USER"
        BY DEF LinesOf
    <2>2. PICK u \in DOMAIN piece : \E k \in DOMAIN piece[u] : w = at[u][k]
        BY <1>2, <2>1
    <2>3. PICK k \in DOMAIN piece[u] : w = at[u][k]
        BY <2>2
    <2>4. piece[u][k].op = "USER"
        BY <1>2, <2>1, <2>3
    <2>5. f[u].op = "USER" /\ k = 1
        BY <2>4 DEF UsersKept
    <2> QED
        BY <1>1, <2>3, <2>5 DEF LinesOf
<1>5. ASSUME NEW w \in LinesOf(g, "USER"), Inside(g, w) PROVE FALSE
    <2>1. w \in DOMAIN g /\ g[w].op = "USER"
        BY DEF LinesOf
    <2>2. PICK v \in DOMAIN g : Continues(g, v, w)
        BY <1>5, <2>1, InsideContinues
    <2>3. v < w /\ g[v].more /\ g[v].op # "blank"
        BY <2>2 DEF Continues, Continuable
    <2>4. PICK u \in LinesOf(f, "USER") : 1 \in DOMAIN piece[u] /\ w = at[u][1]
        BY <1>4
    <2>5. u \in DOMAIN piece /\ f[u].op = "USER"
        BY <1>1 DEF LinesOf
    <2>6. PICK i \in DOMAIN piece : \E k \in DOMAIN piece[i] : v = at[i][k]
        BY <1>2
    <2>7. PICK k \in DOMAIN piece[i] : v = at[i][k]
        BY <2>6
    <2>8. i < u
        <3>1. i < u \/ (i = u /\ k < 1)
            BY <1>2, <2>3, <2>4, <2>5, <2>7
        <3>2. k \in Nat \ {0}
            BY <1>1
        <3> QED
            BY <3>1, <3>2
    <2>9. piece[i][k].more /\ piece[i][k].op # "blank"
        BY <1>2, <2>3, <2>7
    <2>10. f[i].op # "blank"
        <3>1. i # Len(f)
            BY <1>1, <2>5, <2>8
        <3> QED
            BY <2>9, <3>1 DEF UsersKept, BlankAlike
    <2>11. k + 1 \notin DOMAIN piece[i]
        <3> SUFFICES ASSUME k + 1 \in DOMAIN piece[i] PROVE FALSE
            OBVIOUS
        <3>1. k < k + 1
            BY <1>1
        <3>2. v < at[i][k + 1]
            BY <1>2, <2>7, <3>1
        <3>3. at[i][k + 1] < w
            BY <1>2, <2>4, <2>5, <2>8
        <3> QED
            BY <1>3, <2>1, <2>2, <2>10, <3>2, <3>3
    <2>12. f[i].more /\ piece[i] # <<>>
        BY <2>7, <2>9, <2>11 DEF UsersKept
    <2>13. PICK a \in (i + 1)..(u - 1) : piece[a] # <<>> /\ f[a].op # "blank"
        BY <2>5, <2>8, <2>12 DEF UsersKept
    <2>14. a \in DOMAIN piece /\ i < a /\ a < u
        <3>1. DOMAIN piece = 1..Len(f) /\ i \in 1..Len(f) /\ u \in 1..Len(f) /\ Len(f) \in Nat
            BY <1>1, <2>5
        <3> QED
            BY <3>1
    <2>15. 1 \in DOMAIN piece[a]
        BY <1>1, <2>13, <2>14
    <2>16. v < at[a][1] /\ at[a][1] < w
        BY <1>2, <2>4, <2>5, <2>7, <2>14, <2>15
    <2> QED
        BY <1>3, <2>1, <2>2, <2>13, <2>14, <2>15, <2>16
<1>6. NoUserInside(g)
    BY <1>5 DEF NoUserInside
<1>7. ASSUME NEW u \in DOMAIN f, EndsAs(f, u) PROVE \E w \in DOMAIN g : EndsAs(g, w)
    <2>1. u \in DOMAIN piece /\ f[u].op = "USER"
        BY <1>1, <1>7 DEF EndsAs, LinesOf
    <2>0. f[u].args = Exec(<<"65532">>)
        BY <1>7 DEF EndsAs
    <2>2. 1 \in DOMAIN piece[u] /\ piece[u][1].op = "USER" /\ piece[u][1].args = f[u].args
        BY <1>1, <2>0, <2>1 DEF UsersKept
    <2> DEFINE w == at[u][1]
    <2>3. w \in DOMAIN g /\ g[w].op = "USER" /\ g[w].args = Exec(<<"65532">>)
        BY <1>2, <1>7, <2>1, <2>2 DEF EndsAs
    <2>4. ASSUME NEW v \in LinesOf(g, "USER") PROVE v <= w
        <3>1. PICK x \in LinesOf(f, "USER") : 1 \in DOMAIN piece[x] /\ v = at[x][1]
            BY <1>4
        <3>2. x <= u /\ x \in DOMAIN piece
            BY <1>1, <1>7 DEF EndsAs, LinesOf
        <3>3. ~ (w < v)
            <4>1. ~ (u < x \/ (u = x /\ 1 < 1))
                BY <1>1, <2>1, <3>2
            <4> QED
                BY <1>2, <2>1, <2>2, <3>1, <3>2, <4>1
        <3>4. v \in Nat /\ w \in Nat
            BY <1>1, <2>3 DEF LinesOf
        <3> HIDE DEF w
        <3> QED
            BY <3>3, <3>4
    <2>5. ASSUME NEW v \in LinesOf(g, "FROM") PROVE v < w
        <3>1. v \in DOMAIN g /\ g[v].op = "FROM"
            BY DEF LinesOf
        <3>2. PICK x \in DOMAIN piece : \E k \in DOMAIN piece[x] : v = at[x][k]
            BY <1>2, <3>1
        <3>3. PICK k \in DOMAIN piece[x] : v = at[x][k]
            BY <3>2
        <3>4. piece[x][k].op = "FROM"
            BY <1>2, <3>1, <3>3
        <3>5. x \in LinesOf(f, "FROM")
            BY <1>1, <3>4 DEF UsersKept, LinesOf
        <3>6. x < u
            BY <1>7, <3>5 DEF EndsAs
        <3> QED
            BY <1>2, <2>1, <2>2, <3>3, <3>6
    <2> QED
        BY <2>3, <2>4, <2>5 DEF EndsAs, LinesOf
<1>8. Nonroot(f) => Nonroot(g)
    BY <1>6, <1>7, NonrootEnds
<1> QED
    BY <1>6, <1>8

-----------------------------------------------------------------------------
(* What verify_shim_wiring.py looks for, through a rewriting.              *)

\* The fields of a line.
LEMMA LineTyped ==
    ASSUME NEW f \in Seq(TextLines), NEW i \in DOMAIN f
    PROVE  /\ f[i] \in TextLines
           /\ f[i].op \in Ops /\ f[i].args \in Seq(Seq(Vocabulary)) /\ f[i].more \in BOOLEAN
<1>1. f[i] \in TextLines
    OBVIOUS
<1> QED
    BY <1>1 DEF TextLines

\* The words the scripts write are in the vocabulary.
LEMMA ScriptWordsTyped ==
    \A word \in ScriptWords : word \in Vocabulary /\ Arg(word) \in Seq(Vocabulary)
<1> SUFFICES ASSUME NEW word \in ScriptWords PROVE word \in Vocabulary /\ Arg(word) \in Seq(Vocabulary)
    OBVIOUS
<1>1. word \in Vocabulary
    BY VocabularyAssumption
<1>2. <<word>> \in Seq(Vocabulary)
    BY <1>1
<1> QED
    BY <1>1, <1>2 DEF Arg

\* The arguments of an instruction of one, two and three words.
LEMMA ExecSingle ==
    ASSUME NEW a
    PROVE  Exec(<<a>>) = <<Arg(a)>>
BY DEF Exec

\* Two words.
LEMMA ExecPair ==
    ASSUME NEW a, NEW b
    PROVE  Exec(<<a, b>>) = <<Arg(a), Arg(b)>>
BY DEF Exec

\* Three words.
LEMMA ExecTriple ==
    ASSUME NEW a, NEW b, NEW c
    PROVE  Exec(<<a, b, c>>) = <<Arg(a), Arg(b), Arg(c)>>
BY DEF Exec

\* A prefix of two elements is the first two elements.
LEMMA PrefixPair ==
    ASSUME NEW S, NEW a \in S, NEW b \in S, NEW t \in Seq(S)
    PROVE  IsPrefix(<<a, b>>, t) <=> Len(t) >= 2 /\ t[1] = a /\ t[2] = b
<1> DEFINE p == <<a, b>>
<1>1. p \in Seq(S) /\ Len(p) = 2 /\ p[1] = a /\ p[2] = b
    OBVIOUS
<1>2. SubSeq(p, 1, Len(p)) \in Seq(S) /\ Len(SubSeq(p, 1, Len(p))) = 2
      /\ \A i \in 1..2 : SubSeq(p, 1, Len(p))[i] = p[i]
    BY <1>1, SubSeqProperties
<1> HIDE DEF p
<1>3. ASSUME Len(t) >= 2
      PROVE  /\ SubSeq(t, 1, Len(p)) \in Seq(S) /\ Len(SubSeq(t, 1, Len(p))) = 2
             /\ \A i \in 1..2 : SubSeq(t, 1, Len(p))[i] = t[i]
    BY <1>1, <1>3, SubSeqProperties
<1>4. ASSUME Len(t) >= 2
      PROVE  SubSeq(p, 1, Len(p)) = SubSeq(t, 1, Len(p)) <=> t[1] = a /\ t[2] = b
    <2> DEFINE u == SubSeq(p, 1, Len(p))
               v == SubSeq(t, 1, Len(p))
    <2>1. u \in Seq(S) /\ v \in Seq(S) /\ Len(u) = 2 /\ Len(v) = 2
          /\ u[1] = a /\ u[2] = b /\ v[1] = t[1] /\ v[2] = t[2]
        BY <1>1, <1>2, <1>3, <1>4
    <2> HIDE DEF u, v
    <2>2. t[1] = a /\ t[2] = b => u = v
        <3> SUFFICES ASSUME t[1] = a, t[2] = b PROVE u = v
            OBVIOUS
        <3>1. \A i \in 1..Len(u) : u[i] = v[i]
            BY <2>1
        <3> QED
            BY <2>1, <3>1, SeqEqual
    <2>3. u = v <=> t[1] = a /\ t[2] = b
        BY <2>1, <2>2
    <2> QED
        BY <2>3 DEF u, v
<1> QED
    BY <1>1, <1>4 DEF IsPrefix, p

\* The arguments of an ENTRYPOINT that verify_shim_wiring.py takes for the shim's.
RunsShim(args) ==
    /\ Len(args) = 2 \/ (Len(args) = 4 /\ args[3] = Arg("-c"))
    /\ args[2] = Arg("run")
    /\ args[1] = Arg(Canonical) \/ (args[1] = Arg(Deprecated) /\ ~Says(args, Canonical))

\* With one ENTRYPOINT at most, the one the scripts find is the one there is.
LEMMA OneEntrypoint ==
    ASSUME NEW f \in Seq(TextLines), NEW e \in LinesOf(f, "ENTRYPOINT"),
           \A i, j \in LinesOf(f, "ENTRYPOINT") : i = j
    PROVE  FirstLine(f, "ENTRYPOINT") = e /\ DetectEntrypoint(f) = f[e].args
<1>1. LinesOf(f, "ENTRYPOINT") \in SUBSET (1..Len(f)) /\ LinesOf(f, "ENTRYPOINT") # {} /\ Len(f) \in Nat
    BY DEF LinesOf
<1>2. Min(LinesOf(f, "ENTRYPOINT")) \in LinesOf(f, "ENTRYPOINT")
    BY <1>1, MinLine
<1>3. FirstLine(f, "ENTRYPOINT") = e
    BY <1>1, <1>2 DEF FirstLine
<1>4. e # 0
    BY <1>1
<1> QED
    BY <1>3, <1>4 DEF DetectEntrypoint, ArgsAt

\* verify_shim_wiring.py accepts an ENTRYPOINT that runs the shim from its new path,
\* or from its old one.
LEMMA EntrypointAccepted ==
    ASSUME NEW f \in Seq(TextLines), \A i, j \in LinesOf(f, "ENTRYPOINT") : i = j
    PROVE  HasEntrypointShim(f) <=> \E e \in LinesOf(f, "ENTRYPOINT") : RunsShim(f[e].args)
<1> SUFFICES ASSUME NEW e \in LinesOf(f, "ENTRYPOINT")
             PROVE  /\ IsPrefix(Exec(<<GetShimPath(f), "run">>), f[e].args)
                    /\ Len(f[e].args) = 2 \/ (Len(f[e].args) = 4 /\ f[e].args[3] = Arg("-c"))
                    <=> RunsShim(f[e].args)
    BY DEF HasEntrypointShim
<1> DEFINE args == f[e].args
           path == GetShimPath(f)
<1>1. args \in Seq(Seq(Vocabulary))
    BY LineTyped DEF LinesOf
<1>2. DetectEntrypoint(f) = args
    BY OneEntrypoint
<1> HIDE DEF args
<1>3. path = IF Says(args, Canonical) THEN Canonical ELSE Deprecated
    BY <1>2 DEF GetShimPath, Says
<1> HIDE DEF path
<1>4. path \in ScriptWords
    BY <1>3 DEF ScriptWords, ShimPaths
<1>5. IsPrefix(Exec(<<path, "run">>), args) <=> Len(args) >= 2 /\ args[1] = Arg(path) /\ args[2] = Arg("run")
    <2>1. Arg(path) \in Seq(Vocabulary) /\ Arg("run") \in Seq(Vocabulary)
        BY <1>4, ScriptWordsTyped DEF ScriptWords
    <2> QED
        BY <1>1, <2>1, ExecPair, PrefixPair
<1>6. Len(args) \in Nat /\ DOMAIN args = 1..Len(args)
    BY <1>1
<1>7. Len(args) >= 2 /\ args[1] = Arg(Canonical) => Says(args, Canonical)
    <2> SUFFICES ASSUME Len(args) >= 2, args[1] = Arg(Canonical) PROVE Says(args, Canonical)
        OBVIOUS
    <2>1. 1 \in DOMAIN args
        BY <1>6
    <2>2. Arg(Canonical) \in ToSet(args)
        BY <2>1 DEF ToSet
    <2>3. 1 \in DOMAIN Arg(Canonical) /\ Arg(Canonical)[1] = Canonical
        BY DEF Arg
    <2>4. Canonical \in ToSet(Arg(Canonical))
        BY <2>3 DEF ToSet
    <2> QED
        BY <2>2, <2>4 DEF Says
<1>8. Len(args) = 2 \/ Len(args) = 4 => Len(args) >= 2
    BY <1>6
<1> QED
    BY <1>3, <1>5, <1>7, <1>8 DEF RunsShim, args, path

\* Pieces in which the lines of these kinds are what they were.
ShimStages == {Exec(<<"health-shim">>), Exec(<<"db-shim">>)}
\* The health checks verify_shim_wiring.py accepts.
Probes == {Exec(<<path, "healthcheck">>) : path \in ShimPaths}
\* A line that verify_shim_wiring.py takes for what it took the other for.
SameUse(line, other) ==
    /\ other.op = line.op
    /\ line.op = "FROM" /\ line.args \in ShimStages => other.args \in ShimStages
    /\ line.op = "CMD" /\ line.args \in Probes => other.args \in Probes
    /\ line.op = "ENTRYPOINT" /\ RunsShim(line.args) => RunsShim(other.args)
\* The instructions the wiring consists of, its ENTRYPOINT aside.
Wired == {"FROM", "COPY", "HEALTHCHECK", "CMD"}
\* A rewriting in which each line of these kinds still has its use.
UsesKept(f, piece, ops) ==
    \A i \in DOMAIN piece : f[i].op \in ops => \E k \in DOMAIN piece[i] : SameUse(f[i], piece[i][k])

\* A rewriting that keeps the use of the lines of the wiring keeps the wiring.
LEMMA WiringTransported ==
    ASSUME NEW f \in Seq(TextLines), NEW g \in Seq(TextLines),
           NEW piece \in Seq(Seq(TextLines)), Len(piece) = Len(f), NEW at, Woven(g, piece, at),
           NEW ops, Wired \subseteq ops, UsesKept(f, piece, ops)
    PROVE  /\ HasShimStage(f) \/ Stages(f, "db-shim") # {} => HasShimStage(g) \/ Stages(g, "db-shim") # {}
           /\ HasShimWiring(f) => HasShimWiring(g)
           /\ HasHealthcheckShim(f) => HasHealthcheckShim(g)
           /\ "ENTRYPOINT" \in ops /\ (\E e \in LinesOf(f, "ENTRYPOINT") : RunsShim(f[e].args))
                => \E e \in LinesOf(g, "ENTRYPOINT") : RunsShim(g[e].args)
<1>1. DOMAIN f = DOMAIN piece
    OBVIOUS
<1>2. /\ \A i \in DOMAIN piece : \A k \in DOMAIN piece[i] : at[i][k] \in DOMAIN g /\ g[at[i][k]] = piece[i][k]
      /\ \A i, j \in DOMAIN piece : \A k \in DOMAIN piece[i], m \in DOMAIN piece[j] :
           at[i][k] < at[j][m] <=> i < j \/ (i = j /\ k < m)
    BY DEF Woven
<1>3. ASSUME NEW i \in DOMAIN f, f[i].op \in ops
      PROVE  \E k \in DOMAIN piece[i] : at[i][k] \in DOMAIN g /\ SameUse(f[i], g[at[i][k]])
    <2>1. PICK k \in DOMAIN piece[i] : SameUse(f[i], piece[i][k])
        BY <1>1, <1>3 DEF UsesKept
    <2> QED
        BY <1>1, <1>2, <2>1
<1>4. ASSUME HasShimStage(f) \/ Stages(f, "db-shim") # {}
      PROVE  HasShimStage(g) \/ Stages(g, "db-shim") # {}
    <2>1. PICK i \in LinesOf(f, "FROM") : f[i].args \in ShimStages
        BY <1>4 DEF HasShimStage, Stages, ShimStages
    <2>2. i \in DOMAIN f /\ f[i].op = "FROM" /\ f[i].op \in ops
        BY DEF LinesOf, Wired
    <2>3. PICK k \in DOMAIN piece[i] : at[i][k] \in DOMAIN g /\ SameUse(f[i], g[at[i][k]])
        BY <1>3, <2>2
    <2>4. at[i][k] \in LinesOf(g, "FROM") /\ g[at[i][k]].args \in ShimStages
        BY <2>1, <2>2, <2>3 DEF SameUse, LinesOf
    <2> QED
        BY <2>4 DEF HasShimStage, Stages, ShimStages
<1>5. ASSUME HasShimWiring(f) PROVE HasShimWiring(g)
    <2>1. PICK i \in DOMAIN f : f[i].op = "COPY"
        BY <1>5 DEF HasShimWiring, LinesOf
    <2>2. PICK k \in DOMAIN piece[i] : at[i][k] \in DOMAIN g /\ SameUse(f[i], g[at[i][k]])
        BY <1>3, <2>1 DEF Wired
    <2> QED
        BY <2>1, <2>2 DEF SameUse, HasShimWiring, LinesOf
<1>6. ASSUME HasHealthcheckShim(f) PROVE HasHealthcheckShim(g)
    <2>1. PICK h \in LinesOf(f, "HEALTHCHECK"), c \in LinesOf(f, "CMD") : h < c /\ f[c].args \in Probes
        BY <1>6 DEF HasHealthcheckShim, Probes
    <2>2. h \in DOMAIN f /\ f[h].op = "HEALTHCHECK" /\ c \in DOMAIN f /\ f[c].op = "CMD"
        BY DEF LinesOf
    <2>3. PICK k \in DOMAIN piece[h] : at[h][k] \in DOMAIN g /\ SameUse(f[h], g[at[h][k]])
        BY <1>3, <2>2 DEF Wired
    <2>4. PICK m \in DOMAIN piece[c] : at[c][m] \in DOMAIN g /\ SameUse(f[c], g[at[c][m]])
        BY <1>3, <2>2 DEF Wired
    <2>5. at[h][k] < at[c][m]
        BY <1>1, <1>2, <2>1, <2>2, <2>3, <2>4
    <2>6. at[h][k] \in LinesOf(g, "HEALTHCHECK") /\ at[c][m] \in LinesOf(g, "CMD") /\ g[at[c][m]].args \in Probes
        BY <2>1, <2>2, <2>3, <2>4 DEF SameUse, LinesOf
    <2> QED
        BY <2>5, <2>6 DEF HasHealthcheckShim, Probes
<1>7. ASSUME "ENTRYPOINT" \in ops, NEW e \in LinesOf(f, "ENTRYPOINT"), RunsShim(f[e].args)
      PROVE  \E w \in LinesOf(g, "ENTRYPOINT") : RunsShim(g[w].args)
    <2>1. e \in DOMAIN f /\ f[e].op = "ENTRYPOINT"
        BY DEF LinesOf
    <2>2. PICK k \in DOMAIN piece[e] : at[e][k] \in DOMAIN g /\ SameUse(f[e], g[at[e][k]])
        BY <1>3, <1>7, <2>1
    <2> QED
        BY <1>7, <2>1, <2>2 DEF SameUse, LinesOf
<1> QED
    BY <1>4, <1>5, <1>6, <1>7

-----------------------------------------------------------------------------
(* Dockerfiles as the committed ones are.                                  *)

\* Line i is a FROM and nothing but empty lines comes before it.
FromFirst(f, i) == f[i].op = "FROM" /\ \A j \in DOMAIN f : j < i => f[j].op = "blank"
\* WellWritten, but for what the image is known to name.
Formed(f) ==
    /\ f \in Seq(TextLines)
    /\ \A i \in DOMAIN f : f[i].more => f[i].op \in Continuable
    /\ \A i \in DOMAIN f : ~Dangles(f, i)
    /\ \E i \in DOMAIN f : FromFirst(f, i)
    /\ \A i, j \in LinesOf(f, "ENTRYPOINT") : i = j

\* WellWritten in terms of Formed.
LEMMA WellWrittenFormed ==
    ASSUME NEW f, NEW facts
    PROVE  WellWritten(f, facts) <=> /\ Formed(f) /\ facts \in Facts
                                     /\ RunsDeprecated(f) => ~NamesCanonical(f, facts)
BY DEF WellWritten, Formed, FromFirst, LinesOf

\* A formed Dockerfile has a FROM.
LEMMA FormedFrom ==
    ASSUME NEW f, Formed(f)
    PROVE  LinesOf(f, "FROM") # {}
BY DEF Formed, FromFirst, LinesOf

\* A formed Dockerfile parses exactly when it does line by line.
LEMMA FormedParses ==
    ASSUME NEW f, Formed(f)
    PROVE  Parses(f) <=> Local(f)
BY ParsesLocal, LocalParses DEF Formed

\* A rewriting that leaves the first FROM the first instruction.
FromKept(f, piece) ==
    /\ \A i \in DOMAIN piece : FromFirst(f, i) =>
         \E k \in DOMAIN piece[i] : FromFirst(piece[i], k)
    /\ \A i \in DOMAIN piece : f[i].op = "blank" /\ i # Len(f) =>
         \A k \in DOMAIN piece[i] : piece[i][k].op = "blank"

\* A rewriting with no loose end, no second ENTRYPOINT and the FROM where it was
\* keeps a Dockerfile formed.
LEMMA FormedTransported ==
    ASSUME NEW f, Formed(f), NEW g \in Seq(TextLines),
           NEW piece \in Seq(Seq(TextLines)), Len(piece) = Len(f), NEW at, Woven(g, piece, at),
           NoneLoose(f, piece),
           \A i \in DOMAIN piece : \A k \in DOMAIN piece[i] : piece[i][k].more => piece[i][k].op \in Continuable,
           FromKept(f, piece),
           \A i, j \in DOMAIN piece : \A k \in DOMAIN piece[i], m \in DOMAIN piece[j] :
             piece[i][k].op = "ENTRYPOINT" /\ piece[j][m].op = "ENTRYPOINT" => i = j /\ k = m
    PROVE  Formed(g)
<1>1. f \in Seq(TextLines) /\ DOMAIN f = DOMAIN piece
    BY DEF Formed
<1>2. /\ \A i \in DOMAIN piece : \A k \in DOMAIN piece[i] : at[i][k] \in DOMAIN g /\ g[at[i][k]] = piece[i][k]
      /\ \A x \in DOMAIN g : \E i \in DOMAIN piece : \E k \in DOMAIN piece[i] : x = at[i][k]
    BY DEF Woven
<1>3. ASSUME NEW x \in DOMAIN g, g[x].more PROVE g[x].op \in Continuable
    <2>1. PICK i \in DOMAIN piece : \E k \in DOMAIN piece[i] : x = at[i][k]
        BY <1>2
    <2>2. PICK k \in DOMAIN piece[i] : x = at[i][k]
        BY <2>1
    <2> QED
        BY <1>2, <1>3, <2>2, SMTT(30)
<1>4. \A x \in DOMAIN g : ~Dangles(g, x)
    BY <1>1, NoneDangles DEF Formed
<1>5. \E x \in DOMAIN g : FromFirst(g, x)
    <2>1. PICK i \in DOMAIN piece : FromFirst(f, i)
        BY <1>1 DEF Formed
    <2>2. PICK k \in DOMAIN piece[i] : FromFirst(piece[i], k)
        BY <2>1 DEF FromKept
    <2>3. at[i][k] \in DOMAIN g /\ g[at[i][k]].op = "FROM"
        BY <1>2, <2>2 DEF FromFirst
    <2>4. ASSUME NEW y \in DOMAIN g, y < at[i][k] PROVE g[y].op = "blank"
        <3>1. PICK j \in DOMAIN piece : \E m \in DOMAIN piece[j] : y = at[j][m]
            BY <1>2
        <3>2. PICK m \in DOMAIN piece[j] : y = at[j][m]
            BY <3>1
        <3>3. j < i \/ (j = i /\ m < k)
            BY <2>4, <3>2 DEF Woven
        <3>4. g[y] = piece[j][m]
            BY <1>2, <3>2
        <3>5. CASE j < i
            <4>1. f[j].op = "blank"
                BY <1>1, <2>1, <3>5 DEF FromFirst
            <4>2. j # Len(f)
                <5>1. DOMAIN f = 1..Len(f) /\ Len(f) \in Nat
                    BY <1>1
                <5> QED
                    BY <1>1, <3>5, <5>1
            <4> QED
                BY <3>4, <4>1, <4>2 DEF FromKept
        <3>6. CASE j = i /\ m < k
            BY <2>2, <3>4, <3>6 DEF FromFirst
        <3> QED
            BY <3>3, <3>5, <3>6
    <2> QED
        BY <2>3, <2>4 DEF FromFirst
<1>6. ASSUME NEW x \in LinesOf(g, "ENTRYPOINT"), NEW y \in LinesOf(g, "ENTRYPOINT") PROVE x = y
    <2>1. x \in DOMAIN g /\ y \in DOMAIN g /\ g[x].op = "ENTRYPOINT" /\ g[y].op = "ENTRYPOINT"
        BY DEF LinesOf
    <2>2. PICK i \in DOMAIN piece : \E k \in DOMAIN piece[i] : x = at[i][k]
        BY <1>2, <2>1
    <2>3. PICK k \in DOMAIN piece[i] : x = at[i][k]
        BY <2>2
    <2>4. PICK j \in DOMAIN piece : \E m \in DOMAIN piece[j] : y = at[j][m]
        BY <1>2, <2>1
    <2>5. PICK m \in DOMAIN piece[j] : y = at[j][m]
        BY <2>4
    <2>6. piece[i][k].op = "ENTRYPOINT" /\ piece[j][m].op = "ENTRYPOINT"
        <3>1. g[x] = piece[i][k] /\ g[y] = piece[j][m]
            BY <1>2, <2>3, <2>5
        <3> QED
            BY <2>1, <3>1
    <2> QED
        BY <2>3, <2>5, <2>6
<1> QED
    BY <1>3, <1>4, <1>5, <1>6 DEF Formed

\* The paths of the shim in a Dockerfile come from one before.
RunsOld(args) == IsPrefix(Exec(<<Deprecated, "run">>), args)
\* A rewriting whose ENTRYPOINT and CMD lines name no path that they did not.
NamesFrom(f, piece) ==
    \A i \in DOMAIN piece : \A k \in DOMAIN piece[i] : piece[i][k].op \in {"ENTRYPOINT", "CMD"} =>
        /\ piece[i][k].op = f[i].op
        /\ RunsOld(piece[i][k].args) => RunsOld(f[i].args)
        /\ Says(piece[i][k].args, Canonical) => Says(f[i].args, Canonical)

\* Such a rewriting makes the Dockerfile name neither path of the shim anew.
LEMMA NamesTransported ==
    ASSUME NEW f, Formed(f), NEW g \in Seq(TextLines), NEW facts,
           NEW piece \in Seq(Seq(TextLines)), Len(piece) = Len(f), NEW at, Woven(g, piece, at),
           NamesFrom(f, piece)
    PROVE  /\ RunsDeprecated(g) => RunsDeprecated(f)
           /\ NamesCanonical(g, facts) => NamesCanonical(f, facts)
<1>1. DOMAIN f = DOMAIN piece
    BY DEF Formed
<1>2. /\ \A i \in DOMAIN piece : \A k \in DOMAIN piece[i] : at[i][k] \in DOMAIN g /\ g[at[i][k]] = piece[i][k]
      /\ \A x \in DOMAIN g : \E i \in DOMAIN piece : \E k \in DOMAIN piece[i] : x = at[i][k]
    BY DEF Woven
<1>3. ASSUME NEW x \in DOMAIN g, g[x].op \in {"ENTRYPOINT", "CMD"}
      PROVE  \E i \in DOMAIN f : /\ g[x].op = f[i].op
                                 /\ RunsOld(g[x].args) => RunsOld(f[i].args)
                                 /\ Says(g[x].args, Canonical) => Says(f[i].args, Canonical)
    <2>1. PICK i \in DOMAIN piece : \E k \in DOMAIN piece[i] : x = at[i][k]
        BY <1>2
    <2>2. PICK k \in DOMAIN piece[i] : x = at[i][k]
        BY <2>1
    <2>3. piece[i][k] = g[x]
        BY <1>2, <2>2
    <2>4. piece[i][k].op \in {"ENTRYPOINT", "CMD"}
        BY <1>3, <2>3
    <2>5. /\ piece[i][k].op = f[i].op
          /\ RunsOld(piece[i][k].args) => RunsOld(f[i].args)
          /\ Says(piece[i][k].args, Canonical) => Says(f[i].args, Canonical)
        BY <2>4 DEF NamesFrom
    <2> QED
        BY <1>1, <2>3, <2>5
<1>4. RunsDeprecated(g) => RunsDeprecated(f)
    <2> SUFFICES ASSUME NEW x \in LinesOf(g, "ENTRYPOINT"), RunsOld(g[x].args) PROVE RunsDeprecated(f)
        BY DEF RunsDeprecated, RunsOld
    <2>1. PICK i \in DOMAIN f : f[i].op = "ENTRYPOINT" /\ RunsOld(f[i].args)
        BY <1>3 DEF LinesOf
    <2> QED
        BY <2>1 DEF RunsDeprecated, RunsOld, LinesOf
<1>5. NamesCanonical(g, facts) => NamesCanonical(f, facts)
    <2> SUFFICES ASSUME NEW x \in LinesOf(g, "ENTRYPOINT") \cup LinesOf(g, "CMD"), Says(g[x].args, Canonical)
                 PROVE  NamesCanonical(f, facts)
        BY DEF NamesCanonical
    <2>1. x \in DOMAIN g /\ g[x].op \in {"ENTRYPOINT", "CMD"}
        BY DEF LinesOf
    <2>2. PICK i \in DOMAIN f : f[i].op = g[x].op /\ Says(f[i].args, Canonical)
        BY <1>3, <2>1
    <2> QED
        BY <2>1, <2>2 DEF NamesCanonical, LinesOf
<1> QED
    BY <1>4, <1>5

\* Each line keeps its word, and may have variables and labels after it.
Extended(f, piece) ==
    \A i \in DOMAIN piece :
        /\ 1 \in DOMAIN piece[i] /\ piece[i][1].op = f[i].op
        /\ 2 \notin DOMAIN piece[i] => piece[i][1].more = f[i].more
        /\ 2 \in DOMAIN piece[i] => i = Len(f) \/ f[i].op # "blank"
        /\ \A k \in DOMAIN piece[i] :
             /\ k # 1 => piece[i][k].op \in {"ENV", "var", "LABEL"}
             /\ piece[i][k].more => piece[i][k].op \in Continuable
             /\ k # 1 /\ k + 1 \notin DOMAIN piece[i] => ~piece[i][k].more
\* The first lines do what the lines did.
Alike(f, piece) ==
    \A i \in DOMAIN piece :
        /\ SameUse(f[i], piece[i][1])
        /\ f[i].op = "USER" /\ f[i].args = Exec(<<"65532">>) => piece[i][1].args = f[i].args
        /\ f[i].op = "HEALTHCHECK" /\ f[i].args # <<>> => piece[i][1].args # <<>>
\* What is put after a line goes on where something is open, and only there.
GoesOn(f, piece) ==
    \A i \in DOMAIN piece :
        /\ 2 \in DOMAIN piece[i] => ~f[i].more
        /\ \A k \in DOMAIN piece[i] : k + 1 \in DOMAIN piece[i] =>
             IF piece[i][k].more THEN piece[i][k].op # "HEALTHCHECK" /\ piece[i][k + 1].op = "var"
             ELSE piece[i][k + 1].op # "var"

\* The domains of pieces, one for each line.
LEMMA PieceFacts ==
    ASSUME NEW f \in Seq(TextLines), NEW piece \in Seq(Seq(TextLines)), Len(piece) = Len(f)
    PROVE  /\ DOMAIN f = DOMAIN piece /\ DOMAIN f = 1..Len(f) /\ Len(f) \in Nat
           /\ \A i \in DOMAIN piece : /\ piece[i] \in Seq(TextLines) /\ DOMAIN piece[i] = 1..Len(piece[i])
                                      /\ Len(piece[i]) \in Nat /\ DOMAIN piece[i] \subseteq Nat \ {0}
                                      /\ piece[i] # <<>> <=> 1 \in DOMAIN piece[i]
                                      /\ \A k \in DOMAIN piece[i] : k # 1 => 2 \in DOMAIN piece[i]
OBVIOUS

\* A rewriting that keeps each line and adds ENV blocks keeps a Dockerfile formed.
LEMMA ExtendedFormed ==
    ASSUME NEW f, Formed(f), NEW g \in Seq(TextLines),
           NEW piece \in Seq(Seq(TextLines)), Len(piece) = Len(f), NEW at, Woven(g, piece, at),
           Extended(f, piece)
    PROVE  Formed(g)
<1>1. f \in Seq(TextLines)
    BY DEF Formed
<1>2. /\ DOMAIN f = DOMAIN piece /\ DOMAIN f = 1..Len(f) /\ Len(f) \in Nat
      /\ \A i \in DOMAIN piece : DOMAIN piece[i] \subseteq Nat \ {0} /\ \A k \in DOMAIN piece[i] : k # 1 => 2 \in DOMAIN piece[i]
    BY <1>1, PieceFacts
<1>3. ASSUME NEW i \in DOMAIN piece
      PROVE  /\ 1 \in DOMAIN piece[i] /\ piece[i][1].op = f[i].op
             /\ 2 \notin DOMAIN piece[i] => piece[i][1].more = f[i].more
             /\ \A k \in DOMAIN piece[i] :
                  /\ k # 1 => piece[i][k].op \in {"ENV", "var", "LABEL"}
                  /\ piece[i][k].more => piece[i][k].op \in Continuable
                  /\ k # 1 /\ k + 1 \notin DOMAIN piece[i] => ~piece[i][k].more
    BY DEF Extended
<1>4. NoneLoose(f, piece)
    <2>1. ASSUME NEW i \in DOMAIN piece, NEW k \in DOMAIN piece[i], k + 1 \in DOMAIN piece[i]
          PROVE  piece[i][k + 1].op \notin Skipped \cup EndOps
        <3>1. k + 1 # 1
            BY <1>2
        <3> QED
            BY <1>3, <2>1, <3>1 DEF Skipped, EndOps
    <2>2. ASSUME NEW i \in DOMAIN piece, NEW k \in DOMAIN piece[i], k + 1 \notin DOMAIN piece[i], piece[i][k].more
          PROVE  f[i].more
        <3>1. k = 1
            BY <1>3, <2>2
        <3>2. 2 \notin DOMAIN piece[i]
            BY <2>2, <3>1
        <3> QED
            BY <1>3, <2>2, <3>1, <3>2
    <2>3. ASSUME NEW i \in DOMAIN piece, f[i].op \in Skipped, NEW k \in DOMAIN piece[i]
          PROVE  piece[i][k].op \notin EndOps
        BY <1>3, <2>3 DEF Skipped, EndOps
    <2>4. ASSUME NEW j \in DOMAIN piece, f[j].op \notin Skipped \cup EndOps
          PROVE  \E b \in DOMAIN piece[j] : /\ piece[j][b].op \notin Skipped \cup EndOps
                                            /\ \A c \in DOMAIN piece[j] : c < b => piece[j][c].op \notin EndOps
        <3>1. 1 \in DOMAIN piece[j] /\ piece[j][1].op \notin Skipped \cup EndOps
            BY <1>3, <2>4
        <3>2. \A c \in DOMAIN piece[j] : ~ (c < 1)
            BY <1>2
        <3> QED
            BY <3>1, <3>2
    <2> QED
        BY <2>1, <2>2, <2>3, <2>4 DEF NoneLoose
<1>5. \A i \in DOMAIN piece : \A k \in DOMAIN piece[i] : piece[i][k].more => piece[i][k].op \in Continuable
    BY <1>3
<1>6. FromKept(f, piece)
    <2>1. ASSUME NEW i \in DOMAIN piece, FromFirst(f, i) PROVE \E k \in DOMAIN piece[i] : FromFirst(piece[i], k)
        <3>1. piece[i][1].op = "FROM" /\ 1 \in DOMAIN piece[i]
            BY <1>3, <2>1 DEF FromFirst
        <3>2. \A m \in DOMAIN piece[i] : ~ (m < 1)
            BY <1>2
        <3> QED
            BY <3>1, <3>2 DEF FromFirst
    <2>2. ASSUME NEW i \in DOMAIN piece, f[i].op = "blank", i # Len(f), NEW k \in DOMAIN piece[i]
          PROVE  piece[i][k].op = "blank"
        <3>1. 2 \notin DOMAIN piece[i]
            BY <2>2 DEF Extended
        <3>2. k = 1
            BY <1>2, <3>1
        <3> QED
            BY <1>3, <2>2, <3>2
    <2> QED
        BY <2>1, <2>2 DEF FromKept
<1>7. ASSUME NEW i \in DOMAIN piece, NEW j \in DOMAIN piece, NEW k \in DOMAIN piece[i], NEW m \in DOMAIN piece[j],
             piece[i][k].op = "ENTRYPOINT", piece[j][m].op = "ENTRYPOINT"
      PROVE  i = j /\ k = m
    <2>1. k = 1 /\ m = 1
        BY <1>3, <1>7
    <2>2. f[i].op = "ENTRYPOINT" /\ f[j].op = "ENTRYPOINT"
        BY <1>3, <1>7, <2>1
    <2> QED
        BY <1>2, <2>1, <2>2 DEF Formed, LinesOf
<1> QED
    BY <1>4, <1>5, <1>6, <1>7, FormedTransported

\* It also keeps a Dockerfile that parses so, when what is added goes on where a
\* line is continued.
LEMMA ExtendedParses ==
    ASSUME NEW f, Formed(f), NEW g \in Seq(TextLines),
           NEW piece \in Seq(Seq(TextLines)), Len(piece) = Len(f), NEW at, Woven(g, piece, at),
           Extended(f, piece), Alike(f, piece), GoesOn(f, piece), Parses(f)
    PROVE  Parses(g)
<1>1. f \in Seq(TextLines)
    BY DEF Formed
<1>2. /\ DOMAIN f = DOMAIN piece /\ DOMAIN f = 1..Len(f) /\ Len(f) \in Nat
      /\ \A i \in DOMAIN piece : /\ DOMAIN piece[i] \subseteq Nat \ {0}
                                 /\ piece[i] # <<>> <=> 1 \in DOMAIN piece[i]
                                 /\ \A k \in DOMAIN piece[i] : k # 1 => 2 \in DOMAIN piece[i]
    BY <1>1, PieceFacts
<1>3. ASSUME NEW i \in DOMAIN piece
      PROVE  /\ 1 \in DOMAIN piece[i] /\ piece[i][1].op = f[i].op
             /\ 2 \notin DOMAIN piece[i] => piece[i][1].more = f[i].more
             /\ 2 \in DOMAIN piece[i] => i = Len(f) \/ f[i].op # "blank"
             /\ \A k \in DOMAIN piece[i] :
                  /\ k # 1 => piece[i][k].op \in {"ENV", "var", "LABEL"}
                  /\ piece[i][k].more => piece[i][k].op \in Continuable
                  /\ k # 1 /\ k + 1 \notin DOMAIN piece[i] => ~piece[i][k].more
    BY DEF Extended
<1>4. Local(f)
    BY FormedParses
<1>5. BlankAlike(f, piece)
    <2> SUFFICES ASSUME NEW i \in DOMAIN piece, NEW k \in DOMAIN piece[i]
                 PROVE  /\ piece[i][k].op = "blank" => f[i].op = "blank"
                        /\ f[i].op = "blank" /\ i # Len(f) => piece[i][k].op = "blank"
        BY DEF BlankAlike
    <2>1. CASE k = 1
        BY <1>3, <2>1
    <2>2. CASE k # 1
        BY <1>2, <1>3, <2>2
    <2> QED
        BY <2>1, <2>2
<1>6. ASSUME NEW i \in DOMAIN piece
      PROVE  IF \E p \in DOMAIN f : Continues(f, p, i) THEN piece[i][1].op = f[i].op ELSE piece[i][1].op # "var"
    BY <1>2, <1>3, <1>4 DEF Local
<1>7. ASSUME NEW i \in DOMAIN piece, NEW k \in DOMAIN piece[i], k + 1 \in DOMAIN piece[i]
      PROVE  IF piece[i][k].more THEN piece[i][k + 1].op = GoesOnWith(piece[i][k]) ELSE piece[i][k + 1].op # "var"
    BY <1>7 DEF GoesOn, GoesOnWith
<1>8. ASSUME NEW i \in DOMAIN piece, NEW k \in DOMAIN piece[i], k + 1 \notin DOMAIN piece[i]
      PROVE  /\ piece[i][k].more <=> f[i].more
             /\ f[i].more => GoesOnWith(piece[i][k]) = GoesOnWith(f[i])
    <2>1. CASE k = 1
        <3>1. 2 \notin DOMAIN piece[i]
            BY <1>8, <2>1
        <3>2. piece[i][1].more = f[i].more /\ piece[i][1].op = f[i].op
            BY <1>3, <3>1
        <3> QED
            BY <2>1, <3>2 DEF GoesOnWith
    <2>2. CASE k # 1
        <3>1. ~f[i].more
            BY <1>2, <2>2 DEF GoesOn
        <3>2. ~piece[i][k].more
            BY <1>3, <1>8, <2>2
        <3> QED
            BY <3>1, <3>2
    <2> QED
        BY <2>1, <2>2
<1>9. ASSUME NEW i \in DOMAIN piece, NEW k \in DOMAIN piece[i], piece[i][k].op = "HEALTHCHECK", ~piece[i][k].more
      PROVE  piece[i][k].args # <<>>
    <2>1. k = 1
        BY <1>3, <1>9
    <2>2. f[i].op = "HEALTHCHECK"
        BY <1>3, <1>9, <2>1
    <2>3. ~f[i].more
        BY <1>3, <1>9, <2>1 DEF GoesOn
    <2>4. f[i].args # <<>>
        BY <1>2, <1>4, <2>2, <2>3 DEF Local
    <2> QED
        BY <2>1, <2>2, <2>4 DEF Alike
<1>10. WellJoined(f, piece)
    BY <1>2, <1>3, <1>5, <1>6, <1>7, <1>8, <1>9 DEF WellJoined
<1>11. Formed(g)
    BY ExtendedFormed
<1>12. Local(g)
    BY <1>1, <1>4, <1>10, <1>11, LocalKept DEF Formed
<1> QED
    BY <1>11, <1>12, FormedParses

\* It keeps the user of the container.
LEMMA ExtendedNonroot ==
    ASSUME NEW f, Formed(f), NEW g \in Seq(TextLines),
           NEW piece \in Seq(Seq(TextLines)), Len(piece) = Len(f), NEW at, Woven(g, piece, at),
           Extended(f, piece), Alike(f, piece), NoUserInside(f)
    PROVE  NoUserInside(g) /\ (Nonroot(f) => Nonroot(g))
<1>1. f \in Seq(TextLines)
    BY DEF Formed
<1>2. /\ DOMAIN f = DOMAIN piece /\ DOMAIN f = 1..Len(f) /\ Len(f) \in Nat
      /\ \A i \in DOMAIN piece : /\ DOMAIN piece[i] \subseteq Nat \ {0}
                                 /\ piece[i] # <<>> <=> 1 \in DOMAIN piece[i]
                                 /\ \A k \in DOMAIN piece[i] : k # 1 => 2 \in DOMAIN piece[i]
    BY <1>1, PieceFacts
<1>3. ASSUME NEW i \in DOMAIN piece
      PROVE  /\ 1 \in DOMAIN piece[i] /\ piece[i][1].op = f[i].op
             /\ 2 \notin DOMAIN piece[i] => piece[i][1].more = f[i].more
             /\ 2 \in DOMAIN piece[i] => i = Len(f) \/ f[i].op # "blank"
             /\ \A k \in DOMAIN piece[i] :
                  /\ k # 1 => piece[i][k].op \in {"ENV", "var", "LABEL"}
                  /\ piece[i][k].more => piece[i][k].op \in Continuable
                  /\ k # 1 /\ k + 1 \notin DOMAIN piece[i] => ~piece[i][k].more
    BY DEF Extended
<1>4. BlankAlike(f, piece)
    <2> SUFFICES ASSUME NEW i \in DOMAIN piece, NEW k \in DOMAIN piece[i]
                 PROVE  /\ piece[i][k].op = "blank" => f[i].op = "blank"
                        /\ f[i].op = "blank" /\ i # Len(f) => piece[i][k].op = "blank"
        BY DEF BlankAlike
    <2>1. CASE k = 1
        BY <1>3, <2>1
    <2>2. CASE k # 1
        BY <1>2, <1>3, <2>2
    <2> QED
        BY <2>1, <2>2
<1>5. ASSUME NEW i \in DOMAIN piece, NEW k \in DOMAIN piece[i], piece[i][k].op \in {"USER", "FROM"}
      PROVE  f[i].op = piece[i][k].op /\ k = 1
    <2>1. k = 1
        BY <1>3, <1>5
    <2> QED
        BY <1>3, <2>1
<1>6. ASSUME NEW i \in DOMAIN piece, NEW k \in DOMAIN piece[i], k + 1 \notin DOMAIN piece[i], piece[i][k].more
      PROVE  f[i].more
    <2>1. k = 1
        BY <1>3, <1>6
    <2>2. 2 \notin DOMAIN piece[i]
        BY <1>6, <2>1
    <2> QED
        BY <1>3, <1>6, <2>1, <2>2
<1>7. ASSUME NEW i \in DOMAIN piece, NEW u \in DOMAIN piece, i < u, f[i].more, f[u].op = "USER"
      PROVE  \E a \in (i + 1)..(u - 1) : piece[a] # <<>> /\ f[a].op # "blank"
    <2>1. ~Inside(f, u)
        BY <1>2, <1>7 DEF NoUserInside, LinesOf
    <2>2. i \in 1..(u - 1)
        BY <1>2, <1>7
    <2>3. PICK a \in (i + 1)..(u - 1) : f[a].op # "blank"
        BY <1>7, <2>1, <2>2 DEF Inside
    <2>4. a \in DOMAIN piece
        <3>1. DOMAIN piece = 1..Len(f) /\ i \in 1..Len(f) /\ u \in 1..Len(f) /\ Len(f) \in Nat
            BY <1>2
        <3> QED
            BY <3>1
    <2> QED
        BY <1>2, <1>3, <2>3, <2>4
<1>8. UsersKept(f, piece)
    <2>1. \A i \in DOMAIN piece : f[i].op = "USER" =>
            piece[i] # <<>> /\ piece[i][1].op = "USER" /\ (f[i].args = Exec(<<"65532">>) => piece[i][1].args = f[i].args)
        BY <1>2, <1>3 DEF Alike
    <2> QED
        BY <1>4, <1>5, <1>6, <1>7, <2>1 DEF UsersKept
<1>9. Formed(g)
    BY ExtendedFormed
<1> QED
    BY <1>1, <1>8, <1>9, FormedFrom, NonrootTransported DEF Formed

\* It keeps what verify_shim_wiring.py accepts accepted.
LEMMA ExtendedAccepted ==
    ASSUME NEW f, Formed(f), NEW g \in Seq(TextLines),
           NEW piece \in Seq(Seq(TextLines)), Len(piece) = Len(f), NEW at, Woven(g, piece, at),
           Extended(f, piece), Alike(f, piece), CheckDockerfile(f)
    PROVE  CheckDockerfile(g)
<1>1. f \in Seq(TextLines) /\ Formed(g)
    BY ExtendedFormed DEF Formed
<1> DEFINE ops == Wired \cup {"ENTRYPOINT"}
<1>2. UsesKept(f, piece, ops)
    BY DEF UsesKept, Extended, Alike
<1>3. Wired \subseteq ops /\ "ENTRYPOINT" \in ops
    OBVIOUS
<1> HIDE DEF ops
<1>4. \E e \in LinesOf(f, "ENTRYPOINT") : RunsShim(f[e].args)
    BY <1>1, EntrypointAccepted DEF CheckDockerfile, Formed
<1>5. /\ HasShimStage(g) \/ Stages(g, "db-shim") # {}
      /\ HasShimWiring(g) /\ HasHealthcheckShim(g)
      /\ \E e \in LinesOf(g, "ENTRYPOINT") : RunsShim(g[e].args)
    BY <1>1, <1>2, <1>3, <1>4, WiringTransported DEF CheckDockerfile
<1> QED
    BY <1>1, <1>5, EntrypointAccepted DEF CheckDockerfile, Formed

-----------------------------------------------------------------------------
(* What the container runs, through a rewriting.                           *)

\* The lines that say what the container runs.
Kinds == {"FROM", "COPY", "HEALTHCHECK", "CMD", "ENTRYPOINT"}
Telling(f) == {i \in DOMAIN f : f[i].op \in Kinds}
\* The instructions among them.
Said(f) == {i \in DOMAIN f : f[i].op \in {"FROM", "COPY", "CMD", "ENTRYPOINT"} /\ ~Inside(f, i)}
\* The lines that to pairs are equal as far as what the container runs goes.
Matches(line, other) ==
    /\ other.op = line.op
    /\ line.op = "HEALTHCHECK" => other.more = line.more
    /\ line.op \in {"COPY", "CMD", "ENTRYPOINT"} => other.args = line.args
\* to pairs some lines of f with some of g, in order.
Paired(f, own, g, others, to) ==
    /\ \A i \in own : to[i] \in others /\ Matches(f[i], g[to[i]])
    /\ \A i, j \in own : i < j => to[i] < to[j]
    /\ \A w \in others : \E i \in own : w = to[i]
SameLines(f, g) == \E to : Paired(f, Telling(f), g, Telling(g), to)
SaysSame(f, g) == \E to : Paired(f, Said(f), g, Said(g), to)
\* Line i is the CMD of a health check.
Probe(f, i) ==
    \E h \in LinesOf(f, "HEALTHCHECK") :
        h < i /\ f[h].more /\ \A c \in LinesOf(f, "CMD") : ~(h < c /\ c < i)

\* Where a Dockerfile parses, a CMD inside another instruction is a health check's.
LEMMA InsideIsProbe ==
    ASSUME NEW f, Formed(f), Parses(f), NEW i \in LinesOf(f, "CMD")
    PROVE  Inside(f, i) <=> Probe(f, i)
<1>1. f \in Seq(TextLines) /\ DOMAIN f = 1..Len(f) /\ Len(f) \in Nat
    BY DEF Formed
<1>2. i \in DOMAIN f /\ f[i].op = "CMD"
    BY DEF LinesOf
<1>3. Local(f)
    BY FormedParses
<1>4. Inside(f, i) <=> \E p \in DOMAIN f : Continues(f, p, i)
    BY <1>1, <1>2, InsideContinues
<1>5. ASSUME NEW p \in DOMAIN f, Continues(f, p, i) PROVE Probe(f, i)
    <2>1. f[i].op = GoesOnWith(f[p])
        BY <1>2, <1>3, <1>5 DEF Local
    <2>2. p \in LinesOf(f, "HEALTHCHECK")
        BY <1>2, <2>1 DEF GoesOnWith, LinesOf
    <2>3. p < i /\ f[p].more /\ \A k \in (p + 1)..(i - 1) : f[k].op = "blank"
        BY <1>5 DEF Continues
    <2>4. ASSUME NEW c \in LinesOf(f, "CMD"), p < c, c < i PROVE FALSE
        <3>1. c \in DOMAIN f /\ f[c].op = "CMD"
            BY DEF LinesOf
        <3>2. c \in Nat /\ p \in Nat /\ i \in Nat
            BY <1>1, <1>2, <3>1
        <3>3. c \in (p + 1)..(i - 1)
            BY <2>4, <3>2, Between
        <3> QED
            BY <2>3, <3>1, <3>3
    <2> QED
        BY <2>2, <2>3, <2>4 DEF Probe
<1>6. ASSUME Probe(f, i) PROVE \E p \in DOMAIN f : Continues(f, p, i)
    <2>1. PICK h \in LinesOf(f, "HEALTHCHECK") :
            h < i /\ f[h].more /\ \A c \in LinesOf(f, "CMD") : ~(h < c /\ c < i)
        BY <1>6 DEF Probe
    <2>2. h \in DOMAIN f /\ f[h].op = "HEALTHCHECK"
        BY DEF LinesOf
    <2>3. PICK j \in DOMAIN f : Continues(f, h, j) /\ j <= i
        BY <1>1, <1>2, <2>1, <2>2, NextLine
    <2>4. f[j].op = "CMD"
        BY <1>3, <2>2, <2>3 DEF Local, GoesOnWith
    <2>5. h < j /\ j \in LinesOf(f, "CMD")
        BY <2>3, <2>4 DEF Continues, LinesOf
    <2>6. j = i
        <3>1. ~(j < i)
            BY <2>1, <2>5
        <3>2. i \in Nat /\ j \in Nat
            BY <1>1, <1>2
        <3> QED
            BY <2>3, <3>1, <3>2
    <2> QED
        BY <2>2, <2>3, <2>6
<1> QED
    BY <1>4, <1>5, <1>6

\* The other lines that say what the container runs are never inside another.
LEMMA NeverInside ==
    ASSUME NEW f, Parses(f), NEW i \in DOMAIN f, f[i].op \in {"FROM", "COPY", "ENTRYPOINT"}
    PROVE  ~Inside(f, i)
BY DEF Parses

\* The instruction in force is the last of the last stage.
InForceAt(f, op, u) ==
    /\ u \in Begins(f, op)
    /\ \A v \in Begins(f, op) : v <= u
    /\ \A v \in LinesOf(f, "FROM") : v < u

\* The arguments in force are those of that instruction, if there is one.
LEMMA InForceIs ==
    ASSUME NEW f, Formed(f), NEW op
    PROVE  /\ \A u : InForceAt(f, op, u) => InForce(f, op) = f[u].args
           /\ (~ \E u : InForceAt(f, op, u)) => InForce(f, op) = <<>>
<1> DEFINE n == Len(f)
           from == LinesOf(f, "FROM")
           own == {i \in Begins(f, op) : i > LastLine(f, "FROM")}
<1>1. f \in Seq(TextLines) /\ DOMAIN f = 1..n /\ n \in Nat
    BY DEF Formed
<1>2. from \in SUBSET (1..n) /\ from # {}
    BY <1>1, FormedFrom DEF LinesOf
<1>3. own \in SUBSET (1..n) /\ Begins(f, op) \in SUBSET (1..n)
    BY <1>1 DEF Begins, LinesOf
<1>4. LastLine(f, "FROM") = Max(from)
    BY <1>2 DEF LastLine
<1>5. Max(from) \in from /\ \A v \in from : v <= Max(from)
    BY <1>1, <1>2, MaxLine
<1>6. ASSUME NEW i \in Begins(f, op) PROVE i \in own <=> \A v \in from : v < i
    <2> DEFINE m == Max(from)
    <2>1. m \in Nat /\ m \in from /\ \A v \in from : v <= m
        BY <1>1, <1>2, <1>5
    <2>2. i \in own <=> m < i
        <3>1. i \in Nat
            BY <1>3
        <3> HIDE DEF m, from
        <3> QED
            BY <1>4, <2>1, <3>1 DEF m
    <2>3. i \in Nat /\ \A v \in from : v \in Nat
        BY <1>2, <1>3
    <2> HIDE DEF m, from, own
    <2>4. m < i <=> \A v \in from : v < i
        BY <2>1, <2>3
    <2> QED
        BY <2>2, <2>4
<1>7. InForce(f, op) = IF own = {} THEN <<>> ELSE f[Max(own)].args
    BY DEF InForce
<1>8. own # {} => Max(own) \in own /\ \A x \in own : x <= Max(own)
    BY <1>1, <1>3, MaxLine
<1>9. ASSUME own # {} PROVE InForceAt(f, op, Max(own))
    <2> DEFINE m == Max(own)
    <2>1. m \in own /\ \A x \in own : x <= m
        BY <1>8, <1>9
    <2>2. m \in Begins(f, op)
        BY <2>1
    <2> HIDE DEF own, m
    <2>3. \A v \in from : v < m
        BY <1>6, <2>1, <2>2
    <2>4. ASSUME NEW v \in Begins(f, op) PROVE v <= m
        <3>1. CASE v \in own
            BY <2>1, <3>1
        <3>2. CASE v \notin own
            <4>1. PICK x \in from : ~(x < v)
                BY <1>6, <3>2
            <4>2. x < m /\ x \in Nat /\ v \in Nat /\ m \in Nat
                BY <1>2, <1>3, <2>2, <2>3
            <4> QED
                BY <4>1, <4>2
        <3> QED
            BY <3>1, <3>2
    <2>5. InForceAt(f, op, m)
        BY <2>2, <2>3, <2>4 DEF InForceAt, from
    <2> QED
        BY <2>5 DEF m
<1>10. ASSUME NEW u, InForceAt(f, op, u) PROVE own # {} /\ u = Max(own)
    <2>1. u \in Begins(f, op) /\ (\A v \in Begins(f, op) : v <= u) /\ \A v \in from : v < u
        BY <1>10 DEF InForceAt
    <2> DEFINE m == Max(own)
    <2>2. own \subseteq Begins(f, op)
        OBVIOUS
    <2> HIDE DEF own, from
    <2>3. u \in own
        BY <1>6, <2>1
    <2>4. m \in own /\ u <= m /\ m <= u
        BY <1>8, <2>1, <2>2, <2>3
    <2>5. own \subseteq Nat
        BY <1>3
    <2>6. m \in Nat /\ u \in Nat
        BY <2>3, <2>4, <2>5
    <2> HIDE DEF m
    <2>7. u = m
        BY <2>4, <2>6
    <2> QED
        BY <2>3, <2>7 DEF m
<1> HIDE DEF own
<1> QED
    BY <1>7, <1>9, <1>10

\* The order of paired lines is the same both ways.
LEMMA PairedOrder ==
    ASSUME NEW f, NEW own \in SUBSET Nat, NEW g, NEW others \in SUBSET Nat, NEW to,
           Paired(f, own, g, others, to), NEW i \in own, NEW j \in own
    PROVE  /\ to[i] < to[j] <=> i < j
           /\ to[i] <= to[j] <=> i <= j
<1>1. /\ i \in Nat /\ j \in Nat /\ to[i] \in Nat /\ to[j] \in Nat
      /\ i < j => to[i] < to[j]
      /\ j < i => to[j] < to[i]
    BY DEF Paired
<1>2. i = j => to[i] = to[j]
    OBVIOUS
<1> DEFINE x == to[i]
           y == to[j]
<1>3. /\ x \in Nat /\ y \in Nat /\ (i < j => x < y) /\ (j < i => y < x) /\ (i = j => x = y)
    BY <1>1, <1>2
<1> HIDE DEF x, y
<1>4. (x < y <=> i < j) /\ (x <= y <=> i <= j)
    BY <1>1, <1>3
<1> QED
    BY <1>4 DEF x, y

\* The same instructions in the same order start the same program.
LEMMA SaidDecides ==
    ASSUME NEW f, Formed(f), Parses(f), NEW g, Formed(g), Parses(g), SaysSame(f, g)
    PROVE  Starts(g) = Starts(f)
<1>1. PICK to : Paired(f, Said(f), g, Said(g), to)
    BY DEF SaysSame
<1>2. Said(f) \in SUBSET Nat /\ Said(g) \in SUBSET Nat
    BY DEF Formed, Said
<1>3. /\ \A i \in Said(f) : to[i] \in Said(g) /\ Matches(f[i], g[to[i]])
      /\ \A w \in Said(g) : \E i \in Said(f) : w = to[i]
    BY <1>1 DEF Paired
<1>4. \A i, j \in Said(f) : (to[i] < to[j] <=> i < j) /\ (to[i] <= to[j] <=> i <= j)
    BY <1>1, <1>2, PairedOrder
<1>5. ASSUME NEW h, Parses(h)
      PROVE  /\ LinesOf(h, "FROM") = {i \in Said(h) : h[i].op = "FROM"}
             /\ \A op \in {"COPY", "CMD", "ENTRYPOINT"} : Begins(h, op) = {i \in Said(h) : h[i].op = op}
    BY <1>5, NeverInside DEF LinesOf, Begins, Said
<1>6. \A i \in Said(f) : g[to[i]].op = f[i].op
    BY <1>3 DEF Matches
<1>7. ASSUME NEW op \in {"CMD", "ENTRYPOINT"} PROVE InForce(g, op) = InForce(f, op)
    <2>1. ASSUME NEW u \in Said(f), f[u].op = op
          PROVE  InForceAt(g, op, to[u]) <=> InForceAt(f, op, u)
        <3>1. to[u] \in Begins(g, op) /\ u \in Begins(f, op)
            BY <1>3, <1>5, <1>6, <2>1
        <3>2. (\A v \in Begins(f, op) : v <= u) <=> \A w \in Begins(g, op) : w <= to[u]
            BY <1>3, <1>4, <1>5, <1>6, <2>1
        <3>3. (\A v \in LinesOf(f, "FROM") : v < u) <=> \A w \in LinesOf(g, "FROM") : w < to[u]
            BY <1>3, <1>4, <1>5, <1>6, <2>1
        <3> QED
            BY <3>1, <3>2, <3>3 DEF InForceAt
    <2>2. CASE \E u : InForceAt(f, op, u)
        <3>1. PICK u : InForceAt(f, op, u)
            BY <2>2
        <3>2. u \in Said(f) /\ f[u].op = op
            BY <1>5, <3>1 DEF InForceAt
        <3>3. InForceAt(g, op, to[u])
            BY <2>1, <3>1, <3>2
        <3>4. g[to[u]].args = f[u].args
            BY <1>3, <1>7, <3>2 DEF Matches
        <3> QED
            BY <3>1, <3>3, <3>4, InForceIs
    <2>3. CASE ~ \E u : InForceAt(f, op, u)
        <3>1. ASSUME NEW w, InForceAt(g, op, w) PROVE FALSE
            <4>1. w \in Said(g) /\ g[w].op = op
                BY <1>5, <3>1 DEF InForceAt
            <4>2. PICK u \in Said(f) : w = to[u]
                BY <1>3, <4>1
            <4>3. f[u].op = op
                BY <1>6, <4>1, <4>2
            <4> QED
                BY <2>1, <2>3, <3>1, <4>2, <4>3
        <3>2. InForce(f, op) = <<>> /\ InForce(g, op) = <<>>
            BY <2>3, <3>1, InForceIs
        <3> QED
            BY <3>2
    <2> QED
        BY <2>2, <2>3
<1>8. Argv(g) = Argv(f)
    BY <1>7 DEF Argv
<1>9. Copied(g) = Copied(f)
    <2>1. \A i \in Begins(f, "COPY") : to[i] \in Begins(g, "COPY") /\ g[to[i]].args = f[i].args
        BY <1>3, <1>5 DEF Matches
    <2>2. \A w \in Begins(g, "COPY") : \E i \in Begins(f, "COPY") : w = to[i]
        BY <1>3, <1>5, <1>6
    <2> QED
        BY <2>1, <2>2 DEF Copied
<1> QED
    BY <1>8, <1>9 DEF Starts

\* What pairs the lines pairs the instructions.
LEMMA SameLinesSay ==
    ASSUME NEW f, Formed(f), Parses(f), NEW g, Formed(g), Parses(g), SameLines(f, g)
    PROVE  SaysSame(f, g)
<1>1. PICK to : Paired(f, Telling(f), g, Telling(g), to)
    BY DEF SameLines
<1>2. Telling(f) \in SUBSET Nat /\ Telling(g) \in SUBSET Nat
    BY DEF Formed, Telling
<1>3. /\ \A i \in Telling(f) : to[i] \in Telling(g) /\ Matches(f[i], g[to[i]])
      /\ \A w \in Telling(g) : \E i \in Telling(f) : w = to[i]
      /\ \A i, j \in Telling(f) : i < j => to[i] < to[j]
    BY <1>1 DEF Paired
<1>4. \A i, j \in Telling(f) : to[i] < to[j] <=> i < j
    BY <1>1, <1>2, PairedOrder
<1>5. \A i \in Telling(f) : g[to[i]].op = f[i].op /\ (f[i].op = "HEALTHCHECK" => g[to[i]].more = f[i].more)
    BY <1>3 DEF Matches
<1>6. ASSUME NEW h, NEW op \in Kinds
      PROVE  LinesOf(h, op) = {i \in Telling(h) : h[i].op = op}
    BY DEF LinesOf, Telling
<1>7. "CMD" \in Kinds /\ "HEALTHCHECK" \in Kinds
    BY DEF Kinds
<1>8. ASSUME NEW i \in LinesOf(f, "CMD") PROVE Probe(g, to[i]) <=> Probe(f, i)
    <2>1. i \in Telling(f)
        BY <1>6, <1>7
    <2>2. ASSUME NEW h \in LinesOf(f, "HEALTHCHECK")
          PROVE  /\ to[h] \in LinesOf(g, "HEALTHCHECK") /\ g[to[h]].more = f[h].more
                 /\ to[h] < to[i] <=> h < i
                 /\ (\A c \in LinesOf(f, "CMD") : ~(h < c /\ c < i))
                      <=> \A d \in LinesOf(g, "CMD") : ~(to[h] < d /\ d < to[i])
        <3>1. h \in Telling(f) /\ f[h].op = "HEALTHCHECK"
            BY <1>6, <1>7
        <3>2. to[h] \in LinesOf(g, "HEALTHCHECK") /\ g[to[h]].more = f[h].more
            BY <1>3, <1>5, <1>6, <1>7, <3>1
        <3>3. \A c \in LinesOf(f, "CMD") : /\ to[c] \in LinesOf(g, "CMD")
                                           /\ to[h] < to[c] <=> h < c
                                           /\ to[c] < to[i] <=> c < i
            BY <1>3, <1>4, <1>5, <1>6, <1>7, <2>1, <3>1
        <3>4. \A d \in LinesOf(g, "CMD") : \E c \in LinesOf(f, "CMD") : d = to[c]
            BY <1>3, <1>5, <1>6, <1>7
        <3>5. to[h] < to[i] <=> h < i
            BY <1>4, <2>1, <3>1
        <3> QED
            BY <3>2, <3>3, <3>4, <3>5
    <2>3. \A w \in LinesOf(g, "HEALTHCHECK") : \E h \in LinesOf(f, "HEALTHCHECK") : w = to[h]
        BY <1>3, <1>5, <1>6, <1>7
    <2> QED
        BY <2>2, <2>3 DEF Probe
<1>9. ASSUME NEW i \in Telling(f), f[i].op # "HEALTHCHECK"
      PROVE  Inside(g, to[i]) <=> Inside(f, i)
    <2>1. to[i] \in Telling(g) /\ g[to[i]].op = f[i].op
        BY <1>3, <1>5
    <2>2. i \in DOMAIN f /\ to[i] \in DOMAIN g /\ f[i].op \in Kinds
        BY <2>1 DEF Telling
    <2>3. CASE f[i].op = "CMD"
        <3>1. i \in LinesOf(f, "CMD") /\ to[i] \in LinesOf(g, "CMD")
            BY <2>1, <2>2, <2>3 DEF LinesOf
        <3>2. Inside(f, i) <=> Probe(f, i)
            BY <3>1, InsideIsProbe
        <3>3. Inside(g, to[i]) <=> Probe(g, to[i])
            BY <3>1, InsideIsProbe
        <3> QED
            BY <1>8, <3>1, <3>2, <3>3
    <2>4. CASE f[i].op # "CMD"
        <3>1. f[i].op \in {"FROM", "COPY", "ENTRYPOINT"}
            BY <1>9, <2>2, <2>4 DEF Kinds
        <3> QED
            BY <2>1, <2>2, <3>1, NeverInside
    <2> QED
        BY <2>3, <2>4
<1>10. ASSUME NEW h PROVE Said(h) = {i \in Telling(h) : h[i].op # "HEALTHCHECK" /\ ~Inside(h, i)}
    BY DEF Said, Telling, Kinds
<1>11. \A i \in Said(f) : to[i] \in Said(g) /\ Matches(f[i], g[to[i]])
    BY <1>3, <1>5, <1>9, <1>10
<1>12. \A w \in Said(g) : \E i \in Said(f) : w = to[i]
    BY <1>3, <1>5, <1>9, <1>10
<1>13. \A i, j \in Said(f) : i < j => to[i] < to[j]
    BY <1>3, <1>10
<1>14. Paired(f, Said(f), g, Said(g), to)
    BY <1>11, <1>12, <1>13 DEF Paired
<1> QED
    BY <1>14 DEF SaysSame

\* Every Dockerfile has its own lines.
LEMMA SameLinesReflexive ==
    ASSUME NEW f
    PROVE  SameLines(f, f)
<1> DEFINE to == [i \in Telling(f) |-> i]
<1>1. \A i \in Telling(f) : to[i] = i
    OBVIOUS
<1> HIDE DEF to
<1>2. Paired(f, Telling(f), f, Telling(f), to)
    BY <1>1 DEF Paired, Matches
<1> QED
    BY <1>2 DEF SameLines

\* To have the same lines is transitive.
LEMMA SameLinesTransitive ==
    ASSUME NEW f, NEW g, NEW h, SameLines(f, g), SameLines(g, h)
    PROVE  SameLines(f, h)
<1>1. PICK a : Paired(f, Telling(f), g, Telling(g), a)
    BY DEF SameLines
<1>2. PICK b : Paired(g, Telling(g), h, Telling(h), b)
    BY DEF SameLines
<1> DEFINE to == [i \in Telling(f) |-> b[a[i]]]
<1>3. \A i \in Telling(f) : to[i] = b[a[i]]
    OBVIOUS
<1> HIDE DEF to
<1>4. \A i \in Telling(f) : a[i] \in Telling(g) /\ Matches(f[i], g[a[i]])
    BY <1>1 DEF Paired
<1>5. \A i \in Telling(g) : b[i] \in Telling(h) /\ Matches(g[i], h[b[i]])
    BY <1>2 DEF Paired
<1>6. \A i \in Telling(f) : to[i] \in Telling(h) /\ Matches(f[i], h[to[i]])
    BY <1>3, <1>4, <1>5 DEF Matches
<1>7. \A i, j \in Telling(f) : i < j => to[i] < to[j]
    BY <1>1, <1>2, <1>3, <1>4 DEF Paired
<1>8. \A w \in Telling(h) : \E i \in Telling(f) : w = to[i]
    BY <1>1, <1>2, <1>3 DEF Paired
<1>9. Paired(f, Telling(f), h, Telling(h), to)
    BY <1>6, <1>7, <1>8 DEF Paired
<1> QED
    BY <1>9 DEF SameLines

\* A rewriting that keeps each line that tells something first in its piece, and
\* adds only lines that do not.
LEMMA ExtendedSame ==
    ASSUME NEW f \in Seq(TextLines), NEW g \in Seq(TextLines),
           NEW piece \in Seq(Seq(TextLines)), Len(piece) = Len(f), NEW at, Woven(g, piece, at),
           \A i \in DOMAIN f : 1 \in DOMAIN piece[i] /\ Matches(f[i], piece[i][1]),
           \A i \in DOMAIN f : \A k \in DOMAIN piece[i] : k # 1 => piece[i][k].op \notin Kinds
    PROVE  SameLines(f, g)
<1>1. DOMAIN piece = DOMAIN f
    OBVIOUS
<1>2. /\ \A i \in DOMAIN f : \A k \in DOMAIN piece[i] : at[i][k] \in DOMAIN g /\ g[at[i][k]] = piece[i][k]
      /\ \A i, j \in DOMAIN f : \A k \in DOMAIN piece[i], m \in DOMAIN piece[j] :
           at[i][k] < at[j][m] <=> i < j \/ (i = j /\ k < m)
      /\ \A w \in DOMAIN g : \E i \in DOMAIN f : \E k \in DOMAIN piece[i] : w = at[i][k]
    BY <1>1 DEF Woven
<1> DEFINE to == [i \in Telling(f) |-> at[i][1]]
<1>3. \A i \in Telling(f) : to[i] = at[i][1]
    OBVIOUS
<1> HIDE DEF to
<1>4. \A i \in DOMAIN f : piece[i][1].op = f[i].op
    BY DEF Matches
<1>0. \A i \in DOMAIN f : 1 \in DOMAIN piece[i] /\ Matches(f[i], piece[i][1])
    OBVIOUS
<1>10. \A i \in DOMAIN f : at[i][1] \in DOMAIN g /\ g[at[i][1]] = piece[i][1]
    BY <1>0, <1>2
<1>11. \A i, j \in DOMAIN f : i < j => at[i][1] < at[j][1]
    BY <1>0, <1>2
<1>5. ASSUME NEW i \in Telling(f) PROVE to[i] \in Telling(g) /\ Matches(f[i], g[to[i]])
    <2>1. i \in DOMAIN f /\ f[i].op \in Kinds
        BY DEF Telling
    <2>2. to[i] \in DOMAIN g /\ g[to[i]] = piece[i][1]
        BY <1>3, <1>10, <2>1
    <2> QED
        BY <1>0, <1>4, <2>1, <2>2 DEF Telling
<1>6. ASSUME NEW i \in Telling(f), NEW j \in Telling(f), i < j PROVE to[i] < to[j]
    <2>1. i \in DOMAIN f /\ j \in DOMAIN f
        BY DEF Telling
    <2> QED
        BY <1>3, <1>6, <1>11, <2>1
<1>7. ASSUME NEW w \in Telling(g) PROVE \E i \in Telling(f) : w = to[i]
    <2>1. w \in DOMAIN g /\ g[w].op \in Kinds
        BY DEF Telling
    <2>2. PICK i \in DOMAIN f : \E k \in DOMAIN piece[i] : w = at[i][k]
        BY <1>2, <2>1
    <2>3. PICK k \in DOMAIN piece[i] : w = at[i][k]
        BY <2>2
    <2>4. g[w] = piece[i][k]
        BY <1>2, <2>3
    <2>5. k = 1
        BY <2>1, <2>4
    <2>6. i \in Telling(f)
        BY <1>4, <2>1, <2>4, <2>5 DEF Telling
    <2> QED
        BY <1>3, <2>3, <2>5, <2>6
<1>8. Paired(f, Telling(f), g, Telling(g), to)
    BY <1>5, <1>6, <1>7 DEF Paired
<1> QED
    BY <1>8 DEF SameLines

\* One line more that tells nothing.
LEMMA InsertedSame ==
    ASSUME NEW f \in Seq(TextLines), NEW g \in Seq(TextLines), NEW q \in 1..(Len(f) + 1),
           Len(g) = Len(f) + 1, g[q].op \notin Kinds,
           \A w \in DOMAIN f : w < q => Matches(f[w], g[w]),
           \A w \in DOMAIN f : q <= w => Matches(f[w], g[w + 1])
    PROVE  SameLines(f, g)
<1>1. DOMAIN f = 1..Len(f) /\ DOMAIN g = 1..(Len(f) + 1) /\ Len(f) \in Nat /\ q \in Nat
    OBVIOUS
<1> DEFINE to == [i \in Telling(f) |-> IF i < q THEN i ELSE i + 1]
<1>2. \A i \in Telling(f) : (i < q => to[i] = i) /\ (~(i < q) => to[i] = i + 1)
    OBVIOUS
<1> HIDE DEF to
<1>3. ASSUME NEW i \in Telling(f) PROVE to[i] \in Telling(g) /\ Matches(f[i], g[to[i]])
    <2>1. i \in DOMAIN f /\ f[i].op \in Kinds /\ i \in Nat
        BY <1>1 DEF Telling
    <2>2. to[i] \in DOMAIN g /\ Matches(f[i], g[to[i]])
        <3>1. CASE i < q
            <4>1. i \in DOMAIN g
                BY <1>1, <2>1
            <4> QED
                BY <1>2, <2>1, <3>1, <4>1
        <3>2. CASE ~(i < q)
            <4>1. i + 1 \in DOMAIN g /\ q <= i
                BY <1>1, <2>1, <3>2
            <4> QED
                BY <1>2, <2>1, <3>2, <4>1
        <3> QED
            BY <3>1, <3>2
    <2> QED
        BY <2>1, <2>2 DEF Telling, Matches
<1>4. ASSUME NEW i \in Telling(f), NEW j \in Telling(f), i < j PROVE to[i] < to[j]
    <2>1. i \in Nat /\ j \in Nat
        BY <1>1 DEF Telling
    <2>2. (to[i] = i \/ (q <= i /\ to[i] = i + 1)) /\ (to[j] = j \/ to[j] = j + 1) /\ (j < q \/ to[j] = j + 1)
        BY <1>1, <1>2, <2>1
    <2> QED
        BY <1>1, <1>4, <2>1, <2>2
<1>5. ASSUME NEW w \in Telling(g) PROVE \E i \in Telling(f) : w = to[i]
    <2>1. w \in DOMAIN g /\ g[w].op \in Kinds /\ w # q /\ w \in 1..(Len(f) + 1)
        BY <1>1 DEF Telling
    <2>2. CASE w < q
        <3>1. w \in DOMAIN f
            BY <1>1, <2>1, <2>2
        <3>2. w \in Telling(f)
            BY <2>1, <2>2, <3>1 DEF Telling, Matches
        <3> QED
            BY <1>2, <2>2, <3>2
    <2>3. CASE ~(w < q)
        <3> DEFINE i == w - 1
        <3>1. i \in DOMAIN f /\ q <= i /\ i + 1 = w /\ ~(i < q)
            BY <1>1, <2>1, <2>3
        <3> HIDE DEF i
        <3>2. i \in Telling(f)
            BY <2>1, <3>1 DEF Telling, Matches
        <3> QED
            BY <1>2, <3>1, <3>2
    <2> QED
        BY <2>2, <2>3
<1>6. Paired(f, Telling(f), g, Telling(g), to)
    BY <1>3, <1>4, <1>5 DEF Paired
<1> QED
    BY <1>6 DEF SameLines

\* Lines reworded one by one, but for those that tell something.
LEMMA RewordedSame ==
    ASSUME NEW f, NEW g, DOMAIN g = DOMAIN f, \A i \in DOMAIN f : g[i].op = f[i].op,
           \A i \in DOMAIN f : f[i].op \in Kinds => Matches(f[i], g[i])
    PROVE  SameLines(f, g)
<1> DEFINE to == [i \in Telling(f) |-> i]
<1>1. \A i \in Telling(f) : to[i] = i
    OBVIOUS
<1> HIDE DEF to
<1>2. Telling(g) = Telling(f) /\ \A i \in Telling(f) : Matches(f[i], g[i])
    BY DEF Telling
<1>3. Paired(f, Telling(f), g, Telling(g), to)
    BY <1>1, <1>2 DEF Paired
<1> QED
    BY <1>3 DEF SameLines

-----------------------------------------------------------------------------
(* Blocks added after a line, and lines reworded.                          *)

\* What a step keeps of what Docker, Parses aside, and the gate make of the lines.
Keeps(f, g) ==
    /\ Formed(g)
    /\ NoUserInside(f) => NoUserInside(g) /\ (Nonroot(f) => Nonroot(g))
    /\ CheckDockerfile(f) => CheckDockerfile(g)
\* g names the old path only where f did, and then the new one only where f did.
NamesKept(f, g, facts) ==
    /\ RunsDeprecated(g) => RunsDeprecated(f)
    /\ RunsDeprecated(g) /\ NamesCanonical(g, facts) => NamesCanonical(f, facts)

\* What a step has to keep for WellWritten.
LEMMA StillWellWritten ==
    ASSUME NEW f, NEW g, NEW facts, WellWritten(f, facts), Formed(g), NamesKept(f, g, facts)
    PROVE  WellWritten(g, facts)
BY WellWrittenFormed DEF NamesKept

\* The four lemmas on extended Dockerfiles in one.
LEMMA ExtendedKeeps ==
    ASSUME NEW f, Formed(f), NEW g \in Seq(TextLines),
           NEW piece \in Seq(Seq(TextLines)), Len(piece) = Len(f), NEW at, Woven(g, piece, at),
           Extended(f, piece), Alike(f, piece)
    PROVE  Keeps(f, g) /\ (GoesOn(f, piece) /\ Parses(f) => Parses(g))
BY ExtendedFormed, ExtendedNonroot, ExtendedAccepted, ExtendedParses DEF Keeps

\* The lines of a formed Dockerfile.
LEMMA FormedLines ==
    ASSUME NEW f, Formed(f)
    PROVE  /\ f \in Seq(TextLines) /\ Len(f) \in Nat \ {0} /\ DOMAIN f = 1..Len(f)
           /\ \A i \in DOMAIN f : /\ f[i] \in TextLines /\ f[i].op \in Ops /\ f[i].more \in BOOLEAN
                                  /\ f[i].args \in Seq(Seq(Vocabulary))
                                  /\ f[i].more => f[i].op \in Continuable
<1>1. f \in Seq(TextLines)
    BY DEF Formed
<1>2. Len(f) # 0
    <2>1. PICK i \in DOMAIN f : TRUE
        BY DEF Formed, LinesOf
    <2> QED
        BY <1>1, <2>1
<1> QED
    BY <1>1, <1>2, LineTyped DEF Formed

\* Each line changed in its arguments only.
Reworded(f, g) ==
    /\ g \in Seq(TextLines) /\ Len(g) = Len(f)
    /\ \A i \in DOMAIN f : /\ g[i].op = f[i].op /\ g[i].more = f[i].more
                           /\ SameUse(f[i], g[i])
                           /\ f[i].op = "USER" /\ f[i].args = Exec(<<"65532">>) => g[i].args = f[i].args
                           /\ f[i].op = "HEALTHCHECK" /\ f[i].args # <<>> => g[i].args # <<>>

\* Lines reworded one by one keep everything but the names.
LEMMA RewordedKeeps ==
    ASSUME NEW f, Formed(f), NEW g, Reworded(f, g)
    PROVE  Keeps(f, g) /\ (Parses(f) => Parses(g))
<1> DEFINE n == Len(f)
           piece == [i \in 1..n |-> <<g[i]>>]
<1>1. /\ f \in Seq(TextLines) /\ n \in Nat \ {0} /\ DOMAIN f = 1..n
      /\ \A i \in 1..n : f[i].more => f[i].op \in Continuable
    BY FormedLines
<1>2. g \in Seq(TextLines) /\ Len(g) = n /\ DOMAIN g = 1..n
    BY DEF Reworded
<1>3. /\ piece \in Seq(Seq(TextLines)) /\ Len(piece) = n /\ DOMAIN piece = 1..n
      /\ \A i \in 1..n : piece[i] = <<g[i]>> /\ DOMAIN piece[i] = {1} /\ piece[i][1] = g[i]
    BY <1>1, <1>2
<1>4. \E at : Woven(g, piece, at)
    <2>1. \E start : LaidOut(g, piece, start)
        BY <1>1, <1>2, SinglesLayOut
    <2> HIDE DEF piece
    <2> QED
        BY <1>2, <1>3, <2>1, LaidOutWoven
<1> HIDE DEF piece, n
<1>5. PICK at : Woven(g, piece, at)
    BY <1>4
<1>6. \A i \in 1..n : /\ g[i].op = f[i].op /\ g[i].more = f[i].more
                      /\ SameUse(f[i], g[i])
                      /\ f[i].op = "USER" /\ f[i].args = Exec(<<"65532">>) => g[i].args = f[i].args
                      /\ f[i].op = "HEALTHCHECK" /\ f[i].args # <<>> => g[i].args # <<>>
    BY <1>1 DEF Reworded
<1>7. \A i \in 1..n : 2 \notin DOMAIN piece[i] /\ \A k \in DOMAIN piece[i] : k = 1 /\ k + 1 \notin DOMAIN piece[i]
    BY <1>3
<1>8. Extended(f, piece)
    BY <1>1, <1>3, <1>6, <1>7 DEF Extended
<1>9. Alike(f, piece)
    BY <1>3, <1>6 DEF Alike
<1>10. GoesOn(f, piece)
    BY <1>3, <1>7 DEF GoesOn
<1> QED
    BY <1>2, <1>3, <1>5, <1>8, <1>9, <1>10, ExtendedKeeps DEF n

\* A line has the use of one with the same arguments.
LEMMA SameUseReflexive ==
    ASSUME NEW line, NEW other, other.op = line.op, other.args = line.args
    PROVE  SameUse(line, other)
BY DEF SameUse

\* Lines that nothing else begins with, after one of f.
Trails(block) ==
    /\ block \in Seq(TextLines) /\ Len(block) # 0
    /\ \A k \in DOMAIN block : /\ block[k].op \in {"ENV", "var", "LABEL"}
                               /\ block[k].more => block[k].op \in Continuable
    /\ ~block[Len(block)].more
\* They begin an instruction of their own.
Instruction(block) ==
    /\ block[1].op # "var"
    /\ \A k \in DOMAIN block : k + 1 \in DOMAIN block =>
         IF block[k].more THEN block[k + 1].op = "var" ELSE block[k + 1].op # "var"

\* An ENV block after some lines, as wire_db_shims.py and
\* wire_backup_schedules.py put it after USER.
LEMMA AfterUsersKeeps ==
    ASSUME NEW f, Formed(f), NEW users, NEW block, Trails(block),
           \A i \in DOMAIN f : i \in users => f[i].op # "blank"
    PROVE  /\ Keeps(f, AfterUsers(f, users, block))
           /\ \A facts : NamesKept(f, AfterUsers(f, users, block), facts)
           /\ SameLines(f, AfterUsers(f, users, block))
           /\ Parses(f) /\ Instruction(block) /\ (\A i \in DOMAIN f : i \in users => ~f[i].more)
                => Parses(AfterUsers(f, users, block))
<1> DEFINE n == Len(f)
           z == Len(block)
           g == AfterUsers(f, users, block)
           piece == [i \in 1..n |-> IF i \in users THEN <<f[i]>> \o block ELSE <<f[i]>>]
<1>1. /\ f \in Seq(TextLines) /\ n \in Nat \ {0} /\ DOMAIN f = 1..n
      /\ \A i \in 1..n : f[i] \in TextLines /\ (f[i].more => f[i].op \in Continuable)
    BY FormedLines
<1>2. block \in Seq(TextLines) /\ z \in Nat \ {0} /\ DOMAIN block = 1..z
    BY DEF Trails
<1>3. ASSUME NEW i \in 1..n
      PROVE  /\ <<f[i]>> \o block \in Seq(TextLines) /\ Len(<<f[i]>> \o block) = z + 1
             /\ (<<f[i]>> \o block)[1] = f[i]
             /\ \A k \in 1..z : (<<f[i]>> \o block)[1 + k] = block[k]
    <2> DEFINE s == <<f[i]>>
    <2>1. s \in Seq(TextLines) /\ Len(s) = 1 /\ s[1] = f[i] /\ 1 \in 1..Len(s)
        BY <1>1
    <2> HIDE DEF s
    <2>2. /\ s \o block \in Seq(TextLines)
          /\ Len(s \o block) = Len(s) + Len(block)
          /\ \A w \in 1..Len(s) : (s \o block)[w] = s[w]
          /\ \A k \in 1..Len(block) : (s \o block)[Len(s) + k] = block[k]
        <3>1. s \in Seq(TextLines) /\ block \in Seq(TextLines)
            BY <1>2, <2>1
        <3> QED
            BY <3>1, Concatenated
    <2>3. Len(s \o block) = z + 1 /\ (s \o block)[1] = f[i] /\ \A k \in 1..z : (s \o block)[1 + k] = block[k]
        <3>1. Len(block) = z
            OBVIOUS
        <3> HIDE DEF z
        <3> QED
            BY <1>2, <2>1, <2>2, <3>1
    <2> QED
        BY <2>2, <2>3 DEF s
<1>4. piece \in Seq(Seq(TextLines)) /\ Len(piece) = n /\ DOMAIN piece = 1..n
    <2>1. ASSUME NEW i \in 1..n PROVE <<f[i]>> \in Seq(TextLines) /\ <<f[i]>> \o block \in Seq(TextLines)
        <3>1. f[i] \in TextLines
            BY <1>1
        <3>2. <<f[i]>> \in Seq(TextLines)
            BY <3>1
        <3> QED
            BY <1>3, <3>2
    <2>2. \A i \in 1..n : (IF i \in users THEN <<f[i]>> \o block ELSE <<f[i]>>) \in Seq(TextLines)
        BY <2>1
    <2> QED
        BY <1>1, <2>2
<1>5. /\ \A i \in 1..n : i \in users => piece[i] = <<f[i]>> \o block
      /\ \A i \in 1..n : i \notin users => piece[i] = <<f[i]>>
    OBVIOUS
<1>6. g = Rewrite(f, piece)
    BY <1>1 DEF AfterUsers
<1> HIDE DEF piece, g, n, z
<1>7. g \in Seq(TextLines) /\ \E at : Woven(g, piece, at)
    BY <1>1, <1>4, <1>6, RewriteWoven DEF n
<1>8. PICK at : Woven(g, piece, at)
    BY <1>7
<1>9. ASSUME NEW i \in 1..n
      PROVE  /\ 1 \in DOMAIN piece[i] /\ piece[i][1] = f[i]
             /\ i \notin users => DOMAIN piece[i] = {1}
             /\ i \in users => /\ DOMAIN piece[i] = 1..(z + 1)
                               /\ \A k \in 1..z : piece[i][1 + k] = block[k]
    <2>1. CASE i \in users
        <3>1. piece[i] \in Seq(TextLines) /\ Len(piece[i]) = z + 1
            BY <1>3, <1>5, <2>1
        <3>2. DOMAIN piece[i] = 1..(z + 1)
            BY <3>1
        <3>3. piece[i][1] = f[i] /\ \A k \in 1..z : piece[i][1 + k] = block[k]
            BY <1>3, <1>5, <2>1, ZenonT(30)
        <3>4. 1 \in 1..(z + 1)
            BY <1>2
        <3> QED
            BY <2>1, <3>2, <3>3, <3>4
    <2>2. CASE i \notin users
        BY <1>5, <2>2
    <2> QED
        BY <2>1, <2>2
<1>10. ASSUME NEW i \in 1..n, NEW k \in DOMAIN piece[i], k # 1
       PROVE  /\ i \in users /\ k - 1 \in DOMAIN block /\ piece[i][k] = block[k - 1]
              /\ k + 1 \in DOMAIN piece[i] <=> (k - 1) + 1 \in DOMAIN block
              /\ (k - 1) + 1 = k /\ k \in Nat
    <2>1. i \in users
        BY <1>9, <1>10
    <2>2. k \in 1..(z + 1) /\ z \in Nat
        BY <1>2, <1>9, <2>1
    <2>3. k - 1 \in 1..z /\ 1 + (k - 1) = k /\ (k - 1) + 1 = k /\ k \in Nat
        BY <1>10, <2>2
    <2>4. k + 1 \in 1..(z + 1) <=> k \in 1..z
        BY <2>2
    <2> QED
        BY <1>2, <1>9, <2>1, <2>3, <2>4
<1>11. Extended(f, piece)
    <2> SUFFICES ASSUME NEW i \in 1..n
                 PROVE  /\ 1 \in DOMAIN piece[i] /\ piece[i][1].op = f[i].op
                        /\ 2 \notin DOMAIN piece[i] => piece[i][1].more = f[i].more
                        /\ 2 \in DOMAIN piece[i] => i = Len(f) \/ f[i].op # "blank"
                        /\ \A k \in DOMAIN piece[i] :
                             /\ k # 1 => piece[i][k].op \in {"ENV", "var", "LABEL"}
                             /\ piece[i][k].more => piece[i][k].op \in Continuable
                             /\ k # 1 /\ k + 1 \notin DOMAIN piece[i] => ~piece[i][k].more
        BY <1>4 DEF Extended
    <2>1. 2 \in DOMAIN piece[i] => i \in users
        BY <1>9
    <2>2. ASSUME NEW k \in DOMAIN piece[i]
          PROVE  /\ k # 1 => piece[i][k].op \in {"ENV", "var", "LABEL"}
                 /\ piece[i][k].more => piece[i][k].op \in Continuable
                 /\ k # 1 /\ k + 1 \notin DOMAIN piece[i] => ~piece[i][k].more
        <3>1. CASE k = 1
            BY <1>1, <1>9, <3>1
        <3>2. CASE k # 1
            <4>1. /\ piece[i][k] = block[k - 1] /\ k - 1 \in DOMAIN block
                  /\ k + 1 \notin DOMAIN piece[i] => (k - 1) + 1 \notin DOMAIN block
                BY <1>10, <3>2
            <4>2. (k - 1) + 1 \notin DOMAIN block => k - 1 = Len(block)
                <5>1. k - 1 \in 1..z
                    BY <1>2, <4>1
                <5>2. (k - 1) + 1 \notin 1..z => k - 1 = z
                    BY <1>2, <5>1
                <5> QED
                    BY <1>2, <5>2 DEF z
            <4> QED
                BY <3>2, <4>1, <4>2 DEF Trails
        <3> QED
            BY <3>1, <3>2
    <2> QED
        BY <1>1, <1>9, <2>1, <2>2
<1>12. Alike(f, piece)
    BY <1>4, <1>9, SameUseReflexive DEF Alike
<1>13. ASSUME Instruction(block), \A i \in DOMAIN f : i \in users => ~f[i].more
       PROVE  GoesOn(f, piece)
    <2> SUFFICES ASSUME NEW i \in 1..n
                 PROVE  /\ 2 \in DOMAIN piece[i] => ~f[i].more
                        /\ \A k \in DOMAIN piece[i] : k + 1 \in DOMAIN piece[i] =>
                             IF piece[i][k].more THEN piece[i][k].op # "HEALTHCHECK" /\ piece[i][k + 1].op = "var"
                             ELSE piece[i][k + 1].op # "var"
        BY <1>4 DEF GoesOn
    <2>1. 2 \in DOMAIN piece[i] => ~f[i].more
        BY <1>1, <1>9, <1>13
    <2>2. ASSUME NEW k \in DOMAIN piece[i], k + 1 \in DOMAIN piece[i]
          PROVE  IF piece[i][k].more THEN piece[i][k].op # "HEALTHCHECK" /\ piece[i][k + 1].op = "var"
                 ELSE piece[i][k + 1].op # "var"
        <3>1. CASE k = 1
            <4>1. 2 \in DOMAIN piece[i] /\ k + 1 = 2
                BY <2>2, <3>1
            <4>2. i \in users /\ piece[i][2] = block[2 - 1] /\ 2 - 1 = 1
                BY <1>10, <4>1
            <4>3. piece[i][1] = f[i] /\ ~f[i].more
                BY <1>9, <2>1, <4>1
            <4> QED
                BY <1>13, <3>1, <4>1, <4>2, <4>3 DEF Instruction
        <3>2. CASE k # 1
            <4>1. /\ piece[i][k] = block[k - 1] /\ k - 1 \in DOMAIN block
                  /\ (k - 1) + 1 \in DOMAIN block /\ (k - 1) + 1 = k /\ k \in Nat
                BY <1>10, <2>2, <3>2
            <4>2. k + 1 # 1 /\ (k + 1) - 1 = k
                <5>1. k - 1 \in 1..z
                    BY <1>2, <4>1
                <5> QED
                    BY <1>2, <4>1, <5>1
            <4>3. piece[i][k + 1] = block[k]
                BY <1>10, <2>2, <4>2
            <4>4. IF block[k - 1].more THEN block[k].op = "var" ELSE block[k].op # "var"
                BY <1>13, <4>1 DEF Instruction
            <4>5. block[k - 1].op # "HEALTHCHECK"
                BY <4>1 DEF Trails
            <4> QED
                BY <4>1, <4>3, <4>4, <4>5
        <3> QED
            BY <3>1, <3>2
    <2> QED
        BY <2>1, <2>2
<1>14. NamesFrom(f, piece)
    <2> SUFFICES ASSUME NEW i \in 1..n, NEW k \in DOMAIN piece[i], piece[i][k].op \in {"ENTRYPOINT", "CMD"}
                 PROVE  piece[i][k] = f[i]
        BY <1>4 DEF NamesFrom
    <2>1. k = 1
        BY <1>10 DEF Trails
    <2> QED
        BY <1>9, <2>1
<1>15. Keeps(f, g) /\ (GoesOn(f, piece) /\ Parses(f) => Parses(g))
    BY <1>4, <1>7, <1>8, <1>11, <1>12, ExtendedKeeps DEF n
<1>16. ASSUME NEW facts PROVE NamesKept(f, g, facts)
    BY <1>4, <1>7, <1>8, <1>14, NamesTransported DEF NamesKept, n
<1>17. SameLines(f, g)
    <2>1. \A i \in DOMAIN f : 1 \in DOMAIN piece[i] /\ Matches(f[i], piece[i][1])
        BY <1>1, <1>9 DEF Matches
    <2>2. ASSUME NEW i \in DOMAIN f, NEW k \in DOMAIN piece[i], k # 1
          PROVE  piece[i][k].op \notin Kinds
        <3>1. piece[i][k].op \in {"ENV", "var", "LABEL"}
            BY <1>1, <1>10, <2>2 DEF Trails
        <3> QED
            BY <3>1 DEF Kinds
    <2>3. Len(piece) = Len(f)
        BY <1>4 DEF n
    <2> QED
        BY <1>1, <1>4, <1>7, <1>8, <2>1, <2>2, <2>3, ExtendedSame
<1> QED
    BY <1>13, <1>15, <1>16, <1>17 DEF g

-----------------------------------------------------------------------------
(* A line inserted, and the blocks of the shim's variables.                *)

\* An added line after line p, which may be left open for it.
LEMMA InsertedKeeps ==
    ASSUME NEW f, Formed(f), NEW p \in DOMAIN f, p = Len(f) \/ f[p].op # "blank",
           NEW h \in Seq(TextLines), Len(h) = Len(f),
           \A i \in DOMAIN f : h[i].op = f[i].op /\ h[i].args = f[i].args /\ (i # p => h[i].more = f[i].more),
           h[p].more => h[p].op \in Continuable,
           NEW e \in TextLines, e.op \in {"ENV", "var", "LABEL"}, ~e.more
    PROVE  /\ Keeps(f, InsertAt(h, p + 1, e))
           /\ \A facts : NamesKept(f, InsertAt(h, p + 1, e), facts)
           /\ /\ Parses(f) /\ ~f[p].more
              /\ IF h[p].more THEN e.op = "var" /\ f[p].op # "HEALTHCHECK" ELSE e.op # "var"
              => Parses(InsertAt(h, p + 1, e))
<1> DEFINE n == Len(f)
           g == InsertAt(h, p + 1, e)
           piece == [i \in 1..n |-> IF i = p THEN <<h[i], e>> ELSE <<h[i]>>]
<1>1. /\ f \in Seq(TextLines) /\ n \in Nat \ {0} /\ DOMAIN f = 1..n /\ p \in 1..n
      /\ \A i \in 1..n : f[i] \in TextLines /\ (f[i].more => f[i].op \in Continuable)
    BY FormedLines
<1>2. \A i \in 1..n : h[i] \in TextLines
    BY <1>1
<1>3. \A i \in 1..n : <<h[i]>> \in Seq(TextLines) /\ <<h[i], e>> \in Seq(TextLines)
    <2> SUFFICES ASSUME NEW i \in 1..n PROVE <<h[i]>> \in Seq(TextLines) /\ <<h[i], e>> \in Seq(TextLines)
        OBVIOUS
    <2>1. h[i] \in TextLines
        BY <1>2
    <2> QED
        BY <2>1
<1>4. piece \in Seq(Seq(TextLines)) /\ Len(piece) = n /\ DOMAIN piece = 1..n
    <2>1. \A i \in 1..n : (IF i = p THEN <<h[i], e>> ELSE <<h[i]>>) \in Seq(TextLines)
        BY <1>3
    <2> QED
        BY <1>1, <2>1
<1>5. /\ piece[p] = <<h[p], e>>
      /\ \A i \in 1..n : i # p => piece[i] = <<h[i]>>
    BY <1>1
<1>6. g \in Seq(TextLines)
    <2>1. p + 1 \in 1..(Len(h) + 1)
        BY <1>1
    <2> QED
        BY <2>1, OneMoreLine, SMTT(30)
<1>7. \E at : Woven(g, piece, at)
    <2>1. p \in 1..Len(h) /\ Len(h) = n
        BY <1>1
    <2>2. \E start : LaidOut(g, piece, start)
        BY <2>1, InsertLaysOut
    <2> HIDE DEF piece, g
    <2> QED
        BY <1>4, <1>6, <2>2, LaidOutWoven
<1> HIDE DEF piece, g, n
<1>8. PICK at : Woven(g, piece, at)
    BY <1>7
<1>9. /\ DOMAIN piece[p] = {1, 2} /\ piece[p][1] = h[p] /\ piece[p][2] = e
      /\ \A i \in 1..n : i # p => DOMAIN piece[i] = {1} /\ piece[i][1] = h[i]
    BY <1>5
<1>10. \A i \in 1..n : h[i].op = f[i].op /\ h[i].args = f[i].args /\ (i # p => h[i].more = f[i].more)
    BY <1>1
<1>11. Extended(f, piece)
    <2> SUFFICES ASSUME NEW i \in 1..n
                 PROVE  /\ 1 \in DOMAIN piece[i] /\ piece[i][1].op = f[i].op
                        /\ 2 \notin DOMAIN piece[i] => piece[i][1].more = f[i].more
                        /\ 2 \in DOMAIN piece[i] => i = Len(f) \/ f[i].op # "blank"
                        /\ \A k \in DOMAIN piece[i] :
                             /\ k # 1 => piece[i][k].op \in {"ENV", "var", "LABEL"}
                             /\ piece[i][k].more => piece[i][k].op \in Continuable
                             /\ k # 1 /\ k + 1 \notin DOMAIN piece[i] => ~piece[i][k].more
        BY <1>4 DEF Extended
    <2>1. CASE i = p
        BY <1>9, <1>10, <2>1
    <2>2. CASE i # p
        BY <1>1, <1>9, <1>10, <2>2
    <2> QED
        BY <2>1, <2>2
<1>12. Alike(f, piece)
    <2>1. ASSUME NEW i \in 1..n PROVE piece[i][1].op = f[i].op /\ piece[i][1].args = f[i].args
        <3>1. CASE i = p
            BY <1>9, <1>10, <3>1
        <3>2. CASE i # p
            BY <1>9, <1>10, <3>2
        <3> QED
            BY <3>1, <3>2
    <2>2. ASSUME NEW i \in 1..n PROVE SameUse(f[i], piece[i][1])
        BY <2>1, SameUseReflexive
    <2> QED
        BY <1>4, <2>1, <2>2 DEF Alike
<1>13. ASSUME ~f[p].more, IF h[p].more THEN e.op = "var" /\ f[p].op # "HEALTHCHECK" ELSE e.op # "var"
       PROVE  GoesOn(f, piece)
    <2> SUFFICES ASSUME NEW i \in 1..n
                 PROVE  /\ 2 \in DOMAIN piece[i] => ~f[i].more
                        /\ \A k \in DOMAIN piece[i] : k + 1 \in DOMAIN piece[i] =>
                             IF piece[i][k].more THEN piece[i][k].op # "HEALTHCHECK" /\ piece[i][k + 1].op = "var"
                             ELSE piece[i][k + 1].op # "var"
        BY <1>4 DEF GoesOn
    <2>1. CASE i = p
        <3>1. ASSUME NEW k \in DOMAIN piece[i], k + 1 \in DOMAIN piece[i]
              PROVE  k = 1 /\ piece[i][k] = h[p] /\ piece[i][k + 1] = e
            BY <1>9, <2>1, <3>1
        <3> QED
            BY <1>1, <1>10, <1>13, <2>1, <3>1
    <2>2. CASE i # p
        BY <1>9, <2>2
    <2> QED
        BY <2>1, <2>2
<1>14. NamesFrom(f, piece)
    <2> SUFFICES ASSUME NEW i \in 1..n, NEW k \in DOMAIN piece[i], piece[i][k].op \in {"ENTRYPOINT", "CMD"}
                 PROVE  piece[i][k].op = f[i].op /\ piece[i][k].args = f[i].args
        BY <1>4 DEF NamesFrom
    <2>1. CASE i = p
        BY <1>9, <1>10, <2>1
    <2>2. CASE i # p
        BY <1>9, <1>10, <2>2
    <2> QED
        BY <2>1, <2>2
<1>15. Keeps(f, g) /\ (GoesOn(f, piece) /\ Parses(f) => Parses(g))
    BY <1>4, <1>6, <1>8, <1>11, <1>12, ExtendedKeeps DEF n
<1>16. ASSUME NEW facts PROVE NamesKept(f, g, facts)
    BY <1>4, <1>6, <1>8, <1>14, NamesTransported DEF NamesKept, n
<1> QED
    BY <1>13, <1>15, <1>16 DEF g

\* Nothing is open at the end.
LEMMA LastLineEnds ==
    ASSUME NEW f, Formed(f)
    PROVE  ~f[Len(f)].more
<1>1. Len(f) \in Nat \ {0} /\ DOMAIN f = 1..Len(f) /\ Len(f) \in DOMAIN f
    BY FormedLines
<1>2. Len(f) + 1 \in (Len(f) + 1)..(Len(f) + 1) /\ ~ \E k \in (Len(f) + 1)..((Len(f) + 1) - 1) : TRUE
    BY <1>1
<1>3. f[Len(f)].more => Dangles(f, Len(f))
    BY <1>2 DEF Dangles, Ends
<1> QED
    BY <1>1, <1>3 DEF Formed

\* Append is an insertion after the last line.
LEMMA AppendInserts ==
    ASSUME NEW S, NEW f \in Seq(S), NEW e \in S
    PROVE  Append(f, e) = InsertAt(f, Len(f) + 1, e)
<1> DEFINE g == InsertAt(f, Len(f) + 1, e)
           h == Append(f, e)
<1>1. Len(f) \in Nat /\ Len(f) + 1 \in 1..(Len(f) + 1)
    OBVIOUS
<1>2. /\ g \in Seq(S) /\ Len(g) = Len(f) + 1
      /\ \A w \in 1..(Len(f) + 1) : g[w] = IF w < Len(f) + 1 THEN f[w] ELSE IF w = Len(f) + 1 THEN e ELSE f[w - 1]
    <2>1. ASSUME NEW p \in 1..(Len(f) + 1)
          PROVE  /\ InsertAt(f, p, e) \in Seq(S) /\ Len(InsertAt(f, p, e)) = Len(f) + 1
                 /\ \A w \in 1..(Len(f) + 1) :
                      InsertAt(f, p, e)[w] = IF w < p THEN f[w] ELSE IF w = p THEN e ELSE f[w - 1]
        BY OneMoreLine
    <2> QED
        BY <1>1, <2>1
<1>3. /\ h \in Seq(S) /\ Len(h) = Len(f) + 1
      /\ \A i \in 1..Len(f) : h[i] = f[i]
      /\ h[Len(f) + 1] = e
    BY AppendProperties
<1> HIDE DEF g, h
<1>4. ASSUME NEW w \in 1..Len(g) PROVE g[w] = h[w]
    <2>1. w \in 1..(Len(f) + 1)
        BY <1>2
    <2>2. CASE w = Len(f) + 1
        BY <1>1, <1>2, <1>3, <2>2
    <2>3. CASE w # Len(f) + 1
        <3>1. w \in 1..Len(f) /\ w < Len(f) + 1
            BY <1>1, <2>1, <2>3
        <3> QED
            BY <1>2, <1>3, <2>1, <3>1
    <2> QED
        BY <2>2, <2>3
<1>5. g = h
    BY <1>2, <1>3, <1>4, SeqEqual
<1> QED
    BY <1>5 DEF g, h

\* An ENV or a LABEL at the end of the Dockerfile, as wire_observability.py puts it.
LEMMA AppendKeeps ==
    ASSUME NEW f, Formed(f), NEW e \in TextLines, e.op \in {"ENV", "LABEL"}, ~e.more
    PROVE  /\ Keeps(f, Append(f, e))
           /\ \A facts : NamesKept(f, Append(f, e), facts)
           /\ Parses(f) => Parses(Append(f, e))
<1>1. f \in Seq(TextLines) /\ Len(f) \in DOMAIN f /\ ~f[Len(f)].more
    BY FormedLines, LastLineEnds
<1>2. Append(f, e) = InsertAt(f, Len(f) + 1, e)
    BY <1>1, AppendInserts
<1>3. /\ Keeps(f, InsertAt(f, Len(f) + 1, e))
      /\ \A facts : NamesKept(f, InsertAt(f, Len(f) + 1, e), facts)
      /\ /\ Parses(f) /\ ~f[Len(f)].more
         /\ IF f[Len(f)].more THEN e.op = "var" /\ f[Len(f)].op # "HEALTHCHECK" ELSE e.op # "var"
         => Parses(InsertAt(f, Len(f) + 1, e))
    BY <1>1, InsertedKeeps
<1> QED
    BY <1>1, <1>2, <1>3

\* The shim's variables that follow line i end at x, and more follow them.
BlocksClosed(f) == \A i \in ShimEnvBlocks(f) : ~f[BlockEnd(f, i)].more
\* Line i begins a block of the shim's variables that goes on to line x, which a
\* backslash ends, although the next line is not one of the shim's variables.
OpenAt(f, i, x) ==
    /\ f[i].op = "ENV" /\ \A v \in DOMAIN f : f[v].op = "FROM" => v < i
    /\ i <= x /\ \A j \in DOMAIN f : i < j /\ j <= x => IsShimVariable(f[j])
    /\ f[x].more
    /\ x + 1 \in DOMAIN f => ~IsShimVariable(f[x + 1])
    /\ f[i].args[1][1] \in ShimVariables \/ i < x

\* The lines of the final stage.
LEMMA InFinal ==
    ASSUME NEW f, Formed(f), NEW op, NEW i
    PROVE  i \in InFinalStage(f, op) <=>
             i \in DOMAIN f /\ f[i].op = op /\ \A v \in DOMAIN f : f[v].op = "FROM" => v < i
<1> DEFINE T == LinesOf(f, "FROM")
<1>1. DOMAIN f = 1..Len(f) /\ Len(f) \in Nat
    BY FormedLines
<1>2. T \in SUBSET (1..Len(f)) /\ T # {}
    BY <1>1, FormedFrom DEF LinesOf
<1>3. Max(T) \in T /\ \A x \in T : x <= Max(T)
    BY <1>1, <1>2, MaxLine
<1>4. LastLine(f, "FROM") = Max(T)
    BY <1>2 DEF LastLine
<1>5. i \in InFinalStage(f, op) <=> i \in DOMAIN f /\ f[i].op = op /\ Max(T) < i
    <2>1. Max(T) \in Nat
        BY <1>1, <1>2, <1>3
    <2> HIDE DEF T
    <2> QED
        BY <1>1, <1>4, <2>1 DEF InFinalStage, LinesOf
<1>6. \A v \in T : v \in 1..Len(f)
    BY <1>2
<1>7. ASSUME i \in DOMAIN f PROVE Max(T) < i <=> \A v \in T : v < i
    <2> DEFINE m == Max(T)
    <2>1. m \in T /\ (\A x \in T : x <= m) /\ m \in Nat
        BY <1>1, <1>3, <1>6
    <2> HIDE DEF m, T
    <2>2. i \in Nat /\ \A v \in T : v \in Nat
        BY <1>1, <1>6, <1>7
    <2>3. m < i <=> \A v \in T : v < i
        BY <2>1, <2>2
    <2> QED
        BY <2>3 DEF m
<1>8. \A v : v \in T <=> v \in DOMAIN f /\ f[v].op = "FROM"
    BY DEF LinesOf
<1> HIDE DEF T
<1> QED
    BY <1>5, <1>7, <1>8

\* A block ends before the first line that is not one of the shim's variables.
LEMMA BlockEnds ==
    ASSUME NEW f, Formed(f), NEW i \in DOMAIN f
    PROVE  /\ BlockEnd(f, i) \in DOMAIN f /\ i <= BlockEnd(f, i)
           /\ \A j \in DOMAIN f : i < j /\ j <= BlockEnd(f, i) => IsShimVariable(f[j])
           /\ BlockEnd(f, i) + 1 \in DOMAIN f => ~IsShimVariable(f[BlockEnd(f, i) + 1])
<1> DEFINE n == Len(f)
           T == {e \in i..n : \A j \in (i + 1)..e : IsShimVariable(f[j])}
           end == Max(T)
<1>1. DOMAIN f = 1..n /\ n \in Nat
    BY FormedLines
<1>2. T \in SUBSET (1..n) /\ i \in T
    BY <1>1
<1>3. end \in T /\ \A x \in T : x <= end
    <2> HIDE DEF T
    <2> QED
        BY <1>1, <1>2, MaxLine
<1>4. BlockEnd(f, i) = end
    BY DEF BlockEnd
<1>5. end \in i..n /\ \A j \in (i + 1)..end : IsShimVariable(f[j])
    BY <1>3
<1> HIDE DEF end
<1>6. end + 1 \in 1..n => ~IsShimVariable(f[end + 1])
    <2> SUFFICES ASSUME end + 1 \in 1..n, IsShimVariable(f[end + 1]) PROVE FALSE
        OBVIOUS
    <2>1. \A j \in (i + 1)..(end + 1) : j \in (i + 1)..end \/ j = end + 1
        BY <1>1, <1>5
    <2>2. end + 1 \in T
        BY <1>1, <1>5, <2>1
    <2> HIDE DEF T
    <2> QED
        BY <1>1, <1>3, <1>5, <2>2
<1> HIDE DEF n, T
<1> QED
    BY <1>1, <1>4, <1>5, <1>6

\* No block is left open exactly when none of its lines is.
LEMMA ClosedLocally ==
    ASSUME NEW f, Formed(f)
    PROVE  BlocksClosed(f) <=> \A i, x \in DOMAIN f : ~OpenAt(f, i, x)
<1>1. DOMAIN f = 1..Len(f) /\ Len(f) \in Nat
    BY FormedLines
<1>2. ASSUME BlocksClosed(f), NEW i \in DOMAIN f, NEW x \in DOMAIN f, OpenAt(f, i, x) PROVE FALSE
    <2> DEFINE end == BlockEnd(f, i)
    <2>1. /\ end \in DOMAIN f /\ i <= end
          /\ \A j \in DOMAIN f : i < j /\ j <= end => IsShimVariable(f[j])
          /\ end + 1 \in DOMAIN f => ~IsShimVariable(f[end + 1])
        BY BlockEnds
    <2>2. /\ i <= x /\ f[x].more
          /\ \A j \in DOMAIN f : i < j /\ j <= x => IsShimVariable(f[j])
          /\ x + 1 \in DOMAIN f => ~IsShimVariable(f[x + 1])
        BY <1>2 DEF OpenAt
    <2>3. i \in InFinalStage(f, "ENV") /\ (f[i].args[1][1] \in ShimVariables \/ i < x)
        BY <1>2, InFinal DEF OpenAt
    <2> HIDE DEF end
    <2>4. ~(end < x)
        <3> SUFFICES ASSUME end < x PROVE FALSE
            OBVIOUS
        <3>1. end + 1 \in DOMAIN f /\ i < end + 1 /\ end + 1 <= x
            BY <1>1, <2>1
        <3> QED
            BY <2>1, <2>2, <3>1
    <2>5. ~(x < end)
        <3> SUFFICES ASSUME x < end PROVE FALSE
            OBVIOUS
        <3>1. x + 1 \in DOMAIN f /\ i < x + 1 /\ x + 1 <= end
            BY <1>1, <2>1, <2>2
        <3> QED
            BY <2>1, <2>2, <3>1
    <2>6. x = end
        BY <1>1, <2>1, <2>4, <2>5
    <2>7. end \in Nat /\ i \in Nat /\ (i < end => end > i)
        BY <1>1, <2>1
    <2>8. i \in ShimEnvBlocks(f)
        BY <2>3, <2>6, <2>7 DEF ShimEnvBlocks, end
    <2> QED
        BY <1>2, <2>2, <2>6, <2>8 DEF BlocksClosed, end
<1>3. ASSUME \A i, x \in DOMAIN f : ~OpenAt(f, i, x), NEW i \in ShimEnvBlocks(f), f[BlockEnd(f, i)].more
      PROVE  FALSE
    <2>1. i \in InFinalStage(f, "ENV") /\ (f[i].args[1][1] \in ShimVariables \/ BlockEnd(f, i) > i)
        BY DEF ShimEnvBlocks
    <2>2. i \in DOMAIN f /\ f[i].op = "ENV" /\ \A v \in DOMAIN f : f[v].op = "FROM" => v < i
        BY <2>1, InFinal
    <2> DEFINE end == BlockEnd(f, i)
    <2>3. /\ end \in DOMAIN f /\ i <= end
          /\ \A j \in DOMAIN f : i < j /\ j <= end => IsShimVariable(f[j])
          /\ end + 1 \in DOMAIN f => ~IsShimVariable(f[end + 1])
        BY <2>2, BlockEnds
    <2>4. f[end].more /\ (f[i].args[1][1] \in ShimVariables \/ end > i)
        BY <1>3, <2>1
    <2> HIDE DEF end
    <2>5. end > i => i < end
        BY <1>1, <2>2, <2>3
    <2>6. OpenAt(f, i, end)
        BY <2>2, <2>3, <2>4, <2>5 DEF OpenAt
    <2> QED
        BY <1>3, <2>2, <2>3, <2>6
<1> QED
    BY <1>2, <1>3 DEF BlocksClosed

\* f with e after its line p.
After(f, p, e) == InsertAt(f, p + 1, e)

\* The lines of a Dockerfile with one line more.
LEMMA LineAfter ==
    ASSUME NEW f \in Seq(TextLines), NEW e \in TextLines, NEW p \in 1..Len(f)
    PROVE  /\ After(f, p, e) \in Seq(TextLines)
           /\ Len(After(f, p, e)) = Len(f) + 1
           /\ After(f, p, e)[p + 1] = e
           /\ \A w \in 1..Len(f) : (w <= p => After(f, p, e)[w] = f[w]) /\ (p < w => After(f, p, e)[w + 1] = f[w])
<1>1. p + 1 \in 1..(Len(f) + 1) /\ p \in Nat /\ Len(f) \in Nat
    OBVIOUS
<1>0. PICK q \in 1..(Len(f) + 1) : q = p + 1
    BY <1>1
<1> DEFINE g == InsertAt(f, q, e)
<1>2. /\ g \in Seq(TextLines) /\ Len(g) = Len(f) + 1
      /\ \A w \in 1..(Len(f) + 1) : g[w] = IF w < q THEN f[w] ELSE IF w = q THEN e ELSE f[w - 1]
    BY OneMoreLine
<1> HIDE DEF g
<1>3. g[q] = e
    BY <1>0, <1>1, <1>2
<1>4. ASSUME NEW w \in 1..Len(f), w <= p PROVE g[w] = f[w]
    BY <1>0, <1>1, <1>2, <1>4
<1>5. ASSUME NEW w \in 1..Len(f), p < w PROVE g[w + 1] = f[w]
    <2>1. w + 1 \in 1..(Len(f) + 1) /\ ~(w + 1 < q) /\ w + 1 # q /\ (w + 1) - 1 = w
        BY <1>0, <1>1, <1>5
    <2> QED
        BY <1>2, <2>1
<1> QED
    BY <1>0, <1>2, <1>3, <1>4, <1>5 DEF g, After

\* A line added after line p, where no variable of the shim follows, opens none.
LEMMA InsertedStaysClosed ==
    ASSUME NEW f, Formed(f), NEW p \in DOMAIN f, p + 1 \in DOMAIN f => ~IsShimVariable(f[p + 1]),
           NEW g, Formed(g), Len(g) = Len(f) + 1,
           \A w \in DOMAIN f : w <= p => g[w].op = f[w].op /\ g[w].args = f[w].args /\ (w # p => g[w].more = f[w].more),
           \A w \in DOMAIN f : p < w => g[w + 1] = f[w],
           NEW e, g[p + 1] = e, e.op # "FROM", ~e.more, IsShimVariable(e) \/ g[p].more = f[p].more,
           BlocksClosed(f)
    PROVE  BlocksClosed(g)
<1> DEFINE n == Len(f)
           h == [w \in 1..n |-> IF w <= p THEN g[w] ELSE g[w + 1]]
<1>1. DOMAIN f = 1..n /\ n \in Nat \ {0} /\ p \in 1..n
    BY FormedLines
<1>3. DOMAIN g = 1..(n + 1) /\ g[p + 1] = e
    <2>1. DOMAIN g = 1..Len(g)
        BY FormedLines
    <2> QED
        BY <2>1
<1> HIDE DEF n
<1>4. \A w \in 1..n : /\ w <= p => g[w] = h[w]
                      /\ p < w => g[w + 1] = h[w]
    BY <1>1
<1>5. \A w \in 1..n : /\ h[w].op = f[w].op /\ h[w].args = f[w].args
                      /\ w # p => h[w].more = f[w].more
                      /\ IsShimVariable(h[w]) <=> IsShimVariable(f[w])
    <2>1. \A w \in 1..n : /\ h[w].op = f[w].op /\ h[w].args = f[w].args
                          /\ w # p => h[w].more = f[w].more
        <3> SUFFICES ASSUME NEW w \in 1..n
                     PROVE  h[w].op = f[w].op /\ h[w].args = f[w].args /\ (w # p => h[w].more = f[w].more)
            OBVIOUS
        <3>1. CASE w <= p
            BY <1>1, <1>4, <3>1
        <3>2. CASE p < w
            BY <1>1, <1>4, <3>2
        <3> HIDE DEF h
        <3> QED
            BY <1>1, <3>1, <3>2
    <2> QED
        BY <2>1 DEF IsShimVariable
<1>2. p \in 1..n /\ p <= p /\ h[p] = g[p]
    BY <1>1, <1>4
<1> HIDE DEF h
<1>6. \A i, x \in DOMAIN f : ~OpenAt(f, i, x)
    BY ClosedLocally
<1>7. ASSUME NEW a \in DOMAIN g, NEW y \in DOMAIN g, OpenAt(g, a, y) PROVE FALSE
    <2>1. /\ g[a].op = "ENV" /\ \A v \in DOMAIN g : g[v].op = "FROM" => v < a
          /\ a <= y /\ \A j \in DOMAIN g : a < j /\ j <= y => IsShimVariable(g[j])
          /\ g[y].more
          /\ y + 1 \in DOMAIN g => ~IsShimVariable(g[y + 1])
          /\ g[a].args[1][1] \in ShimVariables \/ a < y
        BY <1>7 DEF OpenAt
    <2>2. y # p + 1
        BY <1>3, <2>1
    <2>3. CASE y < p + 1
        <3>1. a \in 1..n /\ y \in 1..n /\ a <= p /\ y <= p
            BY <1>1, <1>3, <2>1, <2>3
        <3>2. g[a] = h[a] /\ g[y] = h[y]
            BY <1>4, <3>1
        <3>3. f[a].op = "ENV" /\ f[a].args = g[a].args
            BY <1>5, <2>1, <3>1, <3>2
        <3>4. \A v \in DOMAIN f : f[v].op = "FROM" => v < a
            <4> SUFFICES ASSUME NEW v \in 1..n, f[v].op = "FROM" PROVE v < a
                BY <1>1
            <4>1. CASE v <= p
                <5>1. v \in DOMAIN g
                    BY <1>1, <1>3
                <5>2. g[v].op = "FROM"
                    BY <1>4, <1>5, <4>1
                <5> QED
                    BY <2>1, <5>1, <5>2
            <4>2. CASE p < v
                <5>1. g[v + 1].op = "FROM" /\ v + 1 \in DOMAIN g
                    BY <1>1, <1>3, <1>4, <1>5, <4>2
                <5>2. v + 1 < a
                    BY <2>1, <5>1
                <5> QED
                    BY <1>1, <3>1, <5>2
            <4> QED
                BY <1>1, <4>1, <4>2
        <3>5. \A j \in DOMAIN f : a < j /\ j <= y => IsShimVariable(f[j])
            <4> SUFFICES ASSUME NEW j \in 1..n, a < j, j <= y PROVE IsShimVariable(f[j])
                BY <1>1
            <4>1. j <= p /\ j \in DOMAIN g
                BY <1>1, <1>3, <3>1
            <4> QED
                BY <1>4, <1>5, <2>1, <4>1
        <3>6. y = p => ~IsShimVariable(e)
            BY <1>3, <2>1, <1>1
        <3>7. f[y].more
            BY <1>1, <1>5, <2>1, <3>1, <3>2, <3>6
        <3>8. y + 1 \in DOMAIN f => ~IsShimVariable(f[y + 1])
            <4>1. CASE y = p
                BY <4>1
            <4>2. CASE y # p
                <5>1. y + 1 \in 1..n /\ y + 1 <= p /\ y + 1 \in DOMAIN g
                    BY <1>1, <1>3, <3>1, <4>2
                <5> QED
                    BY <1>4, <1>5, <2>1, <5>1
            <4> QED
                BY <4>1, <4>2
        <3>9. OpenAt(f, a, y)
            BY <2>1, <3>3, <3>4, <3>5, <3>7, <3>8 DEF OpenAt
        <3> QED
            BY <1>1, <1>6, <3>1, <3>9
    <2>4. CASE p + 1 < y
        <3>1. y - 1 \in 1..n /\ p < y - 1 /\ (y - 1) + 1 = y
            BY <1>1, <1>3, <2>4
        <3>2. PICK x \in 1..n : p < x /\ x + 1 = y
            BY <3>1
        <3>3. ~(a <= p + 1)
            <4> SUFFICES ASSUME a <= p + 1 PROVE FALSE
                OBVIOUS
            <4>1. p + 2 \in DOMAIN g /\ a < p + 2 /\ p + 2 <= y /\ p + 1 \in 1..n /\ p < p + 1 /\ (p + 1) + 1 = p + 2
                BY <1>1, <1>3, <3>2
            <4>2. IsShimVariable(g[p + 2])
                BY <2>1, <4>1
            <4>3. g[p + 2] = h[p + 1]
                BY <1>4, <4>1
            <4> QED
                BY <1>1, <1>5, <4>1, <4>2, <4>3
        <3>4. a - 1 \in 1..n /\ p < a - 1 /\ (a - 1) + 1 = a
            BY <1>1, <1>3, <3>3
        <3>5. PICK i \in 1..n : p < i /\ i + 1 = a
            BY <3>4
        <3>6. g[a] = h[i] /\ g[y] = h[x]
            BY <1>4, <3>2, <3>5
        <3>7. f[i].op = "ENV" /\ f[i].args = g[a].args
            BY <1>5, <2>1, <3>6
        <3>8. \A v \in DOMAIN f : f[v].op = "FROM" => v < i
            <4> SUFFICES ASSUME NEW v \in 1..n, f[v].op = "FROM" PROVE v < i
                BY <1>1
            <4>1. CASE v <= p
                BY <1>1, <3>5, <4>1
            <4>2. CASE p < v
                <5>1. g[v + 1].op = "FROM" /\ v + 1 \in DOMAIN g
                    BY <1>1, <1>3, <1>4, <1>5, <4>2
                <5>2. v + 1 < a
                    BY <2>1, <5>1
                <5> QED
                    BY <1>1, <3>5, <5>2
            <4> QED
                BY <1>1, <4>1, <4>2
        <3>9. \A j \in DOMAIN f : i < j /\ j <= x => IsShimVariable(f[j])
            <4> SUFFICES ASSUME NEW j \in 1..n, i < j, j <= x PROVE IsShimVariable(f[j])
                BY <1>1
            <4>1. p < j /\ j + 1 \in DOMAIN g /\ a < j + 1 /\ j + 1 <= y
                BY <1>1, <1>3, <3>2, <3>5
            <4>2. IsShimVariable(g[j + 1])
                BY <2>1, <4>1
            <4> QED
                BY <1>4, <1>5, <4>1, <4>2
        <3>10. f[x].more
            <4>1. x # p
                BY <1>1, <3>2
            <4> QED
                BY <1>5, <2>1, <3>2, <3>6, <4>1
        <3>11. x + 1 \in DOMAIN f => ~IsShimVariable(f[x + 1])
            <4> SUFFICES ASSUME x + 1 \in 1..n PROVE ~IsShimVariable(f[x + 1])
                BY <1>1
            <4>3. x + 1 = y /\ x \in 1..n /\ p < x /\ x + 1 \in 1..n
                BY <3>2
            <4>4. p < x + 1 /\ (x + 1) + 1 \in 1..(n + 1)
                BY <1>1, <4>3
            <4>1. p < x + 1 /\ (x + 1) + 1 = y + 1 /\ (x + 1) + 1 \in 1..(n + 1)
                BY <4>3, <4>4
            <4>2. g[y + 1] = h[x + 1]
                BY <1>4, <4>1
            <4> QED
                BY <1>3, <1>5, <2>1, <4>1, <4>2
        <3>12. i <= x /\ (a < y => i < x)
            BY <1>1, <2>1, <3>2, <3>5
        <3>13. OpenAt(f, i, x)
            BY <2>1, <3>7, <3>8, <3>9, <3>10, <3>11, <3>12 DEF OpenAt
        <3> QED
            BY <1>1, <1>6, <3>13
    <2>5. y \in Nat
        BY <1>3
    <2> QED
        BY <1>1, <2>2, <2>3, <2>4, <2>5
<1> QED
    BY <1>7, ClosedLocally

\* What adding a variable of the shim keeps.
Grows(f, g) ==
    /\ Keeps(f, g) /\ (\A facts : NamesKept(f, g, facts)) /\ SameLines(f, g)
    /\ Parses(f) /\ BlocksClosed(f) => Parses(g) /\ BlocksClosed(g)

\* Growing may add nothing.
LEMMA GrowsReflexive ==
    ASSUME NEW f, Formed(f)
    PROVE  Grows(f, f)
BY SameLinesReflexive DEF Grows, Keeps, NamesKept

\* Growing twice is growing.
LEMMA GrowsTransitive ==
    ASSUME NEW f, NEW g, NEW h, Grows(f, g), Grows(g, h)
    PROVE  Grows(f, h)
<1>1. Keeps(f, h)
    BY DEF Grows, Keeps
<1>2. ASSUME NEW facts PROVE NamesKept(f, h, facts)
    <2>1. NamesKept(f, g, facts) /\ NamesKept(g, h, facts)
        BY DEF Grows
    <2> QED
        BY <2>1 DEF NamesKept
<1>3. SameLines(f, h)
    BY SameLinesTransitive DEF Grows
<1> QED
    BY <1>1, <1>2, <1>3 DEF Grows

\* f, but for the backslash of line p, and a line that fits after it.
Ajar(f, p, h) ==
    /\ h \in Seq(TextLines) /\ Len(h) = Len(f)
    /\ \A i \in DOMAIN f : h[i].op = f[i].op /\ h[i].args = f[i].args /\ (i # p => h[i].more = f[i].more)
    /\ h[p].more => h[p].op \in Continuable
    /\ f[p].op = "HEALTHCHECK" => h[p].more = f[p].more
\* The new line e fits after line p, whose backslash h may have turned.
Fits(f, p, h, e) ==
    /\ e \in TextLines /\ e.op \in {"ENV", "var", "LABEL"} /\ ~e.more
    /\ IsShimVariable(e) \/ h[p].more = f[p].more
    /\ Parses(f) /\ BlocksClosed(f) =>
          /\ ~f[p].more /\ (p + 1 \in DOMAIN f => ~IsShimVariable(f[p + 1]))
          /\ IF h[p].more THEN e.op = "var" /\ f[p].op # "HEALTHCHECK" ELSE e.op # "var"

\* A line that fits lets a Dockerfile grow.
LEMMA InsertedGrows ==
    ASSUME NEW f, Formed(f), NEW p \in DOMAIN f, p = Len(f) \/ f[p].op # "blank",
           NEW h, Ajar(f, p, h), NEW e, Fits(f, p, h, e)
    PROVE  Grows(f, After(h, p, e))
<1> DEFINE g == After(h, p, e)
<1>1. /\ h \in Seq(TextLines) /\ Len(h) = Len(f)
      /\ e \in TextLines /\ e.op \in {"ENV", "var", "LABEL"} /\ ~e.more
    BY DEF Ajar, Fits
<1>2. p \in 1..Len(h) /\ DOMAIN f = 1..Len(f) /\ DOMAIN f = 1..Len(h)
    BY <1>1, FormedLines
<1>3. /\ Len(g) = Len(h) + 1 /\ g[p + 1] = e
      /\ \A w \in 1..Len(h) : (w <= p => g[w] = h[w]) /\ (p < w => g[w + 1] = h[w])
    <2>1. h \in Seq(TextLines) /\ e \in TextLines
        BY <1>1
    <2>2. p \in 1..Len(h)
        BY <1>2
    <2> QED
        BY <2>1, <2>2, LineAfter
<1>4. /\ Keeps(f, g) /\ \A facts : NamesKept(f, g, facts)
      /\ /\ Parses(f) /\ ~f[p].more
         /\ IF h[p].more THEN e.op = "var" /\ f[p].op # "HEALTHCHECK" ELSE e.op # "var"
         => Parses(g)
    BY <1>1, InsertedKeeps DEF Ajar, After
<1>5. Formed(g)
    BY <1>4 DEF Keeps
<1> HIDE DEF g
<1>6. \A w \in DOMAIN f : h[w].op = f[w].op /\ h[w].args = f[w].args /\ (w # p => h[w].more = f[w].more)
    BY DEF Ajar
<1>7. \A w \in DOMAIN f : w <= p => g[w].op = f[w].op /\ g[w].args = f[w].args /\ (w # p => g[w].more = f[w].more)
    BY <1>2, <1>3, <1>6
<1>8. \A w \in DOMAIN f : p < w => g[w + 1] = f[w]
    <2> SUFFICES ASSUME NEW w \in 1..Len(h), p < w PROVE h[w] = f[w]
        BY <1>2, <1>3
    <2>1. h[w] \in TextLines /\ f[w] \in TextLines
        BY <1>1, <1>2, FormedLines
    <2>2. w # p
        BY <1>2
    <2>3. h[w].op = f[w].op /\ h[w].args = f[w].args /\ h[w].more = f[w].more
        BY <1>2, <1>6, <2>2
    <2>4. \A line \in TextLines : line = [op |-> line.op, args |-> line.args, more |-> line.more]
        BY DEF TextLines
    <2> QED
        BY <2>1, <2>3, <2>4
<1>9. g[p].more = h[p].more /\ Len(g) = Len(f) + 1
    BY <1>1, <1>2, <1>3
<1>10. e.op # "FROM" /\ ~e.more /\ (IsShimVariable(e) \/ g[p].more = f[p].more)
    BY <1>1, <1>9 DEF Fits
<1>11. ASSUME Parses(f), BlocksClosed(f) PROVE BlocksClosed(g) /\ Parses(g)
    <2>1. /\ ~f[p].more /\ (p + 1 \in DOMAIN f => ~IsShimVariable(f[p + 1]))
          /\ IF h[p].more THEN e.op = "var" /\ f[p].op # "HEALTHCHECK" ELSE e.op # "var"
        BY <1>11 DEF Fits
    <2>2. BlocksClosed(g)
        <3>1. /\ p + 1 \in DOMAIN f => ~IsShimVariable(f[p + 1])
              /\ Len(g) = Len(f) + 1 /\ g[p + 1] = e
            BY <1>3, <1>9, <2>1
        <3> QED
            BY <1>5, <1>7, <1>8, <1>10, <1>11, <3>1, InsertedStaysClosed
    <2> QED
        BY <1>4, <1>11, <2>1, <2>2
<1>12. SameLines(f, g)
    <2>1. p + 1 \in 1..(Len(f) + 1) /\ f \in Seq(TextLines) /\ g \in Seq(TextLines)
        BY <1>2, <1>5, FormedLines DEF Formed
    <2>2. g[p + 1].op \notin Kinds
        BY <1>1, <1>3 DEF Kinds
    <2>3. ASSUME NEW w \in DOMAIN f, w < p + 1 PROVE Matches(f[w], g[w])
        <3>1. w <= p
            BY <1>2, <2>3
        <3>2. g[w].op = f[w].op /\ g[w].args = f[w].args /\ (w # p => g[w].more = f[w].more)
            BY <1>7, <3>1
        <3>3. f[w].op = "HEALTHCHECK" => g[w].more = f[w].more
            BY <1>9, <3>2 DEF Ajar
        <3> QED
            BY <3>2, <3>3 DEF Matches
    <2>4. ASSUME NEW w \in DOMAIN f, p + 1 <= w PROVE Matches(f[w], g[w + 1])
        <3>1. p < w
            BY <1>2, <2>4
        <3>2. g[w + 1] = f[w]
            BY <1>8, <3>1
        <3> QED
            BY <3>2 DEF Matches
    <2> QED
        BY <1>9, <2>1, <2>2, <2>3, <2>4, InsertedSame
<1> QED
    BY <1>4, <1>11, <1>12 DEF Grows, g

\* An ENV or a LABEL at the end lets a Dockerfile grow.
LEMMA AppendGrows ==
    ASSUME NEW f, Formed(f), NEW e \in TextLines, e.op \in {"ENV", "LABEL"}, ~e.more
    PROVE  Grows(f, Append(f, e))
<1>1. /\ f \in Seq(TextLines) /\ Len(f) \in DOMAIN f /\ ~f[Len(f)].more
      /\ Len(f) + 1 \notin DOMAIN f
    BY FormedLines, LastLineEnds
<1>2. Append(f, e) = InsertAt(f, Len(f) + 1, e)
    BY <1>1, AppendInserts
<1>3. Ajar(f, Len(f), f) /\ Fits(f, Len(f), f, e)
    BY <1>1 DEF Ajar, Fits
<1>4. Grows(f, After(f, Len(f), e))
    BY <1>1, <1>3, InsertedGrows
<1> QED
    BY <1>2, <1>4 DEF After

\* The lines wire_observability.py adds for its variables.
LEMMA ShimVariableTyped ==
    ASSUME NEW name \in ShimVariables, NEW op \in {"ENV", "var"}
    PROVE  /\ Is(op, Exec(<<name>>)) \in TextLines
           /\ Is(op, Exec(<<name>>)).op = op /\ ~Is(op, Exec(<<name>>)).more
           /\ Is("var", Exec(<<name>>)) \in TextLines /\ IsShimVariable(Is("var", Exec(<<name>>)))
<1>1. Exec(<<name>>) = <<Arg(name)>>
    BY ExecSingle
<1>2. name \in ScriptWords
    BY DEF ScriptWords
<1>3. Arg(name) \in Seq(Vocabulary)
    BY <1>2, ScriptWordsTyped
<1>4. <<Arg(name)>> \in Seq(Seq(Vocabulary)) /\ <<Arg(name)>>[1] = Arg(name)
    BY <1>3
<1>5. Arg(name)[1] = name
    BY DEF Arg
<1>6. op \in Ops /\ "var" \in Ops
    BY DEF Ops
<1> QED
    BY <1>1, <1>4, <1>5, <1>6 DEF Is, LineOf, TextLines, IsShimVariable

\* wire_observability.py adds a variable by growing the Dockerfile, wherever it puts it.
LEMMA AddVarGrows ==
    ASSUME NEW f, Formed(f), NEW name \in ShimVariables
    PROVE  Grows(f, AddVarToEnvBlock(f, name))
<1>1. /\ f \in Seq(TextLines) /\ Len(f) \in Nat \ {0} /\ DOMAIN f = 1..Len(f)
      /\ \A i \in DOMAIN f : /\ f[i] \in TextLines /\ f[i].op \in Ops /\ f[i].more \in BOOLEAN
                             /\ f[i].args \in Seq(Seq(Vocabulary))
                             /\ f[i].more => f[i].op \in Continuable
    BY FormedLines
<1>2. CASE ShimEnvBlocks(f) # {}
    <2> DEFINE b == Max(ShimEnvBlocks(f))
               end == BlockEnd(f, b)
               h == [f EXCEPT ![end].more = ~@]
               e == Is("var", Exec(<<name>>))
    <2>1. b \in ShimEnvBlocks(f)
        <3>1. ShimEnvBlocks(f) \in SUBSET (1..Len(f))
            BY <1>1 DEF ShimEnvBlocks, InFinalStage, LinesOf
        <3> QED
            BY <1>1, <1>2, <3>1, MaxLine
    <2> HIDE DEF b
    <2>2. b \in DOMAIN f /\ f[b].op = "ENV"
        BY <2>1 DEF ShimEnvBlocks, InFinalStage, LinesOf
    <2>3. /\ end \in DOMAIN f /\ b <= end
          /\ \A j \in DOMAIN f : b < j /\ j <= end => IsShimVariable(f[j])
          /\ end + 1 \in DOMAIN f => ~IsShimVariable(f[end + 1])
        BY <2>2, BlockEnds
    <2>4. BlocksClosed(f) => ~f[end].more
        BY <2>1 DEF BlocksClosed
    <2> HIDE DEF end
    <2>5. f[end].op \in {"ENV", "var"}
        <3>1. CASE end = b
            BY <2>2, <3>1
        <3>2. CASE end # b
            <4>1. b < end /\ end <= end
                BY <1>1, <2>2, <2>3, <3>2
            <4> QED
                BY <2>3, <4>1 DEF IsShimVariable
        <3> QED
            BY <3>1, <3>2
    <2>6. /\ h \in Seq(TextLines) /\ Len(h) = Len(f)
          /\ h[end].op = f[end].op /\ h[end].args = f[end].args /\ h[end].more = ~f[end].more
          /\ \A i \in DOMAIN f : i # end => h[i] = f[i]
        <3>1. f[end] \in [op : Ops, args : Seq(Seq(Vocabulary)), more : BOOLEAN]
            BY <1>1, <2>3 DEF TextLines
        <3> DEFINE line == [f[end] EXCEPT !.more = ~@]
        <3>2. line \in TextLines /\ line.op = f[end].op /\ line.args = f[end].args /\ line.more = ~f[end].more
            BY <3>1 DEF TextLines
        <3>3. h = [f EXCEPT ![end] = line]
            OBVIOUS
        <3> HIDE DEF line, h
        <3> QED
            BY <1>1, <2>3, <3>2, <3>3
    <2>7. e \in TextLines /\ e.op = "var" /\ ~e.more /\ IsShimVariable(e)
        BY ShimVariableTyped
    <2> HIDE DEF h, e
    <2>8. \A i \in DOMAIN f : h[i].op = f[i].op /\ h[i].args = f[i].args /\ (i # end => h[i].more = f[i].more)
        BY <2>6
    <2>9. h[end].more => h[end].op \in Continuable
        BY <2>5, <2>6 DEF Continuable
    <2>10. f[end].op # "blank" /\ f[end].op # "HEALTHCHECK" /\ (~f[end].more => h[end].more)
        BY <2>5, <2>6
    <2>11. Ajar(f, end, h)
        BY <2>6, <2>8, <2>9, <2>10 DEF Ajar
    <2>12. Fits(f, end, h, e)
        BY <2>3, <2>4, <2>7, <2>10 DEF Fits
    <2>13. Grows(f, After(h, end, e))
        BY <2>3, <2>10, <2>11, <2>12, InsertedGrows
    <2> QED
        BY <1>2, <2>13 DEF AddVarToEnvBlock, After, h, e, end, b
<1>3. CASE ShimEnvBlocks(f) = {} /\ InFinalStage(f, "USER") # {}
    <2> DEFINE u == Min(InFinalStage(f, "USER"))
               e == Is("ENV", Exec(<<name>>))
    <2>1. u \in InFinalStage(f, "USER")
        <3>1. InFinalStage(f, "USER") \in SUBSET (1..Len(f))
            BY <1>1 DEF InFinalStage, LinesOf
        <3> QED
            BY <1>1, <1>3, <3>1, MinLine
    <2> HIDE DEF u
    <2>2. u \in DOMAIN f /\ f[u].op = "USER"
        BY <2>1 DEF InFinalStage, LinesOf
    <2>3. ~f[u].more
        BY <1>1, <2>2 DEF Continuable
    <2>4. e \in TextLines /\ e.op = "ENV" /\ ~e.more
        BY ShimVariableTyped
    <2> HIDE DEF e
    <2>5. ASSUME Parses(f), u + 1 \in DOMAIN f PROVE ~IsShimVariable(f[u + 1])
        <3>1. ~Inside(f, u + 1)
            <4> SUFFICES ASSUME Inside(f, u + 1) PROVE FALSE
                OBVIOUS
            <4>1. PICK q \in 1..((u + 1) - 1) : f[q].more /\ \A j \in (q + 1)..((u + 1) - 1) : f[j].op = "blank"
                BY DEF Inside
            <4>2. q \in Nat /\ q <= u /\ (u + 1) - 1 = u /\ u \in Nat
                BY <1>1, <2>2, <4>1
            <4>3. q # u
                BY <2>3, <4>1
            <4>4. u \in (q + 1)..((u + 1) - 1)
                BY <4>2, <4>3
            <4> QED
                BY <2>2, <4>1, <4>4
        <3> QED
            BY <2>5, <3>1 DEF Parses, IsShimVariable
    <2>6. Ajar(f, u, f) /\ Fits(f, u, f, e)
        BY <1>1, <2>2, <2>3, <2>4, <2>5 DEF Ajar, Fits
    <2>7. Grows(f, After(f, u, e))
        BY <2>2, <2>6, InsertedGrows
    <2> QED
        BY <1>3, <2>7 DEF AddVarToEnvBlock, After, u, e
<1>4. CASE ShimEnvBlocks(f) = {} /\ InFinalStage(f, "USER") = {}
    <2>1. Is("ENV", Exec(<<name>>)) \in TextLines /\ Is("ENV", Exec(<<name>>)).op = "ENV" /\ ~Is("ENV", Exec(<<name>>)).more
        BY ShimVariableTyped
    <2>2. Grows(f, Append(f, Is("ENV", Exec(<<name>>))))
        BY <2>1, AppendGrows
    <2> QED
        BY <1>4, <2>2 DEF AddVarToEnvBlock
<1> QED
    BY <1>2, <1>3, <1>4

\* So does all it adds.
LEMMA ObservedGrows ==
    ASSUME NEW f, Formed(f)
    PROVE  Grows(f, Observed(f))
<1>1. ASSUME NEW g, Formed(g), NEW name \in ShimVariables, NEW applies \in BOOLEAN
      PROVE  Grows(g, AddEnv(g, name, applies))
    <2>1. AddEnv(g, name, applies) \in {AddVarToEnvBlock(g, name), g}
        BY DEF AddEnv
    <2>2. Grows(g, g)
        BY <1>1, GrowsReflexive
    <2>3. Grows(g, AddVarToEnvBlock(g, name))
        BY <1>1, AddVarGrows
    <2> QED
        BY <2>1, <2>2, <2>3
<1>2. ASSUME NEW g, Formed(g) PROVE Grows(g, AddPrometheusLabels(g))
    <2> DEFINE e == Is("LABEL", Exec(<<"prometheus">>))
    <2>1. e \in TextLines /\ e.op = "LABEL" /\ ~e.more
        <3>1. Exec(<<"prometheus">>) = <<Arg("prometheus")>>
            BY ExecSingle
        <3>2. Arg("prometheus") \in Seq(Vocabulary)
            BY ScriptWordsTyped DEF ScriptWords
        <3>3. <<Arg("prometheus")>> \in Seq(Seq(Vocabulary))
            BY <3>2
        <3>4. "LABEL" \in Ops
            BY DEF Ops
        <3> QED
            BY <3>1, <3>3, <3>4 DEF Is, LineOf, TextLines
    <2> HIDE DEF e
    <2>2. Grows(g, Append(g, e))
        BY <1>2, <2>1, AppendGrows
    <2> QED
        BY <1>2, <2>2, GrowsReflexive DEF AddPrometheusLabels, e
<1> DEFINE db == "db" \in known.tables /\ Stages(f, "db-shim") # {}
           first == AddEnv(f, "SHIM_METRICS_ENABLED", TRUE)
           measured == AddPrometheusLabels(first)
           second == AddEnv(measured, "SHIM_ALERTING_ENABLED", db)
           third == AddEnv(second, "SHIM_SCHEDULER_ENABLED", db)
<1>3. Observed(f) = third
    BY DEF Observed
<1>4. {"SHIM_METRICS_ENABLED", "SHIM_ALERTING_ENABLED", "SHIM_SCHEDULER_ENABLED"} \subseteq ShimVariables
    BY DEF ShimVariables
<1>5. Grows(f, first)
    BY <1>1, <1>4
<1>6. Grows(first, measured)
    <2>1. Formed(first)
        BY <1>5 DEF Grows, Keeps
    <2> HIDE DEF first
    <2> QED
        BY <1>2, <2>1
<1>7. Grows(measured, second)
    <2>1. Formed(measured)
        BY <1>6 DEF Grows, Keeps
    <2> HIDE DEF measured
    <2> QED
        BY <1>1, <1>4, <2>1
<1>8. Grows(second, third)
    <2>1. Formed(second)
        BY <1>7 DEF Grows, Keeps
    <2> HIDE DEF second
    <2> QED
        BY <1>1, <1>4, <2>1
<1> HIDE DEF first, measured, second, third
<1> QED
    BY <1>3, <1>5, <1>6, <1>7, <1>8, GrowsTransitive

-----------------------------------------------------------------------------
(* The blocks of the scripts.                                              *)

\* Keeping is transitive.
LEMMA KeepsTransitive ==
    ASSUME NEW f, NEW g, NEW h, Keeps(f, g), Keeps(g, h),
           \A facts : NamesKept(f, g, facts), \A facts : NamesKept(g, h, facts)
    PROVE  Keeps(f, h) /\ \A facts : NamesKept(f, h, facts)
<1>1. Keeps(f, h)
    BY DEF Keeps
<1>2. ASSUME NEW facts PROVE NamesKept(f, h, facts)
    <2>1. NamesKept(f, g, facts) /\ NamesKept(g, h, facts)
        OBVIOUS
    <2> QED
        BY <2>1 DEF NamesKept
<1> QED
    BY <1>1, <1>2

\* Reworded lines that name no path of the shim anew.
LEMMA RewordedNames ==
    ASSUME NEW f, Formed(f), NEW g, Reworded(f, g), NEW facts,
           \A i \in DOMAIN f : f[i].op = "ENTRYPOINT" /\ RunsOld(g[i].args) => RunsOld(f[i].args),
           \A i \in DOMAIN f : f[i].op \in {"ENTRYPOINT", "CMD"} /\ Says(g[i].args, Canonical)
                               => Says(f[i].args, Canonical)
    PROVE  /\ RunsDeprecated(g) => RunsDeprecated(f)
           /\ NamesCanonical(g, facts) => NamesCanonical(f, facts)
<1>1. DOMAIN g = DOMAIN f /\ \A i \in DOMAIN f : g[i].op = f[i].op
    BY FormedLines DEF Reworded
<1>2. /\ LinesOf(g, "ENTRYPOINT") = LinesOf(f, "ENTRYPOINT")
      /\ LinesOf(g, "CMD") = LinesOf(f, "CMD")
    BY <1>1 DEF LinesOf
<1>3. \A i \in LinesOf(f, "ENTRYPOINT") \cup LinesOf(f, "CMD") : i \in DOMAIN f /\ f[i].op \in {"ENTRYPOINT", "CMD"}
    BY DEF LinesOf
<1>6. \A i \in LinesOf(f, "ENTRYPOINT") : i \in DOMAIN f /\ f[i].op = "ENTRYPOINT"
    BY DEF LinesOf
<1>4. RunsDeprecated(g) => RunsDeprecated(f)
    <2> SUFFICES ASSUME NEW i \in LinesOf(f, "ENTRYPOINT"), RunsOld(g[i].args) PROVE RunsOld(f[i].args)
        BY <1>2 DEF RunsDeprecated, RunsOld
    <2>1. i \in DOMAIN f /\ f[i].op = "ENTRYPOINT"
        BY <1>6
    <2> QED
        BY <2>1
<1>5. NamesCanonical(g, facts) => NamesCanonical(f, facts)
    <2> SUFFICES ASSUME NEW i \in LinesOf(f, "ENTRYPOINT") \cup LinesOf(f, "CMD"), Says(g[i].args, Canonical)
                 PROVE  Says(f[i].args, Canonical)
        BY <1>2 DEF NamesCanonical
    <2>1. i \in DOMAIN f /\ f[i].op \in {"ENTRYPOINT", "CMD"}
        BY <1>3
    <2> QED
        BY <2>1
<1> QED
    BY <1>4, <1>5

\* What a word of the scripts is, as the only argument of a line.
LEMMA OneWord ==
    ASSUME NEW word \in ScriptWords
    PROVE  /\ Exec(<<word>>) = <<Arg(word)>> /\ Exec(<<word>>) \in Seq(Seq(Vocabulary))
           /\ Len(Exec(<<word>>)) = 1 /\ Exec(<<word>>)[1] = Arg(word)
<1>1. Exec(<<word>>) = <<Arg(word)>>
    BY ExecSingle
<1>2. Arg(word) \in Seq(Vocabulary)
    BY ScriptWordsTyped
<1>3. <<Arg(word)>> \in Seq(Seq(Vocabulary)) /\ Len(<<Arg(word)>>) = 1 /\ <<Arg(word)>>[1] = Arg(word)
    BY <1>2
<1> QED
    BY <1>1, <1>3

\* The fields of a line a script makes.
LEMMA LineMade ==
    ASSUME NEW op \in Ops, NEW args \in Seq(Seq(Vocabulary)), NEW more \in BOOLEAN
    PROVE  /\ LineOf(op, args, more) \in TextLines /\ Is(op, args) \in TextLines
           /\ LineOf(op, args, more).op = op /\ LineOf(op, args, more).args = args
           /\ LineOf(op, args, more).more = more
           /\ Is(op, args).op = op /\ Is(op, args).args = args /\ ~Is(op, args).more
BY DEF LineOf, Is, TextLines

\* The blocks of the wire_db_shims.py and wire_backup_schedules.py trail a line: of its
\* own they are an instruction, and without their ENV a continuation.
LEMMA EnvBlockTrails ==
    ASSUME NEW a \in ShimVariables, NEW b \in ShimVariables, NEW c \in ShimVariables
    PROVE  /\ Trails(EnvBlock(<<a, b, c>>)) /\ Instruction(EnvBlock(<<a, b, c>>))
           /\ Trails([k \in DOMAIN EnvBlock(<<a, b, c>>) |-> [EnvBlock(<<a, b, c>>)[k] EXCEPT !.op = "var"]])
<1> DEFINE names == <<a, b, c>>
           block == EnvBlock(names)
           vars == [k \in DOMAIN block |-> [block[k] EXCEPT !.op = "var"]]
<1>1. DOMAIN names = 1..3 /\ Len(names) = 3 /\ \A k \in 1..3 : names[k] \in ShimVariables
    BY DEF ShimVariables
<1> HIDE DEF names
<1>2. \A k \in 1..3 : Exec(<<names[k]>>) \in Seq(Seq(Vocabulary))
    <2>1. ShimVariables \subseteq ScriptWords
        BY DEF ScriptWords
    <2> QED
        BY <1>1, <2>1, OneWord
<1>3. block = [k \in 1..3 |-> LineOf(IF k = 1 THEN "ENV" ELSE "var", Exec(<<names[k]>>), k < 3)]
    BY <1>1 DEF EnvBlock
<1>4. ASSUME NEW k \in 1..3
      PROVE  /\ block[k] \in TextLines
             /\ block[k].op = (IF k = 1 THEN "ENV" ELSE "var") /\ (block[k].more <=> k < 3)
             /\ vars[k] \in TextLines /\ vars[k].op = "var" /\ (vars[k].more <=> k < 3)
    <2> DEFINE op == IF k = 1 THEN "ENV" ELSE "var"
               args == Exec(<<names[k]>>)
               more == k < 3
    <2>1. op \in Ops /\ more \in BOOLEAN /\ args \in Seq(Seq(Vocabulary)) /\ "var" \in Ops
        <3>1. op \in Ops /\ "var" \in Ops
            BY DEF Ops
        <3>2. args \in Seq(Seq(Vocabulary))
            BY <1>2
        <3>3. more \in BOOLEAN
            OBVIOUS
        <3> QED
            BY <3>1, <3>2, <3>3
    <2>2. block[k] = LineOf(op, args, more) /\ k \in DOMAIN block
        BY <1>3
    <2> HIDE DEF op, args, more
    <2>3. block[k] \in TextLines /\ block[k].op = op /\ block[k].more = more /\ block[k] = [op |-> op, args |-> args, more |-> more]
        <3>1. LineOf(op, args, more) \in TextLines /\ LineOf(op, args, more).op = op /\ LineOf(op, args, more).more = more
            BY <2>1 DEF LineOf, TextLines
        <3>2. LineOf(op, args, more) = [op |-> op, args |-> args, more |-> more]
            BY DEF LineOf
        <3> HIDE DEF block
        <3> QED
            BY <2>2, <3>1, <3>2
    <2>4. vars[k] = [block[k] EXCEPT !.op = "var"]
        BY <2>2
    <2> HIDE DEF block, vars
    <2>5. vars[k] = [op |-> "var", args |-> args, more |-> more]
        BY <2>3, <2>4
    <2>6. vars[k] \in TextLines /\ vars[k].op = "var" /\ vars[k].more = more
        BY <2>1, <2>5 DEF TextLines
    <2> QED
        BY <2>3, <2>6 DEF op, more
<1>5. DOMAIN block = 1..3
    BY <1>3
<1>6. DOMAIN vars = 1..3
    BY <1>5
<1> HIDE DEF block, vars
<1>7. block \in Seq(TextLines) /\ Len(block) = 3 /\ vars \in Seq(TextLines) /\ Len(vars) = 3
    <2>1. block = [k \in 1..3 |-> block[k]]
        BY <1>3, <1>5
    <2>2. vars = [k \in 1..3 |-> vars[k]]
        BY <1>6 DEF vars
    <2>3. 3 \in Nat
        OBVIOUS
    <2> QED
        BY <1>4, <1>5, <1>6, <2>1, <2>2, <2>3
<1>8. 1 \in 1..3 /\ 3 \in 1..3 /\ \A k \in 1..3 : k + 1 \in 1..3 => k < 3 /\ k + 1 # 1
    OBVIOUS
<1>9. Trails(block) /\ Trails(vars)
    <2>1. ASSUME NEW b0, DOMAIN b0 = 1..3, b0 \in Seq(TextLines), Len(b0) = 3,
                 \A k \in 1..3 : b0[k].op \in {"ENV", "var"} /\ (k = 3 => ~b0[k].more)
          PROVE  Trails(b0)
        <3>1. \A k \in DOMAIN b0 : /\ b0[k].op \in {"ENV", "var", "LABEL"}
                                   /\ b0[k].more => b0[k].op \in Continuable
            BY <2>1 DEF Continuable
        <3>2. ~b0[3].more
            BY <1>8, <2>1
        <3> QED
            BY <2>1, <3>1, <3>2 DEF Trails
    <2>2. \A k \in 1..3 : /\ block[k].op \in {"ENV", "var"} /\ (k = 3 => ~block[k].more)
                          /\ vars[k].op \in {"ENV", "var"} /\ (k = 3 => ~vars[k].more)
        BY <1>4
    <2> QED
        BY <1>5, <1>6, <1>7, <2>1, <2>2
<1>10. Instruction(block)
    BY <1>4, <1>5, <1>8 DEF Instruction
<1> QED
    BY <1>9, <1>10 DEF vars, block, names

\* FROM health-shim becomes FROM db-shim.
LEMMA StageReworded ==
    ASSUME NEW f, Formed(f), NEW g,
           g = [i \in DOMAIN f |-> IF i \in Stages(f, "health-shim")
                                   THEN Is("FROM", Exec(<<"db-shim">>)) ELSE f[i]]
    PROVE  Reworded(f, g) /\ \A facts : NamesKept(f, g, facts)
<1>1. /\ f \in Seq(TextLines) /\ Len(f) \in Nat \ {0} /\ DOMAIN f = 1..Len(f)
      /\ \A i \in DOMAIN f : /\ f[i] \in TextLines /\ f[i].op \in Ops /\ f[i].more \in BOOLEAN
                             /\ f[i].args \in Seq(Seq(Vocabulary))
                             /\ f[i].more => f[i].op \in Continuable
    BY FormedLines
<1> DEFINE stage == Is("FROM", Exec(<<"db-shim">>))
<1>2. /\ stage \in TextLines /\ stage.op = "FROM" /\ ~stage.more /\ stage.more \in BOOLEAN
      /\ stage.args = Exec(<<"db-shim">>)
    <2>1. "db-shim" \in ScriptWords /\ "FROM" \in Ops
        BY DEF ScriptWords, Ops
    <2>2. Exec(<<"db-shim">>) \in Seq(Seq(Vocabulary))
        BY <2>1, OneWord
    <2> QED
        BY <2>1, <2>2 DEF Is, LineOf, TextLines
<1> HIDE DEF stage
<1>3. \A i \in DOMAIN f : g[i] = IF i \in Stages(f, "health-shim") THEN stage ELSE f[i]
    BY DEF stage
<1>4. g \in Seq(TextLines) /\ Len(g) = Len(f)
    <2>1. \A i \in 1..Len(f) : g[i] \in TextLines
        BY <1>1, <1>2, <1>3
    <2>2. g = [i \in 1..Len(f) |-> g[i]] /\ DOMAIN g = 1..Len(f)
        BY <1>1, <1>3 DEF stage
    <2> QED
        BY <1>1, <2>1, <2>2
<1>5. ASSUME NEW i \in DOMAIN f
      PROVE  /\ g[i].op = f[i].op /\ g[i].more = f[i].more /\ SameUse(f[i], g[i])
             /\ f[i].op = "FROM" \/ g[i].args = f[i].args
    <2>1. CASE i \in Stages(f, "health-shim")
        <3>1. f[i].op = "FROM" /\ g[i] = stage
            BY <1>3, <2>1 DEF Stages, LinesOf
        <3>2. f[i].more = FALSE /\ stage.more = FALSE
            BY <1>1, <1>2, <3>1 DEF Continuable
        <3>3. SameUse(f[i], stage)
            BY <1>2, <3>1 DEF SameUse, ShimStages
        <3> QED
            BY <1>2, <3>1, <3>2, <3>3
    <2>2. CASE i \notin Stages(f, "health-shim")
        BY <1>3, <2>2, SameUseReflexive
    <2> QED
        BY <2>1, <2>2
<1>6. Reworded(f, g)
    BY <1>4, <1>5 DEF Reworded
<1>7. \A i \in DOMAIN f : f[i].op \in {"ENTRYPOINT", "CMD"} => g[i].args = f[i].args
    BY <1>5
<1>8. ASSUME NEW facts PROVE NamesKept(f, g, facts)
    BY <1>6, <1>7, RewordedNames DEF NamesKept
<1> QED
    BY <1>6, <1>8

\* wire_backup_schedules.py turning the variable on rewords its line.
LEMMA BackupReworded ==
    ASSUME NEW f, Formed(f)
    PROVE  /\ Reworded(f, WithBackupEnabled(f))
           /\ \A facts : NamesKept(f, WithBackupEnabled(f), facts)
<1> DEFINE g == WithBackupEnabled(f)
           was == Exec(<<"SHIM_BACKUP_ENABLED=false">>)
           now == Exec(<<"SHIM_BACKUP_ENABLED=true">>)
<1>1. /\ f \in Seq(TextLines) /\ Len(f) \in Nat \ {0} /\ DOMAIN f = 1..Len(f)
      /\ \A i \in DOMAIN f : f[i] \in TextLines /\ f[i].args \in Seq(Seq(Vocabulary))
    BY FormedLines
<1>2. /\ was = <<Arg("SHIM_BACKUP_ENABLED=false")>> /\ now = <<Arg("SHIM_BACKUP_ENABLED=true")>>
      /\ was # <<>> /\ now # <<>> /\ Len(was) = 1 /\ now \in Seq(Seq(Vocabulary)) /\ Len(now) = 1
    <2>1. "SHIM_BACKUP_ENABLED=false" \in ScriptWords /\ "SHIM_BACKUP_ENABLED=true" \in ScriptWords
        BY DEF ScriptWords, ShimVariables
    <2>2. was = <<Arg("SHIM_BACKUP_ENABLED=false")>> /\ now = <<Arg("SHIM_BACKUP_ENABLED=true")>>
        BY ExecSingle
    <2>3. Len(was) = 1 /\ Len(now) = 1 /\ now \in Seq(Seq(Vocabulary))
        BY <2>1, OneWord
    <2>4. was # <<>> /\ now # <<>>
        BY <2>2
    <2> QED
        BY <2>2, <2>3, <2>4
<1>3. g = [i \in DOMAIN f |-> [f[i] EXCEPT !.args = IF @ = was THEN now ELSE @]]
    BY DEF WithBackupEnabled
<1> HIDE DEF g
<1>4. /\ \A word \in {"health-shim", "db-shim", "65532"} : was # Exec(<<word>>)
      /\ \A path \in ShimPaths : was # Exec(<<path, "healthcheck">>)
      /\ ~RunsShim(was) /\ ~RunsOld(now) /\ ~Says(now, Canonical)
    <2>1. \A word \in {"health-shim", "db-shim", "65532"} : was # Exec(<<word>>)
        <3> SUFFICES ASSUME NEW word \in {"health-shim", "db-shim", "65532"}, was = Exec(<<word>>) PROVE FALSE
            OBVIOUS
        <3>1. <<Arg("SHIM_BACKUP_ENABLED=false")>> = <<Arg(word)>>
            BY <1>2, ExecSingle
        <3> HIDE DEF was
        <3>2. "SHIM_BACKUP_ENABLED=false" = word
            BY <3>1 DEF Arg
        <3> QED
            BY <3>2
    <2>2. \A path \in ShimPaths : was # Exec(<<path, "healthcheck">>)
        <3> SUFFICES ASSUME NEW path \in ShimPaths, was = Exec(<<path, "healthcheck">>) PROVE FALSE
            OBVIOUS
        <3>1. Exec(<<path, "healthcheck">>) = <<Arg(path), Arg("healthcheck")>>
            BY ExecPair
        <3>2. Len(<<Arg(path), Arg("healthcheck")>>) = 2
            OBVIOUS
        <3>3. Len(Exec(<<path, "healthcheck">>)) = 2
            BY <3>1, <3>2
        <3>4. Len(was) = 1
            BY <1>2
        <3> HIDE DEF was
        <3> QED
            BY <3>3, <3>4
    <2> HIDE DEF was, now
    <2>3. ~RunsShim(was)
        BY <1>2 DEF RunsShim
    <2>4. ~RunsOld(now)
        <3>1. Exec(<<Deprecated, "run">>) = <<Arg(Deprecated), Arg("run")>>
            BY ExecPair
        <3>2. Arg(Deprecated) \in Seq(Vocabulary) /\ Arg("run") \in Seq(Vocabulary)
            BY ScriptWordsTyped DEF ScriptWords, ShimPaths
        <3>3. ~IsPrefix(<<Arg(Deprecated), Arg("run")>>, now)
            <4>1. now \in Seq(Seq(Vocabulary)) /\ Len(now) = 1
                BY <1>2
            <4> QED
                BY <3>2, <4>1, PrefixPair, SMTT(30)
        <3> QED
            BY <3>1, <3>3 DEF RunsOld
    <2>5. ~Says(now, Canonical)
        <3>1. ToSet(now) = {Arg("SHIM_BACKUP_ENABLED=true")}
            BY <1>2 DEF ToSet
        <3>2. ToSet(Arg("SHIM_BACKUP_ENABLED=true")) = {"SHIM_BACKUP_ENABLED=true"}
            BY DEF ToSet, Arg
        <3>3. Canonical # "SHIM_BACKUP_ENABLED=true"
            BY DEF Canonical
        <3> QED
            BY <3>1, <3>2, <3>3 DEF Says
    <2> QED
        BY <2>1, <2>2, <2>3, <2>4, <2>5
<1> HIDE DEF was, now
<1>5. ASSUME NEW i \in DOMAIN f
      PROVE  /\ g[i] \in TextLines /\ g[i].op = f[i].op /\ g[i].more = f[i].more
             /\ g[i].args = IF f[i].args = was THEN now ELSE f[i].args
    <2> DEFINE args == IF f[i].args = was THEN now ELSE f[i].args
    <2>1. args \in Seq(Seq(Vocabulary))
        BY <1>1, <1>2
    <2>2. g[i] = [f[i] EXCEPT !.args = args]
        BY <1>3
    <2> HIDE DEF args
    <2>3. f[i] \in TextLines
        BY <1>1
    <2>4. g[i] \in TextLines /\ g[i].op = f[i].op /\ g[i].more = f[i].more /\ g[i].args = args
        BY <2>1, <2>2, <2>3 DEF TextLines
    <2> QED
        BY <2>4 DEF args
<1>6. g \in Seq(TextLines) /\ Len(g) = Len(f)
    <2>1. g = [i \in 1..Len(f) |-> g[i]] /\ DOMAIN g = 1..Len(f)
        BY <1>1, <1>3
    <2> QED
        BY <1>1, <1>5, <2>1
<1>7. ASSUME NEW i \in DOMAIN f
      PROVE  /\ SameUse(f[i], g[i])
             /\ f[i].op = "USER" /\ f[i].args = Exec(<<"65532">>) => g[i].args = f[i].args
             /\ f[i].args # <<>> => g[i].args # <<>>
             /\ RunsOld(g[i].args) => RunsOld(f[i].args)
             /\ Says(g[i].args, Canonical) => Says(f[i].args, Canonical)
    <2>1. CASE f[i].args = was
        <3>1. g[i].args = now /\ g[i].op = f[i].op
            BY <1>5, <2>1
        <3>2. was \notin ShimStages /\ was \notin Probes
            BY <1>4 DEF ShimStages, Probes
        <3>3. SameUse(f[i], g[i])
            BY <1>4, <2>1, <3>1, <3>2 DEF SameUse
        <3> QED
            BY <1>2, <1>4, <2>1, <3>1, <3>3
    <2>2. CASE f[i].args # was
        <3>1. g[i].args = f[i].args /\ g[i].op = f[i].op
            BY <1>5, <2>2
        <3> QED
            BY <3>1, SameUseReflexive
    <2> QED
        BY <2>1, <2>2
<1>8. Reworded(f, g)
    BY <1>5, <1>6, <1>7 DEF Reworded
<1>9. ASSUME NEW facts PROVE NamesKept(f, g, facts)
    BY <1>7, <1>8, RewordedNames DEF NamesKept
<1> QED
    BY <1>8, <1>9 DEF g
=============================================================================
