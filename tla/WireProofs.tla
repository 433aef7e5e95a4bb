------------------------------ MODULE WireProofs ------------------------------
(***************************************************************************)
(* Proofs about Wire: a reader that keeps to the standards gets from a     *)
(* JSON string and from a form what the launcher wrote, and the launcher   *)
(* gets from an answer the strings that the service wrote, for texts of    *)
(* any length.  All are shown by induction over the text.  The library's   *)
(* induction theorems take an operator; WFMin takes a set, and induction   *)
(* over the natural numbers follows from it.                               *)
(***************************************************************************)
EXTENDS Wire, TLAPS, WellFoundedInduction, SequenceTheorems

-----------------------------------------------------------------------------
(* Induction and recursive functions.                                      *)

\* A set of numbers has a least one.
LEMMA LeastNumber ==
    ASSUME NEW S, S \subseteq Nat, S # {}
    PROVE  \E n \in S : \A m \in S : n <= m
<1> DEFINE R == {pair \in Nat \X Nat : pair[1] < pair[2]}
<1>1. IsWellFoundedOn(R, Nat)
  BY NatLessThanWellFounded DEF OpToRel
<1>2. \A m, n \in Nat : m < n => <<m, n>> \in R
  OBVIOUS
<1> HIDE DEF R
<1>3. PICK n \in S : \A m \in S : <<m, n>> \notin R
  BY <1>1, WFMin
<1>4. \A m \in S : ~(m < n)
  BY <1>2, <1>3
<1> QED
  BY <1>4

\* Induction, with a set for the formula.
LEMMA Induction ==
    ASSUME NEW S, 0 \in S, \A n \in S : n + 1 \in S
    PROVE  Nat \subseteq S
<1> SUFFICES ASSUME Nat \ S # {} PROVE FALSE
  OBVIOUS
<1>1. PICK n \in Nat \ S : \A m \in Nat \ S : n <= m
  BY LeastNumber
<1>2. n # 0 /\ n - 1 \in Nat
  BY <1>1
<1>3. n - 1 \in S
  BY <1>1, <1>2
<1> QED
  BY <1>1, <1>3

\* A function that is given at some arguments, and at the others by its value at an
\* argument of lower rank, as it is or with a piece put behind it, or before it.
IsRecursive(f, D, last, through, behind, piece, next) ==
    /\ f = [p \in D |-> f[p]]
    /\ \A p \in D : f[p] = IF p \in last THEN piece[p]
                           ELSE IF p \in through THEN f[next[p]]
                           ELSE IF p \in behind THEN f[next[p]] \o piece[p]
                           ELSE piece[p] \o f[next[p]]

\* There is such a function, as the argument's rank goes down.
LEMMA Recursion ==
    ASSUME NEW D, NEW M \in Nat, NEW rank \in [D -> 0..M],
           NEW last \in SUBSET D, NEW through \in SUBSET D, NEW behind \in SUBSET D,
           NEW Pieces, NEW piece \in [D -> Pieces], NEW Places, NEW next \in [D -> Places],
           \A p \in D \ last : next[p] \in D /\ rank[next[p]] < rank[p]
    PROVE  \E f : IsRecursive(f, D, last, through, behind, piece, next)
<1> DEFINE Value(f, p) == IF p \in last THEN piece[p]
                          ELSE IF p \in through THEN f[next[p]]
                          ELSE IF p \in behind THEN f[next[p]] \o piece[p]
                          ELSE piece[p] \o f[next[p]]
           Sound(f, m) == \A p \in D : rank[p] < m => f[p] = Value(f, p)
           S == {m \in Nat : \E f : f = [p \in D |-> f[p]] /\ Sound(f, m)}
<1>1. 0 \in S
  <2> DEFINE f == [p \in D |-> 0]
  <2>1. f = [p \in D |-> f[p]]
    OBVIOUS
  <2> HIDE DEF f
  <2>2. \A p \in D : ~(rank[p] < 0)
    OBVIOUS
  <2>3. Sound(f, 0)
    BY <2>2
  <2> QED
    BY <2>1, <2>3
<1>2. ASSUME NEW m \in S PROVE m + 1 \in S
  <2>1. PICK g : g = [p \in D |-> g[p]] /\ Sound(g, m)
    OBVIOUS
  <2> DEFINE f == [p \in D |-> IF rank[p] = m THEN Value(g, p) ELSE g[p]]
  <2>2. \A p \in D : f[p] = IF rank[p] = m THEN Value(g, p) ELSE g[p]
    OBVIOUS
  <2>3. f = [p \in D |-> f[p]]
    OBVIOUS
  <2> HIDE DEF f
  <2>4. ASSUME NEW p \in D, rank[p] <= m PROVE Value(f, p) = Value(g, p)
    <3>1. CASE p \in last
      BY <3>1
    <3>2. CASE p \notin last
      <4>1. next[p] \in D /\ rank[next[p]] # m
        BY <2>4, <3>2
      <4>2. f[next[p]] = g[next[p]]
        BY <2>2, <4>1
      <4> QED
        BY <3>2, <4>2
    <3> QED
      BY <3>1, <3>2
  <2> HIDE DEF Value
  <2>5. Sound(f, m + 1)
    <3> SUFFICES ASSUME NEW p \in D, rank[p] < m + 1 PROVE f[p] = Value(f, p)
      OBVIOUS
    <3>1. rank[p] \in Nat /\ rank[p] <= m
      OBVIOUS
    <3>2. Value(f, p) = Value(g, p)
      BY <2>4, <3>1
    <3>3. CASE rank[p] < m
      <4>1. g[p] = Value(g, p)
        BY <2>1, <3>3
      <4> QED
        BY <2>2, <3>2, <3>3, <4>1
    <3>4. CASE rank[p] = m
      BY <2>2, <3>2, <3>4
    <3> QED
      BY <3>1, <3>3, <3>4
  <2> QED
    BY <2>3, <2>5
<1>3. M + 1 \in S
  BY <1>1, <1>2, Induction
<1>4. PICK f : f = [p \in D |-> f[p]] /\ Sound(f, M + 1)
  BY <1>3
<1>5. \A p \in D : f[p] = Value(f, p)
  <2>1. \A p \in D : rank[p] < M + 1
    OBVIOUS
  <2> HIDE DEF Value
  <2> QED
    BY <1>4, <2>1
<1> QED
  BY <1>4, <1>5 DEF IsRecursive

\* A member of V[i] at every i, as a step leads from one to the next.
LEMMA Typed ==
    ASSUME NEW V, NEW n \in Nat, NEW f, f[0] \in V[0],
           \A i \in 1..n : f[i - 1] \in V[i - 1] => f[i] \in V[i]
    PROVE  \A i \in 0..n : f[i] \in V[i]
<1> DEFINE S == {m \in Nat : m <= n => f[m] \in V[m]}
<1>1. 0 \in S
  OBVIOUS
<1>2. ASSUME NEW m \in S PROVE m + 1 \in S
  <2> SUFFICES ASSUME m + 1 <= n PROVE f[m + 1] \in V[m + 1]
    OBVIOUS
  <2>1. PICK i \in 1..n : i = m + 1 /\ i - 1 = m
    OBVIOUS
  <2>2. f[i - 1] \in V[i - 1]
    BY <2>1
  <2> QED
    BY <2>1, <2>2
<1> HIDE DEF S
<1>3. Nat \subseteq S
  BY <1>1, <1>2, Induction
<1> QED
  BY <1>3 DEF S

\* A function whose value at i comes from the one before it by step[i].
IsIterated(f, n, base, step) ==
    /\ f = [i \in 0..n |-> f[i]]
    /\ f[0] = base
    /\ \A i \in 1..n : f[i] = step[i][f[i - 1]]

\* There is one.
LEMMA Iteration ==
    ASSUME NEW n \in Nat, NEW base, NEW step
    PROVE  \E f : IsIterated(f, n, base, step)
<1> DEFINE S == {m \in Nat : \E f : IsIterated(f, m, base, step)}
<1>1. 0 \in S
  <2> DEFINE f == [i \in 0..0 |-> base]
  <2>1. f = [i \in 0..0 |-> f[i]] /\ f[0] = base
    OBVIOUS
  <2> HIDE DEF f
  <2>2. IsIterated(f, 0, base, step)
    BY <2>1 DEF IsIterated
  <2> QED
    BY <2>2
<1>2. ASSUME NEW m \in S PROVE m + 1 \in S
  <2>1. PICK g : IsIterated(g, m, base, step)
    OBVIOUS
  <2>2. PICK k \in Nat : k = m + 1 /\ k - 1 = m /\ k # 0
    OBVIOUS
  <2> DEFINE f == [i \in 0..k |-> IF i = k THEN step[k][g[m]] ELSE g[i]]
  <2>3. /\ f = [i \in 0..k |-> f[i]] /\ f[k] = step[k][g[m]]
        /\ \A i \in 0..k : i # k => f[i] = g[i]
    BY <2>2
  <2> HIDE DEF f
  <2>4. f[0] = base
    <3>1. 0 \in 0..k /\ 0 # k
      BY <2>2
    <3>2. f[0] = g[0]
      BY <2>3, <3>1
    <3> QED
      BY <2>1, <3>2 DEF IsIterated
  <2>5. ASSUME NEW i \in 1..k PROVE f[i] = step[i][f[i - 1]]
    <3>1. f[i - 1] = g[i - 1]
      BY <2>2, <2>3
    <3>2. CASE i = k
      BY <2>2, <2>3, <3>1, <3>2
    <3>3. CASE i # k
      <4>1. i \in 1..m
        BY <2>2, <3>3
      <4>2. g[i] = step[i][g[i - 1]]
        BY <2>1, <4>1 DEF IsIterated
      <4> QED
        BY <2>3, <3>1, <3>3, <4>2
    <3> QED
      BY <3>2, <3>3
  <2>6. IsIterated(f, k, base, step)
    BY <2>3, <2>4, <2>5 DEF IsIterated
  <2> QED
    BY <2>2, <2>6
<1> HIDE DEF S
<1>3. n \in S
  BY <1>1, <1>2, Induction
<1> QED
  BY <1>3 DEF S

\* The same with types: step[i] leads from V[i - 1] to V[i].
IsTyped(f, n, base, step, V) ==
    /\ f = [i \in 0..n |-> f[i]]
    /\ f[0] = base
    /\ \A i \in 1..n : f[i] = step[i][f[i - 1]] /\ f[i - 1] \in V[i - 1]

\* There is one too.
LEMMA TypedIteration ==
    ASSUME NEW V, NEW n \in Nat, NEW base \in V[0], NEW step,
           \A i \in 1..n : \A v \in V[i - 1] : step[i][v] \in V[i]
    PROVE  \E f : IsTyped(f, n, base, step, V)
<1>1. PICK f : IsIterated(f, n, base, step)
  BY Iteration
<1>2. f[0] \in V[0] /\ \A i \in 1..n : f[i - 1] \in V[i - 1] => f[i] \in V[i]
  BY <1>1 DEF IsIterated
<1>3. \A i \in 0..n : f[i] \in V[i]
  BY <1>2, Typed
<1>4. \A i \in 1..n : f[i - 1] \in V[i - 1]
  BY <1>3
<1> QED
  BY <1>1, <1>4 DEF IsIterated, IsTyped

-----------------------------------------------------------------------------
(* Sequences.                                                              *)

\* A function on 1..n is a sequence.
LEMMA FunctionIsSeq ==
    ASSUME NEW X, NEW n \in Nat, NEW f \in [1..n -> X]
    PROVE  f \in Seq(X) /\ Len(f) = n
OBVIOUS

\* What two sequences, one behind the other, have where.
LEMMA Appended ==
    ASSUME NEW X, NEW s \in Seq(X), NEW t \in Seq(X)
    PROVE  /\ s \o t \in Seq(X) /\ Len(s \o t) = Len(s) + Len(t)
           /\ Len(s) \in Nat /\ Len(t) \in Nat
           /\ \A k \in 1..Len(s) : (s \o t)[k] = s[k]
           /\ \A k \in 1..Len(t) : (s \o t)[Len(s) + k] = t[k]
OBVIOUS

\* FlattenSeq puts the members together from the first to the last.
LEMMA Joined ==
    ASSUME NEW X, NEW s \in Seq(Seq(X))
    PROVE  \E g : /\ g[0] = <<>> /\ g[Len(s)] = FlattenSeq(s)
                  /\ \A i \in 1..Len(s) : g[i] = g[i - 1] \o s[i]
<1>1. CASE Len(s) = 0
  <2> DEFINE g == [i \in {0} |-> <<>>]
  <2>1. s = <<>> /\ FlattenSeq(s) = <<>>
    BY <1>1 DEF FlattenSeq
  <2>2. g[0] = <<>> /\ g[Len(s)] = FlattenSeq(s)
    BY <1>1, <2>1
  <2>3. 1..Len(s) = {}
    BY <1>1
  <2> QED
    BY <2>2, <2>3
<1>2. CASE Len(s) # 0
  <2> DEFINE n == Len(s)
             f == CHOOSE f : f = [i \in 1..n |-> IF i = 1 THEN s[i] ELSE f[i - 1] \o s[i]]
             g == [i \in 0..n |-> IF i = 0 THEN <<>> ELSE f[i]]
  <2>1. n \in Nat \ {0} /\ \A i \in 1..n : s[i] \in Seq(X)
    BY <1>2
  <2>2. \E h : h = [i \in 1..n |-> IF i = 1 THEN s[i] ELSE h[i - 1] \o s[i]]
    <3> DEFINE D == 1..n
               rank == [i \in D |-> i]
               next == [i \in D |-> i - 1]
               last == {1}
               through == {}
               behind == D
    <3>1. /\ rank \in [D -> 0..n] /\ last \in SUBSET D /\ through \in SUBSET D /\ behind \in SUBSET D
          /\ next \in [D -> 0..n] /\ s \in [D -> Seq(X)]
          /\ \A i \in D \ last : next[i] \in D /\ rank[next[i]] < rank[i]
      BY <2>1
    <3>2. \A i \in 1..n : next[i] = i - 1
      OBVIOUS
    <3> HIDE DEF D, rank, next, last, through, behind, n
    <3>3. n \in Nat
      BY <2>1
    <3>4. PICK h : IsRecursive(h, D, last, through, behind, s, next)
      BY <3>1, <3>3, Recursion
    <3>8. \A i \in D : h[i] = IF i \in last THEN s[i]
                              ELSE IF i \in through THEN h[next[i]]
                              ELSE IF i \in behind THEN h[next[i]] \o s[i]
                              ELSE s[i] \o h[next[i]]
      BY <3>4 DEF IsRecursive
    <3>5. \A i \in 1..n : h[i] = IF i = 1 THEN s[i] ELSE h[i - 1] \o s[i]
      BY <3>2, <3>8 DEF D, last, through, behind
    <3>6. h = [i \in 1..n |-> h[i]]
      BY <3>4 DEF D, IsRecursive
    <3>7. h = [i \in 1..n |-> IF i = 1 THEN s[i] ELSE h[i - 1] \o s[i]]
      BY <3>5, <3>6
    <3> QED
      BY <3>7
  <2>3. f = [i \in 1..n |-> IF i = 1 THEN s[i] ELSE f[i - 1] \o s[i]]
    BY <2>2
  <2>4. FlattenSeq(s) = f[n]
    BY <1>2 DEF FlattenSeq
  <2> HIDE DEF f, n
  <2>5. g[0] = <<>> /\ \A i \in 1..n : g[i] = f[i]
    BY <2>1
  <2> HIDE DEF g
  <2>6. ASSUME NEW i \in 1..n PROVE g[i] = g[i - 1] \o s[i]
    <3>1. CASE i = 1
      <4>1. g[i] = s[i] /\ g[i - 1] = <<>> /\ s[i] \in Seq(X)
        BY <2>1, <2>3, <2>5, <3>1
      <4> QED
        BY <4>1
    <3>2. CASE i # 1
      <4>1. i - 1 \in 1..n
        BY <2>1, <3>2
      <4>2. f[i] = f[i - 1] \o s[i]
        BY <2>3, <3>2
      <4> QED
        BY <2>5, <4>1, <4>2
    <3> QED
      BY <3>1, <3>2
  <2>7. g[n] = FlattenSeq(s)
    BY <2>1, <2>4, <2>5
  <2>8. g[0] = <<>> /\ g[n] = FlattenSeq(s) /\ \A i \in 1..n : g[i] = g[i - 1] \o s[i]
    BY <2>5, <2>6, <2>7
  <2> QED
    BY <2>8 DEF n
<1> QED
  BY <1>1, <1>2

\* In w the members of s lie one after the other: member i behind at[i - 1].
Layout(at, s, w) ==
    /\ at[0] = 0 /\ at[Len(s)] = Len(w)
    /\ \A i \in 1..Len(s) :
           /\ at[i] = at[i - 1] + Len(s[i]) /\ at[i] <= Len(w)
           /\ \A k \in 1..Len(s[i]) : w[at[i - 1] + k] = s[i][k]

\* What FlattenSeq returns has the members one after the other.
LEMMA LaidOut ==
    ASSUME NEW X, NEW s \in Seq(Seq(X))
    PROVE  /\ FlattenSeq(s) \in Seq(X)
           /\ \E at \in [0..Len(s) -> Nat] : Layout(at, s, FlattenSeq(s))
<1> DEFINE n == Len(s)
<1>1. PICK g : /\ g[0] = <<>> /\ g[n] = FlattenSeq(s)
               /\ \A i \in 1..n : g[i] = g[i - 1] \o s[i]
  BY Joined
<1>2. n \in Nat /\ \A i \in 1..n : s[i] \in Seq(X) /\ Len(s[i]) \in Nat
  OBVIOUS
<1> HIDE DEF n
<1> DEFINE Laid(i) == /\ g[i] \in Seq(X)
                      /\ \A j \in 1..i :
                            /\ g[j] \in Seq(X) /\ g[j - 1] \in Seq(X)
                            /\ Len(g[j]) = Len(g[j - 1]) + Len(s[j])
                            /\ Len(g[j]) <= Len(g[i])
                            /\ \A k \in 1..Len(s[j]) : g[i][Len(g[j - 1]) + k] = s[j][k]
           S == {i \in Nat : i <= n => Laid(i)}
<1>3. 0 \in S
  <2>1. 1..0 = {} /\ <<>> \in Seq(X)
    OBVIOUS
  <2>2. Laid(0)
    BY <1>1, <2>1
  <2> QED
    BY <2>2
<1>4. ASSUME NEW m \in S PROVE m + 1 \in S
  <2> HIDE DEF Laid
  <2> SUFFICES ASSUME NEW i \in 1..n, m = i - 1 PROVE Laid(i)
    <3>1. m \in Nat /\ m + 1 \in Nat /\ (m + 1) - 1 = m
      OBVIOUS
    <3>2. m + 1 <= n => m + 1 \in 1..n
      BY <1>2, <3>1
    <3> QED
      BY <3>1, <3>2
  <2>1. /\ m \in Nat /\ i \in Nat
        /\ g[m] \in Seq(X)
        /\ \A j \in 1..m :
              /\ g[j] \in Seq(X) /\ g[j - 1] \in Seq(X)
              /\ Len(g[j]) = Len(g[j - 1]) + Len(s[j])
              /\ Len(g[j]) <= Len(g[m])
              /\ \A k \in 1..Len(s[j]) : g[m][Len(g[j - 1]) + k] = s[j][k]
    <3>1. m \in Nat /\ i \in Nat /\ m <= n
      BY <1>2
    <3>2. Laid(m)
      BY <3>1
    <3> QED
      BY <3>1, <3>2 DEF Laid
  <2> HIDE DEF S
  <2>2. g[i] = g[m] \o s[i] /\ s[i] \in Seq(X)
    BY <1>1, <1>2
  <2>3. g[m] \in Seq(X)
    BY <2>1
  <2> DEFINE u == g[m]
             v == s[i]
             w == g[i]
  <2>4. u \in Seq(X) /\ v \in Seq(X) /\ w = u \o v
    BY <2>2, <2>3
  <2> HIDE DEF u, v, w
  <2>5. w \in Seq(X) /\ Len(w) = Len(u) + Len(v) /\ Len(w) \in Nat /\ Len(u) \in Nat /\ Len(v) \in Nat
    BY <2>4
  <2>6. \A k \in 1..Len(u) : w[k] = u[k]
    BY <2>4
  <2>7. \A k \in 1..Len(v) : w[Len(u) + k] = v[k]
    BY <2>4
  <2>9. \A j \in 1..m :
              /\ g[j] \in Seq(X) /\ g[j - 1] \in Seq(X)
              /\ Len(g[j]) = Len(g[j - 1]) + Len(s[j])
              /\ Len(g[j]) <= Len(u)
              /\ \A k \in 1..Len(s[j]) : u[Len(g[j - 1]) + k] = s[j][k]
    BY <2>1 DEF u
  <2>8. ASSUME NEW j \in 1..i
        PROVE  /\ g[j] \in Seq(X) /\ g[j - 1] \in Seq(X)
               /\ Len(g[j]) = Len(g[j - 1]) + Len(s[j])
               /\ Len(g[j]) <= Len(w)
               /\ \A k \in 1..Len(s[j]) : w[Len(g[j - 1]) + k] = s[j][k]
    <3>1. CASE j = i
      <4>1. g[j] = w /\ g[j - 1] = u /\ s[j] = v
        BY <3>1 DEF u, v, w
      <4> QED
        BY <2>4, <2>5, <2>7, <4>1
    <3>2. CASE j # i
      <4>1. j \in 1..m /\ j \in 1..n
        BY <1>2, <3>2
      <4>2. g[j] \in Seq(X) /\ g[j - 1] \in Seq(X)
        BY <2>9, <4>1
      <4>3. /\ Len(g[j]) = Len(g[j - 1]) + Len(s[j])
            /\ Len(g[j]) <= Len(u)
        BY <2>9, <4>1
      <4>7. \A k \in 1..Len(s[j]) : u[Len(g[j - 1]) + k] = s[j][k]
        BY <2>9, <4>1
      <4>8. Len(s[j]) \in Nat
        BY <1>2, <4>1
      <4>4. Len(g[j - 1]) \in Nat /\ Len(g[j]) \in Nat /\ Len(s[j]) \in Nat
        BY <4>2, <4>8
      <4>9. /\ Len(w) = Len(u) + Len(v) /\ Len(w) \in Nat /\ Len(u) \in Nat /\ Len(v) \in Nat
        BY <2>5
      <4> DEFINE lj == Len(g[j])
                 lp == Len(g[j - 1])
                 ls == Len(s[j])
                 lu == Len(u)
                 lw == Len(w)
      <4>10. /\ lj \in Nat /\ lp \in Nat /\ ls \in Nat /\ lu \in Nat /\ lw \in Nat
             /\ lj = lp + ls /\ lj <= lu
        BY <4>3, <4>4, <4>9
      <4>11. lu <= lw
        BY <4>9
      <4> HIDE DEF lj, lp, ls, lu, lw
      <4>5. Len(g[j]) <= Len(w)
        <5>1. lj <= lw
          BY <4>10, <4>11
        <5> QED
          BY <5>1 DEF lj, lw
      <4>6. ASSUME NEW k \in 1..Len(s[j])
            PROVE  w[Len(g[j - 1]) + k] = s[j][k]
        <5>2. k \in 1..ls
          BY DEF ls
        <5>3. lp + k \in 1..lu
          BY <4>10, <5>2
        <5>1. Len(g[j - 1]) + k \in 1..Len(u)
          BY <5>3 DEF lp, lu
        <5> QED
          BY <2>6, <4>7, <5>1
      <4> QED
        BY <4>2, <4>3, <4>5, <4>6
    <3> QED
      BY <3>1, <3>2
  <2> QED
    BY <2>5, <2>8 DEF w, Laid
<1>5. n \in S
  <2> HIDE DEF S
  <2> QED
    BY <1>2, <1>3, <1>4, Induction
<1>6. Laid(n)
  <2> HIDE DEF Laid
  <2> QED
    BY <1>2, <1>5
<1>7. FlattenSeq(s) \in Seq(X)
  BY <1>1, <1>6
<1> DEFINE at == [i \in 0..n |-> Len(g[i])]
<1>8. at[0] = 0 /\ at[n] = Len(FlattenSeq(s))
  BY <1>1, <1>2
<1>9. \A i \in 1..n : at[i] = Len(g[i]) /\ at[i - 1] = Len(g[i - 1])
  BY <1>2
<1>10. at \in [0..n -> Nat]
  <2> SUFFICES ASSUME NEW i \in 0..n PROVE Len(g[i]) \in Nat
    OBVIOUS
  <2>1. CASE i = 0
    BY <1>1, <2>1
  <2>2. CASE i # 0
    <3>1. i \in 1..n
      BY <1>2, <2>2
    <3>2. g[i] \in Seq(X)
      BY <1>6, <3>1
    <3> QED
      BY <3>2
  <2> QED
    BY <2>1, <2>2
<1> HIDE DEF at
<1>11. \A i \in 1..n : /\ at[i] = at[i - 1] + Len(s[i]) /\ at[i] <= Len(FlattenSeq(s))
                       /\ \A k \in 1..Len(s[i]) : FlattenSeq(s)[at[i - 1] + k] = s[i][k]
  <2> TAKE i \in 1..n
  <2>1. /\ Len(g[i]) = Len(g[i - 1]) + Len(s[i])
        /\ Len(g[i]) <= Len(g[n])
        /\ \A k \in 1..Len(s[i]) : g[n][Len(g[i - 1]) + k] = s[i][k]
    BY <1>6
  <2> QED
    BY <1>1, <1>9, <2>1
<1>12. at \in [0..Len(s) -> Nat] /\ Layout(at, s, FlattenSeq(s))
  BY <1>8, <1>10, <1>11 DEF n, Layout
<1> QED
  BY <1>7, <1>12

\* A sequence that is taken apart from its first member on is put together again.
LEMMA Unrolled ==
    ASSUME NEW Y, NEW text \in Seq(Y), NEW h, h[Len(text)] = <<>>,
           \A i \in 1..Len(text) : h[i - 1] = <<text[i]>> \o h[i]
    PROVE  h[0] = text
<1> DEFINE n == Len(text)
           S == {k \in Nat : k <= n => h[n - k] = SubSeq(text, n - k + 1, n)}
<1>1. n \in Nat /\ \A i \in 1..n : text[i] \in Y
  OBVIOUS
<1>2. 0 \in S
  <2>1. n - 0 = n /\ SubSeq(text, n - 0 + 1, n) = <<>>
    BY <1>1
  <2> QED
    BY <2>1
<1>3. ASSUME NEW k \in S PROVE k + 1 \in S
  <2>1. k \in Nat /\ (k <= n => h[n - k] = SubSeq(text, n - k + 1, n))
    OBVIOUS
  <2> HIDE DEF n
  <2> SUFFICES ASSUME NEW i \in 1..n, i = n - k PROVE h[i - 1] = SubSeq(text, i, n)
    <3>1. SUFFICES ASSUME k + 1 <= n PROVE h[n - (k + 1)] = SubSeq(text, n - (k + 1) + 1, n)
      BY <2>1
    <3>2. n - k \in 1..n /\ n - (k + 1) = (n - k) - 1 /\ n - (k + 1) + 1 = n - k
      BY <1>1, <2>1, <3>1
    <3> QED
      BY <3>2
  <2>2. h[i] = SubSeq(text, i + 1, n)
    <3>1. k <= n /\ n - k + 1 = i + 1
      BY <1>1, <2>1
    <3> QED
      BY <2>1, <3>1
  <2>3. h[i - 1] = <<text[i]>> \o SubSeq(text, i + 1, n)
    BY <2>2 DEF n
  <2>4. <<text[i]>> \o SubSeq(text, i + 1, n) = SubSeq(text, i, n)
    <3> DEFINE u == SubSeq(text, i + 1, n)
               v == SubSeq(text, i, n)
    <3>1. u \in Seq(Y) /\ Len(u) = n - i /\ \A m \in 1..n - i : u[m] = text[i + m]
      BY <1>1 DEF n
    <3>2. v \in Seq(Y) /\ Len(v) = n - i + 1 /\ \A m \in 1..n - i + 1 : v[m] = text[i + m - 1]
      BY <1>1 DEF n
    <3> HIDE DEF u, v
    <3>3. text[i] \in Y
      BY <1>1
    <3>4. /\ <<text[i]>> \o u \in Seq(Y) /\ Len(<<text[i]>> \o u) = n - i + 1
          /\ (<<text[i]>> \o u)[1] = text[i]
          /\ \A m \in 2..n - i + 1 : (<<text[i]>> \o u)[m] = u[m - 1]
      BY <1>1, <3>1, <3>3
    <3>5. \A m \in 1..n - i + 1 : (<<text[i]>> \o u)[m] = v[m]
      <4> TAKE m \in 1..n - i + 1
      <4>1. CASE m = 1
        BY <1>1, <3>2, <3>4, <4>1
      <4>2. CASE m # 1
        <5>1. m \in 2..n - i + 1 /\ m - 1 \in 1..n - i /\ i + (m - 1) = i + m - 1
          BY <1>1, <4>2
        <5> QED
          BY <3>1, <3>2, <3>4, <5>1
      <4> QED
        BY <4>1, <4>2
    <3> QED
      BY <1>1, <3>2, <3>4, <3>5, SeqEqual DEF u, v
  <2> QED
    BY <2>3, <2>4
<1>4. n \in S
  <2> HIDE DEF S
  <2> QED
    BY <1>1, <1>2, <1>3, Induction
<1>5. n - n = 0 /\ SubSeq(text, n - n + 1, n) = text
  BY <1>1
<1> QED
  BY <1>1, <1>4, <1>5

-----------------------------------------------------------------------------
(* Texts in texts.                                                         *)

\* The atoms of e stand in s from place p on.
Holds(s, p, e) ==
    /\ p + Len(e) <= Len(s) + 1
    /\ \A k \in 1..Len(e) : s[p + k - 1] = e[k]

\* For one atom.
LEMMA HoldsOne ==
    ASSUME NEW X, NEW s \in Seq(X), NEW p \in Nat \ {0}, NEW c \in X, Holds(s, p, <<c>>)
    PROVE  p <= Len(s) /\ s[p] = c
<1>1. Len(<<c>>) = 1 /\ <<c>>[1] = c
  OBVIOUS
<1>2. p + 1 <= Len(s) + 1 /\ \A k \in 1..1 : s[p + k - 1] = <<c>>[k]
  BY <1>1 DEF Holds
<1>3. s[p + 1 - 1] = c
  BY <1>1, <1>2
<1>4. p + 1 - 1 = p /\ Len(s) \in Nat
  OBVIOUS
<1> QED
  BY <1>2, <1>3, <1>4

\* For two parts.
LEMMA HoldsTwo ==
    ASSUME NEW X, NEW s \in Seq(X), NEW p \in Nat \ {0}, NEW u \in Seq(X), NEW v \in Seq(X),
           Holds(s, p, u \o v)
    PROVE  Holds(s, p, u) /\ Holds(s, p + Len(u), v)
<1> DEFINE e == u \o v
           lu == Len(u)
           lv == Len(v)
           ls == Len(s)
<1>1. /\ Len(e) = lu + lv /\ lu \in Nat /\ lv \in Nat /\ ls \in Nat
      /\ \A k \in 1..lu : e[k] = u[k]
      /\ \A k \in 1..lv : e[lu + k] = v[k]
  OBVIOUS
<1>2. p + Len(e) <= ls + 1 /\ \A k \in 1..Len(e) : s[p + k - 1] = e[k]
  BY DEF Holds
<1> HIDE DEF e, lu, lv, ls
<1>3. p + lu <= ls + 1 /\ (p + lu) + lv <= ls + 1
  BY <1>1, <1>2
<1>4. ASSUME NEW k \in 1..lu PROVE s[p + k - 1] = u[k]
  <2>1. k \in 1..Len(e)
    BY <1>1
  <2> QED
    BY <1>1, <1>2, <2>1
<1>5. ASSUME NEW k \in 1..lv PROVE s[(p + lu) + k - 1] = v[k]
  <2>1. lu + k \in 1..Len(e) /\ p + (lu + k) - 1 = (p + lu) + k - 1
    BY <1>1
  <2>2. s[p + (lu + k) - 1] = e[lu + k]
    BY <1>2, <2>1
  <2> QED
    BY <1>1, <2>1, <2>2
<1> QED
  BY <1>3, <1>4, <1>5 DEF Holds, lu, lv, ls

\* What is cut out is what stands there.
LEMMA HoldsCut ==
    ASSUME NEW X, NEW s \in Seq(X), NEW p \in Nat \ {0}, NEW e \in Seq(X), Holds(s, p, e)
    PROVE  SubSeq(s, p, p + Len(e) - 1) = e
<1> DEFINE q == p + Len(e) - 1
           u == SubSeq(s, p, q)
           le == Len(e)
           ls == Len(s)
<1>1. le \in Nat /\ ls \in Nat
  OBVIOUS
<1>2. p + le <= ls + 1 /\ \A k \in 1..le : s[p + k - 1] = e[k]
  BY DEF Holds
<1> HIDE DEF le
<1>3. q <= ls /\ q - p + 1 = le /\ q = p + le - 1
  BY <1>1, <1>2 DEF le
<1>4. u \in Seq(X) /\ Len(u) = le /\ \A k \in 1..le : u[k] = s[p + k - 1]
  BY <1>1, <1>3
<1> HIDE DEF u
<1>5. \A k \in 1..le : u[k] = e[k]
  BY <1>2, <1>4
<1>6. u = e
  BY <1>4, <1>5, SeqEqual DEF le
<1> QED
  BY <1>6 DEF u

\* What stands in a text stands there when more follows.
LEMMA HoldsLonger ==
    ASSUME NEW X, NEW s \in Seq(X), NEW t \in Seq(X), NEW p \in Nat \ {0}, NEW e \in Seq(X),
           Holds(s, p, e)
    PROVE  Holds(s \o t, p, e)
<1> DEFINE w == s \o t
           ls == Len(s)
           le == Len(e)
<1>1. ls \in Nat /\ le \in Nat /\ ls <= Len(w) /\ Len(w) \in Nat /\ \A k \in 1..ls : w[k] = s[k]
  OBVIOUS
<1>2. p + le <= ls + 1 /\ \A k \in 1..le : s[p + k - 1] = e[k]
  BY DEF Holds
<1> HIDE DEF w, ls, le
<1>3. p + le <= Len(w) + 1
  BY <1>1, <1>2
<1>4. ASSUME NEW k \in 1..le PROVE w[p + k - 1] = e[k]
  <2>1. p + k - 1 \in 1..ls
    BY <1>1, <1>2
  <2> QED
    BY <1>1, <1>2, <2>1
<1> QED
  BY <1>3, <1>4 DEF Holds, w, le

\* LaidOut in these terms.
LEMMA FlattenHolds ==
    ASSUME NEW X, NEW s \in Seq(Seq(X))
    PROVE  /\ FlattenSeq(s) \in Seq(X)
           /\ \E at \in [0..Len(s) -> Nat] :
                 /\ at[0] = 0 /\ at[Len(s)] = Len(FlattenSeq(s))
                 /\ \A i \in 1..Len(s) : /\ at[i] = at[i - 1] + Len(s[i])
                                         /\ Holds(FlattenSeq(s), at[i - 1] + 1, s[i])
<1>1. FlattenSeq(s) \in Seq(X)
  BY LaidOut
<1>2. PICK at \in [0..Len(s) -> Nat] : Layout(at, s, FlattenSeq(s))
  BY LaidOut
<1>4. /\ at[0] = 0 /\ at[Len(s)] = Len(FlattenSeq(s))
      /\ \A i \in 1..Len(s) :
             /\ at[i] = at[i - 1] + Len(s[i]) /\ at[i] <= Len(FlattenSeq(s))
             /\ \A k \in 1..Len(s[i]) : FlattenSeq(s)[at[i - 1] + k] = s[i][k]
  BY <1>2 DEF Layout
<1> DEFINE w == FlattenSeq(s)
<1>3. ASSUME NEW i \in 1..Len(s) PROVE Holds(w, at[i - 1] + 1, s[i])
  <2>1. PICK b \in Nat : b = at[i - 1]
    <3>1. i - 1 \in 0..Len(s)
      OBVIOUS
    <3>2. at[i - 1] \in Nat
      BY <3>1
    <3> QED
      BY <3>2
  <2>2. PICK l \in Nat : l = Len(s[i])
    OBVIOUS
  <2>3. b + l <= Len(w) /\ \A k \in 1..l : w[b + k] = s[i][k]
    BY <1>4, <2>1, <2>2
  <2>4. Len(w) \in Nat
    BY <1>1
  <2> HIDE DEF w
  <2>5. (b + 1) + l <= Len(w) + 1
    BY <2>3, <2>4
  <2>6. \A k \in 1..l : (b + 1) + k - 1 = b + k
    OBVIOUS
  <2>7. \A k \in 1..l : w[(b + 1) + k - 1] = s[i][k]
    BY <2>3, <2>6
  <2> QED
    BY <2>1, <2>2, <2>5, <2>7 DEF Holds
<1> QED
  BY <1>1, <1>3, <1>4

-----------------------------------------------------------------------------
(* JSON.                                                                   *)

\* The atoms of a text, those a request is written with among them.
Atom == STRING \cup {Quote, Backslash, "u", "b", "f", "n", "r", "t", "%", "+", "&", "=", "}"}
               \cup {"{", ":", ",", " ", "null", "user_code", "device_code", "verification_uri"}
               \cup {"0", "1", "2", "3", "4", "5", "6", "7", "8", "9", "A", "B", "C", "D", "E", "F"}

\* Two atoms.
LEMMA PairOf ==
    ASSUME NEW X, NEW a \in X, NEW b \in X
    PROVE  /\ <<a, b>> = <<a>> \o <<b>> /\ <<a>> \in Seq(X) /\ <<b>> \in Seq(X)
           /\ <<a, b>> \in Seq(X) /\ Len(<<a, b>>) = 2 /\ Len(<<a>>) = 1 /\ <<a, b>>[1] = a
<1>1. /\ <<a>> \in Seq(X) /\ <<b>> \in Seq(X)
      /\ <<a, b>> \in Seq(X) /\ Len(<<a, b>>) = 2 /\ Len(<<a>>) = 1 /\ <<a, b>>[1] = a
  OBVIOUS
<1>2. <<a, b>> = Append(<<a>>, b)
  OBVIOUS
<1>3. Append(<<a>>, b) = <<a>> \o <<b>>
  OBVIOUS
<1> QED
  BY <1>1, <1>2, <1>3

\* An escaped character is read as what it was, and as wide as it was written.
LEMMA EscapeIsRead ==
    ASSUME NEW c \in Atom, NEW s \in Seq(Atom), NEW p \in Nat \ {0},
           Holds(s, p, EscapeOf(c))
    PROVE  /\ p <= Len(s) /\ s[p] # Quote
           /\ JsonCharacter(s, p) = c /\ JsonWidth(s, p) = Len(EscapeOf(c))
<1>1. \A d \in DOMAIN Letter : Letter[d] \in {"b", "f", "n", "r", "t"}
  BY DEF Letter
<1>2. ASSUME NEW d \in Atom, NEW tail \in Seq(Atom), Holds(s, p, <<Backslash, d>> \o tail)
      PROVE  /\ p <= Len(s) /\ s[p] = Backslash /\ s[p + 1] = d
             /\ Holds(s, p + 2, tail) /\ s[p] # Quote
  <2>0. Backslash \in Atom
    BY DEF Atom
  <2>1. /\ <<Backslash, d>> = <<Backslash>> \o <<d>>
        /\ <<Backslash>> \in Seq(Atom) /\ <<d>> \in Seq(Atom)
        /\ <<Backslash, d>> \in Seq(Atom) /\ Len(<<Backslash, d>>) = 2
        /\ Len(<<Backslash>>) = 1
    BY <2>0, PairOf
  <2>8. PICK u \in Seq(Atom), v \in Seq(Atom), w \in Seq(Atom) :
            /\ u = <<Backslash>> /\ v = <<d>> /\ w = <<Backslash, d>>
            /\ w = u \o v /\ Len(u) = 1 /\ Len(w) = 2
    BY <2>1
  <2>2. Holds(s, p, w) /\ Holds(s, p + 2, tail)
    <3>1. Holds(s, p, w \o tail)
      BY <1>2, <2>8
    <3>2. Holds(s, p, w) /\ Holds(s, p + Len(w), tail)
      BY <3>1, HoldsTwo
    <3> QED
      BY <2>8, <3>2
  <2>3. Holds(s, p, <<Backslash>>) /\ Holds(s, p + 1, <<d>>)
    <3>1. Holds(s, p, u \o v)
      BY <2>2, <2>8
    <3>2. Holds(s, p, u) /\ Holds(s, p + Len(u), v)
      BY <3>1, HoldsTwo
    <3> QED
      BY <2>8, <3>2
  <2>4. p + 1 \in Nat \ {0}
    OBVIOUS
  <2>5. p <= Len(s) /\ s[p] = Backslash
    BY <2>0, <2>3, HoldsOne
  <2>6. s[p + 1] = d
    BY <2>3, <2>4, HoldsOne
  <2>7. Backslash # Quote
    BY DEF Backslash, Quote
  <2> QED
    BY <2>2, <2>5, <2>6, <2>7
<1>3. ASSUME NEW d \in Atom, Holds(s, p, <<Backslash, d>>)
      PROVE  p <= Len(s) /\ s[p] = Backslash /\ s[p + 1] = d /\ s[p] # Quote
  <2>0. Backslash \in Atom
    BY DEF Atom
  <2>1. <<Backslash, d>> = <<Backslash, d>> \o <<>> /\ <<>> \in Seq(Atom)
    BY <2>0, PairOf
  <2> QED
    BY <1>2, <1>3, <2>1
<1>4. CASE c \in {Backslash, Quote}
  <2>1. EscapeOf(c) = <<Backslash, c>> /\ Len(<<Backslash, c>>) = 2
    BY <1>4 DEF EscapeOf
  <2>2. p <= Len(s) /\ s[p] = Backslash /\ s[p + 1] = c /\ s[p] # Quote
    BY <1>3, <2>1
  <2>3. JsonWidth(s, p) = 2
    BY <1>4, <2>2 DEF JsonWidth, Backslash, Quote
  <2>4. {d \in DOMAIN Letter : Letter[d] = s[p + 1]} = {}
    BY <1>1, <1>4, <2>2 DEF Backslash, Quote
  <2> QED
    BY <2>1, <2>2, <2>3, <2>4 DEF JsonCharacter
<1>5. CASE c \notin {Backslash, Quote} /\ c \in DOMAIN Letter
  <2>0. EscapeOf(c) = <<Backslash, Letter[c]>>
    BY <1>5 DEF EscapeOf
  <2>9. Letter[c] \in Atom
    BY <1>1, <1>5 DEF Atom
  <2>1. /\ EscapeOf(c) = <<Backslash, Letter[c]>> /\ Len(<<Backslash, Letter[c]>>) = 2
        /\ Letter[c] \in Atom
    BY <2>0, <2>9
  <2>2. p <= Len(s) /\ s[p] = Backslash /\ s[p + 1] = Letter[c] /\ s[p] # Quote
    BY <1>3, <2>1
  <2>3. JsonWidth(s, p) = 2
    BY <1>1, <1>5, <2>2 DEF JsonWidth
  <2>4. {d \in DOMAIN Letter : Letter[d] = s[p + 1]} = {c}
    BY <1>5, <2>2 DEF Letter
  <2> QED
    BY <2>1, <2>2, <2>3, <2>4 DEF JsonCharacter
<1>6. CASE c \notin {Backslash, Quote} /\ c \notin DOMAIN Letter /\ c \in DOMAIN Coded
  <2>1. c = "SOH" /\ \A d \in DOMAIN Coded : d = "SOH"
    BY <1>6 DEF Coded
  <2>2. /\ EscapeOf(c) = <<Backslash, "u">> \o Coded[c] /\ Coded[c] \in Seq(Atom)
        /\ Len(Coded[c]) = 4 /\ Len(<<Backslash, "u">>) = 2
        /\ <<Backslash, "u">> \in Seq(Atom)
    <3>1. EscapeOf(c) = <<Backslash, "u">> \o Coded[c]
      BY <1>6 DEF EscapeOf
    <3>2. Coded[c] = <<"0", "0", "0", "1">>
      BY <2>1 DEF Coded
    <3>5. "0" \in Atom /\ "1" \in Atom
      BY DEF Atom
    <3>3. <<"0", "0", "0", "1">> \in Seq(Atom) /\ Len(<<"0", "0", "0", "1">>) = 4
      BY <3>5
    <3>4. Backslash \in Atom /\ "u" \in Atom
      BY DEF Atom
    <3> QED
      BY <3>1, <3>2, <3>3, <3>4, PairOf
  <2>3. p <= Len(s) /\ s[p] = Backslash /\ s[p + 1] = "u" /\ s[p] # Quote
        /\ Holds(s, p + 2, Coded[c])
    BY <1>2, <2>2
  <2>4. JsonWidth(s, p) = 6
    BY <2>3 DEF JsonWidth
  <2>5. p + 2 \in Nat \ {0} /\ p + 5 \in Int /\ p + 5 = (p + 2) + 4 - 1
    OBVIOUS
  <2>6. SubSeq(s, p + 2, p + 5) = Coded[c]
    <3>1. PICK r \in Nat \ {0}, q \in Int : r = p + 2 /\ q = p + 5
      BY <2>5
    <3>5. PICK e \in Seq(Atom) : e = Coded[c]
      BY <2>2
    <3>2. Holds(s, r, e)
      BY <2>3, <3>1, <3>5
    <3>4. q = r + Len(e) - 1
      BY <2>2, <2>5, <3>1, <3>5
    <3>3. SubSeq(s, r, q) = e
      <4>1. SubSeq(s, r, r + Len(e) - 1) = e
        BY <3>2, HoldsCut
      <4> QED
        BY <3>4, <4>1
    <3> QED
      BY <3>1, <3>3, <3>5
  <2>7. (CHOOSE d \in DOMAIN Coded : Coded[d] = SubSeq(s, p + 2, p + 5)) = c
    BY <1>6, <2>1, <2>6
  <2>8. Len(EscapeOf(c)) = 6
    <3>1. PICK u \in Seq(Atom), v \in Seq(Atom) : u = <<Backslash, "u">> /\ v = Coded[c]
      BY <2>2
    <3>2. Len(u \o v) = Len(u) + Len(v)
      OBVIOUS
    <3>3. EscapeOf(c) = u \o v /\ Len(u) = 2 /\ Len(v) = 4
      BY <2>2, <3>1
    <3> QED
      BY <3>2, <3>3
  <2>9. JsonCharacter(s, p) = CHOOSE d \in DOMAIN Coded : Coded[d] = SubSeq(s, p + 2, p + 5)
    BY <2>4 DEF JsonCharacter
  <2> QED
    BY <2>3, <2>4, <2>7, <2>8, <2>9
<1>7. CASE c \notin {Backslash, Quote} /\ c \notin DOMAIN Letter /\ c \notin DOMAIN Coded
  <2>1. EscapeOf(c) = <<c>> /\ Len(<<c>>) = 1
    BY <1>7 DEF EscapeOf
  <2>2. p <= Len(s) /\ s[p] = c
    BY <2>1, HoldsOne
  <2>3. JsonWidth(s, p) = 1
    BY <1>7, <2>2 DEF JsonWidth
  <2> QED
    BY <1>7, <2>1, <2>2, <2>3 DEF JsonCharacter
<1> QED
  BY <1>4, <1>5, <1>6, <1>7

\* What EscapeOf writes.
LEMMA EscapeIsText ==
    ASSUME NEW c \in Atom
    PROVE  EscapeOf(c) \in Seq(Atom)
<1>1. Backslash \in Atom /\ "u" \in Atom /\ "0" \in Atom /\ "1" \in Atom
  BY DEF Atom
<1>2. c \in DOMAIN Letter => Letter[c] \in Atom
  <2>1. c \in DOMAIN Letter => Letter[c] \in {"b", "f", "n", "r", "t"}
    BY DEF Letter
  <2> QED
    BY <2>1 DEF Atom
<1>3. c \in DOMAIN Coded => Coded[c] = <<"0", "0", "0", "1">>
  BY DEF Coded
<1>4. <<"0", "0", "0", "1">> \in Seq(Atom)
  BY <1>1
<1>5. <<Backslash, "u">> \in Seq(Atom)
  BY <1>1
<1>6. <<Backslash, "u">> \o <<"0", "0", "0", "1">> \in Seq(Atom)
  BY <1>4, <1>5
<1>7. <<c>> \in Seq(Atom) /\ <<Backslash, c>> \in Seq(Atom)
  BY <1>1
<1>8. c \in DOMAIN Letter => <<Backslash, Letter[c]>> \in Seq(Atom)
  BY <1>1, <1>2
<1> QED
  BY <1>3, <1>6, <1>7, <1>8 DEF EscapeOf

\* What the reading of a JSON string does at each place.
LEMMA JsonStringSteps ==
    ASSUME NEW s \in Seq(Atom)
    PROVE  \E from : /\ JsonString(s) = from[1]
                     /\ \A p \in 1..Len(s) + 6 :
                            from[p] = IF p > Len(s) \/ s[p] = Quote THEN <<>>
                                      ELSE <<JsonCharacter(s, p)>> \o from[p + JsonWidth(s, p)]
<1> DEFINE N == Len(s) + 6
           D == 1..N
           f == CHOOSE f : f = [p \in D |->
                    IF p > Len(s) \/ s[p] = Quote THEN <<>>
                    ELSE <<JsonCharacter(s, p)>> \o f[p + JsonWidth(s, p)]]
           rank == [p \in D |-> N - p]
           last == {p \in D : p > Len(s) \/ s[p] = Quote}
           through == {}
           behind == {}
           piece == [p \in D |-> IF p \in last THEN <<>> ELSE <<JsonCharacter(s, p)>>]
           next == [p \in D |-> p + JsonWidth(s, p)]
           Pieces == {piece[p] : p \in D}
           Places == {next[p] : p \in D}
<1>1. JsonString(s) = f[1]
  BY DEF JsonString
<1>2. N \in Nat /\ rank \in [D -> 0..N] /\ last \in SUBSET D /\ through \in SUBSET D /\ behind \in SUBSET D
  OBVIOUS
<1>3. piece \in [D -> Pieces] /\ next \in [D -> Places]
  OBVIOUS
<1>4. ASSUME NEW p \in D \ last PROVE next[p] \in D /\ rank[next[p]] < rank[p]
  <2>1. p \in Nat /\ p <= Len(s) /\ JsonWidth(s, p) \in {1, 2, 6} /\ Len(s) \in Nat
    BY DEF JsonWidth
  <2>2. p + JsonWidth(s, p) \in D
    BY <2>1
  <2> QED
    BY <2>1, <2>2
<1> HIDE DEF Pieces, Places
<1>5. PICK g : IsRecursive(g, D, last, through, behind, piece, next)
  <2> HIDE DEF D, N, last, through, behind, piece, next, rank
  <2> QED
    BY <1>2, <1>3, <1>4, Recursion
<1>6. \A p \in D : g[p] = IF p > Len(s) \/ s[p] = Quote THEN <<>>
                          ELSE <<JsonCharacter(s, p)>> \o g[p + JsonWidth(s, p)]
  BY <1>5 DEF IsRecursive
<1>7. g = [p \in D |-> g[p]]
  BY <1>5 DEF IsRecursive
<1>8. g = [p \in D |-> IF p > Len(s) \/ s[p] = Quote THEN <<>>
                       ELSE <<JsonCharacter(s, p)>> \o g[p + JsonWidth(s, p)]]
  BY <1>6, <1>7
<1>9. f = [p \in D |-> IF p > Len(s) \/ s[p] = Quote THEN <<>>
                       ELSE <<JsonCharacter(s, p)>> \o f[p + JsonWidth(s, p)]]
  BY <1>8
<1> HIDE DEF f
<1> QED
  BY <1>1, <1>9

\* What JsonEscape writes.
LEMMA EscapedIsText ==
    ASSUME NEW value \in Seq(Atom)
    PROVE  JsonEscape(value) \in Seq(Atom)
<1> DEFINE parts == [i \in 1..Len(value) |-> EscapeOf(value[i])]
<1>1. \A i \in 1..Len(value) : value[i] \in Atom
  OBVIOUS
<1>2. parts \in Seq(Seq(Atom))
  BY <1>1, EscapeIsText
<1>3. JsonEscape(value) = FlattenSeq(parts)
  BY DEF JsonEscape
<1> HIDE DEF parts
<1> QED
  BY <1>2, <1>3, FlattenHolds

\* A text that JsonEscape wrote is read as it was, whatever it has in it (App.cpp 911-934).
THEOREM JsonRoundTrip ==
    ASSUME NEW token \in Seq(Atom)
    PROVE  JsonString(JsonEscape(token) \o <<Quote, "}">>) = token
<1> DEFINE n == Len(token)
           parts == [i \in 1..n |-> EscapeOf(token[i])]
           w == FlattenSeq(parts)
           rest == <<Quote, "}">>
           s == w \o rest
<1>1. n \in Nat /\ \A i \in 1..n : token[i] \in Atom
  OBVIOUS
<1>2. parts \in Seq(Seq(Atom)) /\ Len(parts) = n
  BY <1>1, EscapeIsText
<1>3. JsonEscape(token) = w
  BY DEF JsonEscape
<1>4. \A i \in 1..n : parts[i] = EscapeOf(token[i])
  OBVIOUS
<1>5. rest \in Seq(Atom) /\ rest[1] = Quote /\ Len(rest) = 2
  <2>1. Quote \in Atom /\ "}" \in Atom
    BY DEF Atom
  <2>2. <<Quote, "}">> \in Seq(Atom) /\ Len(<<Quote, "}">>) = 2 /\ <<Quote, "}">>[1] = Quote
    BY <2>1, PairOf
  <2> QED
    BY <2>2
<1> HIDE DEF n, parts, rest
<1>6. w \in Seq(Atom)
  BY <1>2, FlattenHolds
<1>7. PICK at \in [0..n -> Nat] :
          /\ at[0] = 0 /\ at[n] = Len(w)
          /\ \A i \in 1..n : /\ at[i] = at[i - 1] + Len(parts[i])
                             /\ Holds(w, at[i - 1] + 1, parts[i])
  BY <1>2, FlattenHolds
<1> HIDE DEF w
<1>8. s \in Seq(Atom) /\ Len(s) = Len(w) + 2 /\ Len(w) \in Nat /\ s[Len(w) + 1] = Quote
  <2>0. rest \in Seq(Atom)
    BY <1>5
  <2>1. /\ s \in Seq(Atom) /\ Len(s) = Len(w) + Len(rest) /\ Len(w) \in Nat
        /\ \A k \in 1..Len(rest) : s[Len(w) + k] = rest[k]
    BY <2>0, <1>6, Appended
  <2>3. 1 \in 1..Len(rest)
    BY <1>5
  <2>2. s[Len(w) + 1] = rest[1]
    BY <2>1, <2>3
  <2> HIDE DEF s
  <2> QED
    BY <1>5, <2>1, <2>2
<1>9. \A i \in 1..n : Holds(s, at[i - 1] + 1, EscapeOf(token[i]))
  <2> TAKE i \in 1..n
  <2>1. PICK p \in Nat \ {0} : p = at[i - 1] + 1
    BY <1>1
  <2>2. EscapeOf(token[i]) \in Seq(Atom)
    BY <1>1, EscapeIsText
  <2>3. Holds(w, p, EscapeOf(token[i]))
    BY <1>4, <1>7, <2>1
  <2> QED
    BY <1>5, <1>6, <2>1, <2>2, <2>3, HoldsLonger
<1> HIDE DEF s
<1>10. PICK from : /\ JsonString(s) = from[1]
                   /\ \A p \in 1..Len(s) + 6 :
                          from[p] = IF p > Len(s) \/ s[p] = Quote THEN <<>>
                                    ELSE <<JsonCharacter(s, p)>> \o from[p + JsonWidth(s, p)]
  BY <1>8, JsonStringSteps
<1> DEFINE h == [i \in 0..n |-> from[at[i] + 1]]
<1>11. h[n] = <<>>
  <2>1. Len(w) + 1 \in 1..Len(s) + 6
    BY <1>8
  <2>2. from[Len(w) + 1] = <<>>
    BY <1>8, <1>10, <2>1
  <2> QED
    BY <1>1, <1>7, <2>2
<1>12. ASSUME NEW i \in 1..n PROVE h[i - 1] = <<token[i]>> \o h[i]
  <2>1. PICK p \in Nat \ {0} : p = at[i - 1] + 1
    BY <1>1
  <2>2. Holds(s, p, EscapeOf(token[i]))
    BY <1>9, <2>1
  <2>3. /\ p <= Len(s) /\ s[p] # Quote
        /\ JsonCharacter(s, p) = token[i] /\ JsonWidth(s, p) = Len(EscapeOf(token[i]))
    BY <1>1, <1>8, <2>2, EscapeIsRead
  <2>4. Len(EscapeOf(token[i])) \in Nat
    BY <1>1, EscapeIsText
  <2>5. p + Len(EscapeOf(token[i])) = at[i] + 1
    <3>1. PICK l \in Nat : l = Len(EscapeOf(token[i]))
      BY <2>4
    <3>2. PICK b \in Nat : b = at[i - 1]
      BY <1>1
    <3>3. at[i] = b + l
      BY <1>4, <1>7, <3>1, <3>2
    <3> QED
      BY <2>1, <3>1, <3>2, <3>3
  <2>6. p \in 1..Len(s) + 6 /\ ~(p > Len(s))
    BY <1>8, <2>3
  <2>7. from[p] = <<token[i]>> \o from[at[i] + 1]
    BY <1>10, <2>3, <2>5, <2>6
  <2>8. h[i - 1] = from[p] /\ h[i] = from[at[i] + 1]
    BY <1>1, <2>1
  <2> QED
    BY <2>7, <2>8
<1>13. h[0] = from[1]
  BY <1>1, <1>7
<1> HIDE DEF h
<1>14. h[0] = token
  BY <1>11, <1>12, Unrolled DEF n
<1> QED
  BY <1>3, <1>10, <1>13, <1>14 DEF s, rest

-----------------------------------------------------------------------------
(* Forms.                                                                  *)

\* What an encoded text is made of.
FormAtom == Atom \ {"&", "="}

\* No two characters have the same two digits.
LEMMA HexDigits ==
    /\ \A c \in Unsafe : Hex[c] \in Seq(FormAtom) /\ Len(Hex[c]) = 2
    /\ \A c, d \in Unsafe : Hex[c] = Hex[d] => c = d
<1>1. /\ Hex[":"] = <<"3", "A">> /\ Hex["/"] = <<"2", "F">> /\ Hex["&"] = <<"2", "6">>
      /\ Hex["="] = <<"3", "D">> /\ Hex["+"] = <<"2", "B">> /\ Hex["%"] = <<"2", "5">>
      /\ Hex["*"] = <<"2", "A">> /\ Hex["LF"] = <<"0", "A">>
      /\ Hex[Quote] = <<"2", "2">> /\ Hex[Backslash] = <<"5", "C">>
  BY DEF Hex, Unsafe, Quote, Backslash
<1>2. \A c \in Unsafe : \/ c = ":" \/ c = "/" \/ c = "&" \/ c = "=" \/ c = "+" \/ c = "%"
                        \/ c = "*" \/ c = "LF" \/ c = Quote \/ c = Backslash
  BY DEF Unsafe
<1>3. /\ "0" \in FormAtom /\ "2" \in FormAtom /\ "3" \in FormAtom /\ "5" \in FormAtom
      /\ "6" \in FormAtom /\ "A" \in FormAtom /\ "B" \in FormAtom /\ "C" \in FormAtom
      /\ "D" \in FormAtom /\ "F" \in FormAtom
  BY DEF FormAtom, Atom
<1>4. \A a, b \in FormAtom : <<a, b>> \in Seq(FormAtom) /\ Len(<<a, b>>) = 2
  BY PairOf
<1>5. \A c \in Unsafe : \E a, b \in FormAtom : Hex[c] = <<a, b>>
  BY <1>1, <1>2, <1>3
<1>6. \A c \in Unsafe : Hex[c] \in Seq(FormAtom) /\ Len(Hex[c]) = 2
  BY <1>4, <1>5
<1>7. /\ Hex[":"][1] = "3" /\ Hex["/"][1] = "2" /\ Hex["&"][1] = "2"
      /\ Hex["="][1] = "3" /\ Hex["+"][1] = "2" /\ Hex["%"][1] = "2"
      /\ Hex["*"][1] = "2" /\ Hex["LF"][1] = "0"
      /\ Hex[Quote][1] = "2" /\ Hex[Backslash][1] = "5"
  BY <1>1
<1>8. /\ Hex[":"][2] = "A" /\ Hex["/"][2] = "F" /\ Hex["&"][2] = "6"
      /\ Hex["="][2] = "D" /\ Hex["+"][2] = "B" /\ Hex["%"][2] = "5"
      /\ Hex["*"][2] = "A" /\ Hex["LF"][2] = "A"
      /\ Hex[Quote][2] = "2" /\ Hex[Backslash][2] = "C"
  BY <1>1
<1>9. ASSUME NEW c \in Unsafe, NEW d \in Unsafe, Hex[c] = Hex[d] PROVE c = d
  <2>1. Hex[c][1] = Hex[d][1] /\ Hex[c][2] = Hex[d][2]
    BY <1>9
  <2> QED
    BY <1>2, <1>7, <1>8, <2>1
<1> QED
  BY <1>6, <1>9

\* What EncodeOf writes.
LEMMA EncodeIsText ==
    ASSUME NEW c \in Atom
    PROVE  EncodeOf(c) \in Seq(FormAtom)
<1>1. "+" \in FormAtom /\ "%" \in FormAtom
  BY DEF FormAtom, Atom
<1>2. <<"+">> \in Seq(FormAtom) /\ <<"%">> \in Seq(FormAtom)
  BY <1>1
<1>3. DOMAIN Hex = Unsafe
  BY DEF Hex
<1>4. c \in Unsafe => <<"%">> \o Hex[c] \in Seq(FormAtom)
  BY <1>2, HexDigits
<1>5. c \notin Unsafe => c \in FormAtom
  BY DEF FormAtom, Unsafe
<1>6. c \notin Unsafe => <<c>> \in Seq(FormAtom)
  BY <1>5
<1> QED
  BY <1>2, <1>3, <1>4, <1>6 DEF EncodeOf

\* An encoded character is read as what it was, and as wide as it was written.
LEMMA EncodeIsRead ==
    ASSUME NEW c \in Atom, NEW s \in Seq(Atom), NEW p \in Nat \ {0},
           Holds(s, p, EncodeOf(c))
    PROVE  p <= Len(s) /\ FormCharacter(s, p) = c /\ FormWidth(s, p) = Len(EncodeOf(c))
<1>1. "+" \in Atom /\ "%" \in Atom /\ Len(<<"+">>) = 1 /\ Len(<<"%">>) = 1 /\ <<"%">> \in Seq(Atom)
  <2>1. "+" \in Atom /\ "%" \in Atom
    BY DEF Atom
  <2> QED
    BY <2>1
<1>2. DOMAIN Hex = Unsafe
  BY DEF Hex
<1>3. CASE c = " "
  <2>1. EncodeOf(c) = <<"+">>
    BY <1>3 DEF EncodeOf
  <2>2. p <= Len(s) /\ s[p] = "+"
    BY <1>1, <2>1, HoldsOne
  <2> QED
    BY <1>1, <1>3, <2>1, <2>2 DEF FormCharacter, FormWidth
<1>4. CASE c # " " /\ c \in Unsafe
  <2>1. EncodeOf(c) = <<"%">> \o Hex[c]
    BY <1>2, <1>4 DEF EncodeOf
  <2>2. FormAtom \subseteq Atom
    BY DEF FormAtom
  <2>3. PICK e \in Seq(Atom) : e = Hex[c] /\ Len(e) = 2
    BY <1>4, <2>2, HexDigits, SeqMonotonic
  <2>4. PICK u \in Seq(Atom) : u = <<"%">> /\ Len(u) = 1
    BY <1>1
  <2>5. Holds(s, p, u) /\ Holds(s, p + 1, e)
    <3>1. Holds(s, p, u \o e)
      BY <2>1, <2>3, <2>4
    <3>2. Holds(s, p, u) /\ Holds(s, p + Len(u), e)
      BY <3>1, HoldsTwo
    <3> QED
      BY <2>4, <3>2
  <2>6. p <= Len(s) /\ s[p] = "%"
    BY <1>1, <2>4, <2>5, HoldsOne
  <2>7. SubSeq(s, p + 1, p + 2) = e
    <3>1. PICK r \in Nat \ {0} : r = p + 1
      OBVIOUS
    <3>2. SubSeq(s, r, r + Len(e) - 1) = e
      BY <2>5, <3>1, HoldsCut
    <3>3. r + Len(e) - 1 = p + 2
      BY <2>3, <3>1
    <3> QED
      BY <3>1, <3>2, <3>3
  <2>8. (CHOOSE d \in DOMAIN Hex : Hex[d] = SubSeq(s, p + 1, p + 2)) = c
    BY <1>2, <1>4, <2>3, <2>7, HexDigits
  <2>9. Len(EncodeOf(c)) = 3
    <3>1. Len(u \o e) = Len(u) + Len(e)
      OBVIOUS
    <3>2. EncodeOf(c) = u \o e
      BY <2>1, <2>3, <2>4
    <3> QED
      BY <2>3, <2>4, <3>1, <3>2
  <2> QED
    BY <2>6, <2>8, <2>9 DEF FormCharacter, FormWidth
<1>5. CASE c # " " /\ c \notin Unsafe
  <2>1. EncodeOf(c) = <<c>> /\ Len(<<c>>) = 1
    BY <1>2, <1>5 DEF EncodeOf
  <2>2. p <= Len(s) /\ s[p] = c
    BY <2>1, HoldsOne
  <2>3. c # "%" /\ c # "+"
    BY <1>5 DEF Unsafe
  <2> QED
    BY <2>1, <2>2, <2>3 DEF FormCharacter, FormWidth
<1> QED
  BY <1>3, <1>4, <1>5

\* What the reading of a name or value does at each place.
LEMMA FormStringSteps ==
    ASSUME NEW s \in Seq(Atom)
    PROVE  \E from : /\ FormString(s) = from[1]
                     /\ \A p \in 1..Len(s) + 3 :
                            from[p] = IF p > Len(s) THEN <<>>
                                      ELSE <<FormCharacter(s, p)>> \o from[p + FormWidth(s, p)]
<1> DEFINE N == Len(s) + 3
           D == 1..N
           f == CHOOSE f : f = [p \in D |->
                    IF p > Len(s) THEN <<>>
                    ELSE <<FormCharacter(s, p)>> \o f[p + FormWidth(s, p)]]
           rank == [p \in D |-> N - p]
           last == {p \in D : p > Len(s)}
           through == {}
           behind == {}
           piece == [p \in D |-> IF p \in last THEN <<>> ELSE <<FormCharacter(s, p)>>]
           next == [p \in D |-> p + FormWidth(s, p)]
           Pieces == {piece[p] : p \in D}
           Places == {next[p] : p \in D}
<1>1. FormString(s) = f[1]
  BY DEF FormString
<1>2. N \in Nat /\ rank \in [D -> 0..N] /\ last \in SUBSET D /\ through \in SUBSET D /\ behind \in SUBSET D
  OBVIOUS
<1>3. piece \in [D -> Pieces] /\ next \in [D -> Places]
  OBVIOUS
<1>4. ASSUME NEW p \in D \ last PROVE next[p] \in D /\ rank[next[p]] < rank[p]
  <2>1. p \in Nat /\ p <= Len(s) /\ FormWidth(s, p) \in {1, 3} /\ Len(s) \in Nat
    BY DEF FormWidth
  <2>2. p + FormWidth(s, p) \in D
    BY <2>1
  <2> QED
    BY <2>1, <2>2
<1> HIDE DEF Pieces, Places
<1>5. PICK g : IsRecursive(g, D, last, through, behind, piece, next)
  <2> HIDE DEF D, N, last, through, behind, piece, next, rank
  <2> QED
    BY <1>2, <1>3, <1>4, Recursion
<1>6. \A p \in D : g[p] = IF p > Len(s) THEN <<>>
                          ELSE <<FormCharacter(s, p)>> \o g[p + FormWidth(s, p)]
  BY <1>5 DEF IsRecursive
<1>7. g = [p \in D |-> g[p]]
  BY <1>5 DEF IsRecursive
<1>8. g = [p \in D |-> IF p > Len(s) THEN <<>>
                       ELSE <<FormCharacter(s, p)>> \o g[p + FormWidth(s, p)]]
  BY <1>6, <1>7
<1>9. f = [p \in D |-> IF p > Len(s) THEN <<>>
                       ELSE <<FormCharacter(s, p)>> \o f[p + FormWidth(s, p)]]
  BY <1>8
<1> HIDE DEF f
<1> QED
  BY <1>1, <1>9

\* A text that FormUrlEncode wrote has no separator in it, and is read as it was.
LEMMA FormRoundTrip ==
    ASSUME NEW value \in Seq(Atom)
    PROVE  FormUrlEncode(value) \in Seq(FormAtom) /\ FormString(FormUrlEncode(value)) = value
<1> DEFINE n == Len(value)
           parts == [i \in 1..n |-> EncodeOf(value[i])]
           s == FlattenSeq(parts)
<1>1. n \in Nat /\ \A i \in 1..n : value[i] \in Atom
  OBVIOUS
<1>2. parts \in Seq(Seq(FormAtom)) /\ Len(parts) = n
  BY <1>1, EncodeIsText
<1>3. FormUrlEncode(value) = s
  BY DEF FormUrlEncode
<1>4. \A i \in 1..n : parts[i] = EncodeOf(value[i])
  OBVIOUS
<1> HIDE DEF n, parts
<1>5. s \in Seq(FormAtom)
  BY <1>2, FlattenHolds
<1>6. FormAtom \subseteq Atom
  BY DEF FormAtom
<1>7. PICK at \in [0..n -> Nat] :
          /\ at[0] = 0 /\ at[n] = Len(s)
          /\ \A i \in 1..n : /\ at[i] = at[i - 1] + Len(parts[i])
                             /\ Holds(s, at[i - 1] + 1, parts[i])
  BY <1>2, FlattenHolds
<1> HIDE DEF s
<1>8. s \in Seq(Atom) /\ Len(s) \in Nat
  BY <1>5, <1>6, SeqMonotonic
<1>10. PICK from : /\ FormString(s) = from[1]
                   /\ \A p \in 1..Len(s) + 3 :
                          from[p] = IF p > Len(s) THEN <<>>
                                    ELSE <<FormCharacter(s, p)>> \o from[p + FormWidth(s, p)]
  BY <1>8, FormStringSteps
<1> DEFINE h == [i \in 0..n |-> from[at[i] + 1]]
<1>11. h[n] = <<>>
  <2>1. Len(s) + 1 \in 1..Len(s) + 3 /\ Len(s) + 1 > Len(s)
    BY <1>8
  <2>3. PICK p \in 1..Len(s) + 3 : p = Len(s) + 1 /\ p > Len(s)
    BY <2>1
  <2>4. from[p] = <<>>
    BY <1>10, <2>3
  <2>2. from[Len(s) + 1] = <<>>
    BY <2>3, <2>4
  <2> QED
    BY <1>1, <1>7, <2>2
<1>12. ASSUME NEW i \in 1..n PROVE h[i - 1] = <<value[i]>> \o h[i]
  <2>1. PICK p \in Nat \ {0} : p = at[i - 1] + 1
    BY <1>1
  <2>2. Holds(s, p, EncodeOf(value[i]))
    BY <1>4, <1>7, <2>1
  <2>3. /\ p <= Len(s)
        /\ FormCharacter(s, p) = value[i] /\ FormWidth(s, p) = Len(EncodeOf(value[i]))
    BY <1>1, <1>8, <2>2, EncodeIsRead
  <2>4. Len(EncodeOf(value[i])) \in Nat
    BY <1>1, EncodeIsText
  <2>5. p + Len(EncodeOf(value[i])) = at[i] + 1
    <3>1. PICK l \in Nat : l = Len(EncodeOf(value[i]))
      BY <2>4
    <3>2. PICK b \in Nat : b = at[i - 1]
      BY <1>1
    <3>3. at[i] = b + l
      BY <1>4, <1>7, <3>1, <3>2
    <3> QED
      BY <2>1, <3>1, <3>2, <3>3
  <2>6. p \in 1..Len(s) + 3 /\ ~(p > Len(s))
    BY <1>8, <2>3
  <2>7. from[p] = <<value[i]>> \o from[at[i] + 1]
    BY <1>10, <2>3, <2>5, <2>6
  <2>8. h[i - 1] = from[p] /\ h[i] = from[at[i] + 1]
    BY <1>1, <2>1
  <2> QED
    BY <2>7, <2>8
<1>13. h[0] = from[1]
  BY <1>1, <1>7
<1> HIDE DEF h
<1>14. h[0] = value
  BY <1>11, <1>12, Unrolled DEF n
<1> QED
  BY <1>3, <1>5, <1>10, <1>13, <1>14

\* Where Find finds one atom.
LEMMA FindAtom ==
    ASSUME NEW X, NEW s \in Seq(X), NEW a, NEW start \in Nat \ {0}
    PROVE  /\ (\A p \in start..Len(s) : s[p] # a) => Find(s, <<a>>, start) = 0
           /\ \A q \in start..Len(s) :
                 s[q] = a /\ (\A p \in start..q - 1 : s[p] # a) => Find(s, <<a>>, start) = q
           /\ Find(s, <<a>>, start) = 0 \/ Find(s, <<a>>, start) \in start..Len(s)
<1> DEFINE places == {p \in start..Len(s) : s[p] = a}
<1>1. Len(s) \in Nat
  OBVIOUS
<1>2. ASSUME NEW p \in start..Len(s)
      PROVE  SubSeq(s, p, p + 1 - 1) = <<a>> <=> s[p] = a
  <2>1. p \in Nat \ {0} /\ p <= Len(s) /\ p + 1 - 1 = p
    BY <1>1
  <2>2. SubSeq(s, p, p) = <<s[p]>>
    <3> DEFINE e == <<s[p]>>
    <3>1. e \in Seq(X) /\ Len(e) = 1 /\ e[1] = s[p]
      BY <2>1
    <3> HIDE DEF e
    <3>2. p + 1 <= Len(s) + 1
      BY <1>1, <2>1
    <3>3. \A k \in 1..1 : s[p + k - 1] = e[k]
      <4>1. \A k \in 1..1 : k = 1
        OBVIOUS
      <4> QED
        BY <2>1, <3>1, <4>1
    <3>4. Holds(s, p, e)
      BY <3>1, <3>2, <3>3 DEF Holds
    <3>5. SubSeq(s, p, p + Len(e) - 1) = e
      BY <2>1, <3>1, <3>4, HoldsCut
    <3> QED
      BY <2>1, <3>1, <3>5 DEF e
  <2> QED
    BY <2>1, <2>2
<1>3. Len(<<a>>) = 1 /\ Len(s) + 1 - 1 = Len(s)
  BY <1>1
<1>4. Find(s, <<a>>, start) = IF places = {} THEN 0 ELSE Min(places)
  BY <1>2, <1>3 DEF Find
<1>5. Min(places) = CHOOSE p \in places : \A q \in places : p <= q
  BY DEF Min
<1>6. places # {} => Min(places) \in places /\ \A q \in places : Min(places) <= q
  <2> SUFFICES ASSUME places # {} PROVE \E p \in places : \A q \in places : p <= q
    BY <1>5
  <2>1. places \subseteq Nat
    OBVIOUS
  <2> QED
    BY <2>1, LeastNumber
<1> DEFINE l == Min(places)
<1> HIDE DEF l
<1>7. ASSUME NEW q \in start..Len(s), s[q] = a, \A p \in start..q - 1 : s[p] # a
      PROVE  Find(s, <<a>>, start) = q
  <2>1. q \in places
    BY <1>7
  <2>2. l \in places /\ l <= q
    BY <1>6, <2>1 DEF l
  <2>3. l \in Int /\ l >= start /\ s[l] = a /\ q \in Int
    BY <2>2, <1>1
  <2>4. ~(l < q)
    BY <1>7, <2>3
  <2> QED
    BY <1>4, <2>1, <2>2, <2>3, <2>4 DEF l
<1> QED
  BY <1>4, <1>6, <1>7

\* A text stands in itself.
LEMMA HoldsAll ==
    ASSUME NEW X, NEW s \in Seq(X)
    PROVE  Holds(s, 1, s)
<1>1. Len(s) \in Nat
  OBVIOUS
<1>2. 1 + Len(s) <= Len(s) + 1 /\ \A k \in 1..Len(s) : 1 + k - 1 = k
  BY <1>1
<1> QED
  BY <1>2 DEF Holds

\* What stands where an atom is looked for, and does not have it.
LEMMA HoldsNone ==
    ASSUME NEW X, NEW s \in Seq(X), NEW p \in Nat \ {0}, NEW Y, NEW e \in Seq(Y), Holds(s, p, e),
           NEW a, a \notin Y, NEW q \in p..p + Len(e) - 1
    PROVE  s[q] # a
<1>1. PICK l \in Nat : l = Len(e)
  OBVIOUS
<1>2. PICK k \in Nat : k = q - p + 1
  BY <1>1
<1>3. k \in 1..l /\ p + k - 1 = q
  BY <1>1, <1>2
<1>4. s[p + k - 1] = e[k]
  BY <1>1, <1>3 DEF Holds
<1>5. e[k] \in Y
  BY <1>1, <1>3
<1> QED
  BY <1>3, <1>4, <1>5

\* A field with its name and value is one text without an ampersand, and is cut where
\* its name ends.
LEMMA FieldRoundTrip ==
    ASSUME NEW field \in Seq(Atom) \X Seq(Atom)
    PROVE  FieldText(field) \in Seq(Atom \ {"&"}) /\ FormField(FieldText(field)) = field
<1> DEFINE Y == Atom \ {"&"}
<1>1. PICK u \in Seq(FormAtom), v \in Seq(FormAtom) :
          u = FormUrlEncode(field[1]) /\ v = FormUrlEncode(field[2])
  BY FormRoundTrip
<1>2. FormAtom \subseteq Y /\ "=" \in Y /\ "=" \notin FormAtom
  BY DEF FormAtom, Atom
<1>3. PICK eq : eq = <<"=">>
  OBVIOUS
<1> HIDE DEF Y
<1>4. u \in Seq(Y) /\ v \in Seq(Y) /\ eq \in Seq(Y) /\ Len(eq) = 1
  BY <1>2, <1>3, SeqMonotonic
<1> DEFINE w == u \o eq
           s == w \o v
<1>5. w \in Seq(Y) /\ Len(w) = Len(u) + 1 /\ Len(u) \in Nat
  <2>1. w \in Seq(Y) /\ Len(w) = Len(u) + Len(eq) /\ Len(u) \in Nat
    BY <1>4, Appended
  <2> QED
    BY <1>4, <2>1
<1>6. s \in Seq(Y) /\ Len(s) = Len(w) + Len(v) /\ Len(v) \in Nat
  <2> HIDE DEF w
  <2> QED
    BY <1>4, <1>5, Appended
<1>7. FieldText(field) = s
  BY <1>1, <1>3 DEF FieldText
<1> DEFINE q == Len(u) + 1
<1>8. Holds(s, 1, w) /\ Holds(s, 1 + Len(w), v)
  <2>1. Holds(s, 1, s)
    BY <1>6, HoldsAll
  <2> HIDE DEF w
  <2>2. PICK one \in Nat \ {0} : one = 1
    OBVIOUS
  <2>3. Holds(s, one, w \o v)
    BY <2>1, <2>2
  <2> HIDE DEF s
  <2>4. Holds(s, one, w) /\ Holds(s, one + Len(w), v)
    BY <1>4, <1>5, <1>6, <2>3, HoldsTwo
  <2> QED
    BY <2>2, <2>4
<1>9. Holds(s, 1, u) /\ Holds(s, q, eq)
  <2>2. PICK one \in Nat \ {0} : one = 1
    OBVIOUS
  <2>3. Holds(s, one, u \o eq)
    BY <1>8, <2>2
  <2> HIDE DEF s, w
  <2>4. Holds(s, one, u) /\ Holds(s, one + Len(u), eq)
    BY <1>4, <1>6, <2>3, HoldsTwo
  <2>5. one + Len(u) = q
    BY <1>5, <2>2
  <2> QED
    BY <2>2, <2>4, <2>5
<1> HIDE DEF s, w, q
<1>10. q \in Nat \ {0} /\ q - 1 = Len(u) /\ 1 + Len(w) = q + 1 /\ q + 1 \in Nat \ {0}
       /\ Len(s) = q + Len(v) /\ q <= Len(s)
  BY <1>5, <1>6 DEF q
<1>11. s[q] = "="
  BY <1>2, <1>3, <1>6, <1>9, <1>10, HoldsOne
<1>12. \A p \in 1..q - 1 : s[p] # "="
  <2> TAKE p \in 1..q - 1
  <2>2. PICK one \in Nat \ {0} : one = 1
    OBVIOUS
  <2>3. Holds(s, one, u)
    BY <1>9, <2>2
  <2>4. p \in one..one + Len(u) - 1
    BY <1>5, <1>10, <2>2
  <2> QED
    BY <1>2, <1>6, <2>3, <2>4, HoldsNone
<1>13. Find(s, <<"=">>, 1) = q
  <2>2. PICK one \in Nat \ {0} : one = 1
    OBVIOUS
  <2>3. q \in one..Len(s) /\ \A p \in one..q - 1 : s[p] # "="
    BY <1>6, <1>10, <1>12, <2>2
  <2>4. Find(s, <<"=">>, one) = q
    BY <1>6, <1>11, <2>3, FindAtom
  <2> QED
    BY <2>2, <2>4
<1>14. SubSeq(s, 1, q - 1) = u
  <2>2. PICK one \in Nat \ {0} : one = 1
    OBVIOUS
  <2>3. SubSeq(s, one, one + Len(u) - 1) = u
    BY <1>4, <1>6, <1>9, <2>2, HoldsCut
  <2>4. one + Len(u) - 1 = q - 1
    BY <1>5, <1>10, <2>2
  <2> QED
    BY <2>2, <2>3, <2>4
<1>15. SubSeq(s, q + 1, Len(s)) = v
  <2>2. PICK r \in Nat \ {0} : r = q + 1
    BY <1>10
  <2>3. Holds(s, r, v)
    BY <1>8, <1>10, <2>2
  <2>4. SubSeq(s, r, r + Len(v) - 1) = v
    BY <1>4, <1>6, <2>3, HoldsCut
  <2>5. r + Len(v) - 1 = Len(s)
    <3>1. PICK l \in Nat : l = Len(v)
      BY <1>6
    <3>2. Len(s) = q + l
      BY <1>10, <3>1
    <3>3. r + l - 1 = q + l
      BY <1>10, <2>2
    <3> QED
      BY <3>1, <3>2, <3>3
  <2> QED
    BY <2>2, <2>4, <2>5
<1>16. FormField(s) = <<FormString(u), FormString(v)>>
  BY <1>13, <1>14, <1>15 DEF FormField
<1>17. FormString(u) = field[1] /\ FormString(v) = field[2]
  BY <1>1, FormRoundTrip
<1>18. FormField(s) = field
  BY <1>16, <1>17
<1> QED
  BY <1>6, <1>7, <1>18 DEF Y

\* What the reading of a form does at each place.
LEMMA FormFieldsSteps ==
    ASSUME NEW X, NEW body \in Seq(X)
    PROVE  \E from : /\ FormFields(body) = from[1]
                     /\ \A p \in 1..Len(body) + 1 :
                            from[p] = IF Find(body, <<"&">>, p) = 0
                                      THEN <<FormField(SubSeq(body, p, Len(body)))>>
                                      ELSE <<FormField(SubSeq(body, p, Find(body, <<"&">>, p) - 1))>>
                                           \o from[Find(body, <<"&">>, p) + 1]
<1> DEFINE N == Len(body) + 1
           D == 1..N
           Cut(p) == Find(body, <<"&">>, p)
           f == CHOOSE f : f = [p \in D |->
                    IF Cut(p) = 0 THEN <<FormField(SubSeq(body, p, Len(body)))>>
                    ELSE <<FormField(SubSeq(body, p, Cut(p) - 1))>> \o f[Cut(p) + 1]]
           rank == [p \in D |-> N - p]
           last == {p \in D : Cut(p) = 0}
           through == {}
           behind == {}
           piece == [p \in D |-> IF p \in last THEN <<FormField(SubSeq(body, p, Len(body)))>>
                                 ELSE <<FormField(SubSeq(body, p, Cut(p) - 1))>>]
           next == [p \in D |-> Cut(p) + 1]
           Pieces == {piece[p] : p \in D}
           Places == {next[p] : p \in D}
<1>1. FormFields(body) = f[1]
  BY DEF FormFields
<1>2. Len(body) \in Nat
  OBVIOUS
<1>3. \A p \in D : Cut(p) = 0 \/ Cut(p) \in p..Len(body)
  <2> TAKE p \in D
  <2>1. p \in Nat \ {0}
    OBVIOUS
  <2> QED
    BY <2>1, FindAtom
<1> HIDE DEF Cut
<1>4. N \in Nat /\ rank \in [D -> 0..N] /\ last \in SUBSET D /\ through \in SUBSET D /\ behind \in SUBSET D
  BY <1>2
<1>5. piece \in [D -> Pieces] /\ next \in [D -> Places]
  OBVIOUS
<1>6. ASSUME NEW p \in D \ last PROVE next[p] \in D /\ rank[next[p]] < rank[p]
  <2>1. p \in D /\ Cut(p) \in p..Len(body)
    BY <1>3
  <2>2. Cut(p) + 1 \in D /\ p < Cut(p) + 1
    BY <1>2, <2>1
  <2> QED
    BY <1>2, <2>1, <2>2
<1> HIDE DEF Pieces, Places
<1>7. PICK g : IsRecursive(g, D, last, through, behind, piece, next)
  <2> HIDE DEF D, N, last, through, behind, piece, next, rank
  <2> QED
    BY <1>4, <1>5, <1>6, Recursion
<1>8. \A p \in D : g[p] = IF Cut(p) = 0 THEN <<FormField(SubSeq(body, p, Len(body)))>>
                          ELSE <<FormField(SubSeq(body, p, Cut(p) - 1))>> \o g[Cut(p) + 1]
  BY <1>7 DEF IsRecursive
<1>9. g = [p \in D |-> g[p]]
  BY <1>7 DEF IsRecursive
<1>10. g = [p \in D |-> IF Cut(p) = 0 THEN <<FormField(SubSeq(body, p, Len(body)))>>
                        ELSE <<FormField(SubSeq(body, p, Cut(p) - 1))>> \o g[Cut(p) + 1]]
  BY <1>8, <1>9
<1>11. f = [p \in D |-> IF Cut(p) = 0 THEN <<FormField(SubSeq(body, p, Len(body)))>>
                        ELSE <<FormField(SubSeq(body, p, Cut(p) - 1))>> \o f[Cut(p) + 1]]
  BY <1>10
<1> HIDE DEF f
<1>12. \A p \in D : f[p] = IF Cut(p) = 0 THEN <<FormField(SubSeq(body, p, Len(body)))>>
                           ELSE <<FormField(SubSeq(body, p, Cut(p) - 1))>> \o f[Cut(p) + 1]
  BY <1>11
<1> QED
  BY <1>1, <1>12 DEF Cut

\* A body that MakeFormBody wrote is read as the fields it was made of, whatever they have
\* in them (App.cpp 936-963).
THEOREM FormBodyRoundTrip ==
    ASSUME NEW fields \in Seq(Seq(Atom) \X Seq(Atom)), fields # <<>>
    PROVE  FormFields(MakeFormBody(fields)) = fields
<1> DEFINE n == Len(fields)
           amp == <<"&">>
           Lead(i) == IF i = 1 THEN <<>> ELSE amp
           T(i) == FieldText(fields[i])
           parts == [i \in 1..n |-> Lead(i) \o T(i)]
           s == FlattenSeq(parts)
           Y == Atom \ {"&"}
<1>1. n \in Nat \ {0} /\ \A i \in 1..n : fields[i] \in Seq(Atom) \X Seq(Atom)
  OBVIOUS
<1>2. amp \in Seq(Atom) /\ Len(amp) = 1 /\ "&" \in Atom /\ "&" \notin Y /\ Y \subseteq Atom
  <2>1. "&" \in Atom
    BY DEF Atom
  <2> QED
    BY <2>1
<1>3. \A i \in 1..n : T(i) \in Seq(Y) /\ FormField(T(i)) = fields[i]
  BY <1>1, FieldRoundTrip
<1>4. \A i \in 1..n : T(i) \in Seq(Atom)
  <2> HIDE DEF T, Y
  <2> QED
    BY <1>2, <1>3, SeqMonotonic
<1>5. MakeFormBody(fields) = s
  <2>1. MakeFormBody(fields) = FlattenSeq([i \in DOMAIN fields |->
            (IF i = 1 THEN <<>> ELSE <<"&">>) \o FieldText(fields[i])])
    BY DEF MakeFormBody
  <2>2. DOMAIN fields = 1..n
    OBVIOUS
  <2>3. parts = [i \in 1..n |-> (IF i = 1 THEN <<>> ELSE <<"&">>) \o FieldText(fields[i])]
    OBVIOUS
  <2> HIDE DEF parts, n
  <2> QED
    BY <2>1, <2>2, <2>3
<1> HIDE DEF amp, T, n, Y
<1>6. \A i \in 1..n : /\ Lead(i) \in Seq(Atom)
                      /\ parts[i] = Lead(i) \o T(i) /\ parts[i] \in Seq(Atom)
                      /\ Len(parts[i]) = Len(Lead(i)) + Len(T(i))
  <2> TAKE i \in 1..n
  <2>1. Lead(i) \in Seq(Atom)
    BY <1>2
  <2>2. parts[i] = Lead(i) \o T(i)
    OBVIOUS
  <2> HIDE DEF Lead, parts
  <2> QED
    BY <1>4, <2>1, <2>2, Appended
<1>7. parts \in Seq(Seq(Atom)) /\ Len(parts) = n
  BY <1>1, <1>6
<1> HIDE DEF parts
<1>8. s \in Seq(Atom)
  BY <1>7, FlattenHolds
<1>9. PICK at \in [0..n -> Nat] :
          /\ at[0] = 0 /\ at[n] = Len(s)
          /\ \A i \in 1..n : /\ at[i] = at[i - 1] + Len(parts[i])
                             /\ Holds(s, at[i - 1] + 1, parts[i])
  BY <1>7, FlattenHolds
<1> HIDE DEF s
<1> DEFINE begin == [i \in 1..n |-> at[i - 1] + 1 + Len(Lead(i))]
<1>10. ASSUME NEW i \in 1..n
       PROVE  /\ begin[i] \in Nat \ {0} /\ at[i] = begin[i] + Len(T(i)) - 1
              /\ Holds(s, begin[i], T(i)) /\ Holds(s, at[i - 1] + 1, Lead(i))
  <2>9. PICK b \in Nat : b = at[i - 1]
    <3>1. i - 1 \in 0..n
      BY <1>1
    <3>2. at[i - 1] \in Nat
      BY <3>1
    <3> QED
      BY <3>2
  <2>1. PICK p \in Nat \ {0} : p = at[i - 1] + 1 /\ b = p - 1
    <3>1. b + 1 \in Nat \ {0} /\ b = (b + 1) - 1
      OBVIOUS
    <3>2. b + 1 = at[i - 1] + 1
      BY <2>9
    <3> QED
      BY <3>1, <3>2
  <2>2. PICK u \in Seq(Atom), v \in Seq(Atom) : u = Lead(i) /\ v = T(i)
    BY <1>4, <1>6
  <2>3. PICK lu \in Nat, lv \in Nat : lu = Len(u) /\ lv = Len(v)
    OBVIOUS
  <2>4. begin[i] = p + lu
    BY <2>1, <2>2, <2>3
  <2>5. Holds(s, p, u \o v)
    BY <1>6, <1>9, <2>1, <2>2
  <2>6. Holds(s, p, u) /\ Holds(s, p + lu, v)
    BY <1>8, <2>3, <2>5, HoldsTwo
  <2>7. at[i] = (p - 1) + (lu + lv)
    <3>1. Len(parts[i]) = lu + lv
      BY <1>6, <2>2, <2>3
    <3>2. at[i - 1] = p - 1
      BY <2>1, <2>9
    <3> QED
      BY <1>9, <3>1, <3>2
  <2>8. at[i] = (p + lu) + lv - 1
    BY <2>7
  <2> HIDE DEF begin, Lead
  <2>10. begin[i] \in Nat \ {0} /\ at[i] = begin[i] + Len(T(i)) - 1
    BY <2>2, <2>3, <2>4, <2>8
  <2>11. Holds(s, begin[i], T(i)) /\ Holds(s, at[i - 1] + 1, Lead(i))
    BY <2>1, <2>2, <2>4, <2>6
  <2> QED
    BY <2>10, <2>11
<1>11. begin[1] = 1
  <2>1. 1 \in 1..n /\ 1 - 1 = 0 /\ Len(<<>>) = 0
    BY <1>1
  <2>2. begin[1] = 0 + 1 + 0
    BY <1>9, <2>1
  <2> QED
    BY <2>2
<1>12. ASSUME NEW i \in 1..n - 1
       PROVE  /\ i + 1 \in 1..n /\ begin[i + 1] = at[i] + 2
              /\ at[i] + 1 \in Nat \ {0} /\ at[i] + 1 <= Len(s) /\ s[at[i] + 1] = "&"
  <2>1. PICK j \in 1..n : j = i + 1 /\ j # 1 /\ j - 1 = i
    BY <1>1
  <2>2. PICK p \in Nat \ {0} : p = at[i] + 1
    BY <1>1
  <2>3. Lead(j) = amp
    BY <2>1
  <2>4. begin[j] = at[i] + 1 + 1
    BY <1>2, <2>1, <2>3
  <2>5. Holds(s, p, amp)
    BY <1>10, <2>1, <2>2, <2>3
  <2>6. p <= Len(s) /\ s[p] = "&"
    BY <1>2, <1>8, <2>5, HoldsOne DEF amp
  <2>7. at[i] \in Nat
    BY <1>1
  <2>8. begin[j] = at[i] + 2
    BY <2>4, <2>7
  <2> HIDE DEF begin, Lead
  <2> QED
    BY <2>1, <2>2, <2>6, <2>8
<1> HIDE DEF begin, Lead
<1>13. ASSUME NEW i \in 1..n
       PROVE  /\ SubSeq(s, begin[i], at[i]) = T(i)
              /\ begin[i] <= at[i] + 1 /\ at[i] <= Len(s)
              /\ \A q \in begin[i]..at[i] : s[q] # "&"
  <2>1. PICK p \in Nat \ {0} : p = begin[i]
    BY <1>10
  <2>2. PICK e \in Seq(Y) : e = T(i)
    BY <1>3
  <2>3. e \in Seq(Atom) /\ Len(e) \in Nat
    BY <1>4, <2>2
  <2>4. Holds(s, p, e) /\ at[i] = p + Len(e) - 1
    BY <1>10, <2>1, <2>2
  <2>5. SubSeq(s, p, p + Len(e) - 1) = e
    BY <1>8, <2>3, <2>4, HoldsCut
  <2>6. \A q \in p..p + Len(e) - 1 : s[q] # "&"
    BY <1>2, <1>8, <2>2, <2>4, HoldsNone
  <2>7. p + Len(e) <= Len(s) + 1
    BY <2>4 DEF Holds
  <2>8. Len(s) \in Nat
    BY <1>8
  <2>9. PICK l \in Nat : l = Len(e)
    BY <2>3
  <2>10. p <= at[i] + 1 /\ at[i] <= Len(s)
    BY <2>4, <2>7, <2>8, <2>9
  <2> QED
    BY <2>1, <2>2, <2>4, <2>5, <2>6, <2>10
<1>14. PICK from : /\ FormFields(s) = from[1]
                   /\ \A p \in 1..Len(s) + 1 :
                          from[p] = IF Find(s, <<"&">>, p) = 0
                                    THEN <<FormField(SubSeq(s, p, Len(s)))>>
                                    ELSE <<FormField(SubSeq(s, p, Find(s, <<"&">>, p) - 1))>>
                                         \o from[Find(s, <<"&">>, p) + 1]
  BY <1>8, FormFieldsSteps
<1> DEFINE h == [i \in 0..n |-> IF i = n THEN <<>> ELSE from[begin[i + 1]]]
<1>15. h[n] = <<>> /\ \A i \in 0..n - 1 : h[i] = from[begin[i + 1]]
  BY <1>1
<1> HIDE DEF h
<1>16. ASSUME NEW i \in 1..n PROVE h[i - 1] = <<fields[i]>> \o h[i]
  <2>1. PICK p \in Nat \ {0} : p = begin[i]
    BY <1>10
  <2>2. PICK c \in Nat : c = at[i]
    BY <1>1
  <2>3. /\ p <= c + 1 /\ c <= Len(s) /\ \A q \in p..c : s[q] # "&"
        /\ SubSeq(s, p, c) = T(i) /\ Len(s) \in Nat
    BY <1>8, <1>13, <2>1, <2>2
  <2>4. p \in 1..Len(s) + 1
    BY <2>3
  <2>5. h[i - 1] = from[p]
    <3>1. i - 1 \in 0..n - 1 /\ (i - 1) + 1 = i
      BY <1>1
    <3> QED
      BY <1>15, <2>1, <3>1
  <2>6. CASE i = n
    <3>1. c = Len(s)
      BY <1>9, <2>2, <2>6
    <3>2. Find(s, <<"&">>, p) = 0
      BY <1>8, <2>3, <3>1, FindAtom
    <3>3. from[p] = <<FormField(T(i))>>
      BY <1>14, <2>3, <2>4, <3>1, <3>2
    <3>4. from[p] = <<fields[i]>>
      BY <1>3, <3>3
    <3>5. <<fields[i]>> \o <<>> = <<fields[i]>>
      OBVIOUS
    <3> QED
      BY <1>15, <2>5, <2>6, <3>4, <3>5
  <2>7. CASE i # n
    <3>1. i \in 1..n - 1
      BY <1>1, <2>7
    <3>2. PICK q \in Nat \ {0} : q = c + 1
      OBVIOUS
    <3>3. q <= Len(s) /\ s[q] = "&"
      BY <1>12, <2>2, <3>1, <3>2
    <3>4. q \in p..Len(s) /\ q - 1 = c
      BY <2>3, <3>2, <3>3
    <3>5. Find(s, <<"&">>, p) = q
      BY <1>8, <2>3, <3>3, <3>4, FindAtom
    <3>6. q # 0
      OBVIOUS
    <3>7. from[p] = <<FormField(SubSeq(s, p, q - 1))>> \o from[q + 1]
      BY <1>14, <2>4, <3>5, <3>6
    <3>8. from[p] = <<fields[i]>> \o from[q + 1]
      BY <1>3, <2>3, <3>4, <3>7
    <3>9. begin[i + 1] = q + 1
      <4>1. begin[i + 1] = c + 2
        BY <1>12, <2>2, <3>1
      <4> QED
        BY <3>2, <4>1
    <3>10. h[i] = from[q + 1]
      <4>1. i \in 0..n - 1
        BY <1>1, <3>1
      <4> QED
        BY <1>15, <3>9, <4>1
    <3> QED
      BY <2>5, <3>8, <3>10
  <2> QED
    BY <2>6, <2>7
<1>17. h[0] = from[1]
  <2>1. 0 \in 0..n - 1 /\ 0 + 1 = 1
    BY <1>1
  <2> QED
    BY <1>11, <1>15, <2>1
<1>18. h[0] = fields
  <2>1. h[Len(fields)] = <<>>
    BY <1>15 DEF n
  <2>2. \A i \in 1..Len(fields) : h[i - 1] = <<fields[i]>> \o h[i]
    BY <1>16 DEF n
  <2> QED
    BY <2>1, <2>2, Unrolled
<1> QED
  BY <1>5, <1>14, <1>17, <1>18

-----------------------------------------------------------------------------
(* Answers.                                                                *)

\* The marks of an answer, by name.
Opening == "{"
Closing == "}"
Colon == ":"
Delimiter == ","
Blank == " "

\* An atom as a service writes it, alone or behind a backslash.
Unit == {<<a>> : a \in Atom \ {Quote, Backslash}} \cup {<<Backslash, a>> : a \in Atom}

\* What a reader has of it.
LEMMA UnitIsText ==
    ASSUME NEW u \in Unit
    PROVE  /\ u \in Seq(Atom) /\ Last(u) \in Atom
           /\ \/ Last(u) \notin {Quote, Backslash} /\ u = <<Last(u)>>
              \/ u = <<Backslash, Last(u)>>
<1>1. Backslash \in Atom
  BY DEF Atom
<1>2. CASE \E a \in Atom \ {Quote, Backslash} : u = <<a>>
  BY <1>2 DEF Last
<1>3. CASE \E a \in Atom : u = <<Backslash, a>>
  BY <1>1, <1>3 DEF Last
<1> QED
  BY <1>2, <1>3 DEF Unit

\* The digits of a number are neither quote nor backslash.
LEMMA DigitsAreAtoms ==
    ASSUME NEW c \in DOMAIN Coded \cup Optional
    PROVE  \A d \in 1..4 : Digits(c)[d] \in Atom \ {Quote, Backslash}
<1> DEFINE Four == {"0", "1", "2", "6", "B"}
<1>1. Four \subseteq Atom \ {Quote, Backslash}
  BY DEF Atom, Quote, Backslash
<1>2. CASE c \in DOMAIN Coded
  <2>1. Digits(c) = <<"0", "0", "0", "1">>
    BY <1>2 DEF Digits, Coded
  <2> QED
    BY <1>1, <2>1
<1>3. CASE c \notin DOMAIN Coded
  <2>1. Digits(c) = <<"0", "0">> \o Hex[c]
    BY <1>3 DEF Digits
  <2>2. Hex[c] \in {<<"2", "6">>, <<"2", "B">>, <<"2", "2">>}
    <3>1. Hex["&"] = <<"2", "6">> /\ Hex["+"] = <<"2", "B">> /\ Hex[Quote] = <<"2", "2">>
      BY DEF Hex, Unsafe, Quote, Backslash
    <3> QED
      BY <1>3, <3>1 DEF Optional
  <2>3. \A x, y \in Four : \A d \in 1..4 : (<<"0", "0">> \o <<x, y>>)[d] \in Four
    OBVIOUS
  <2> QED
    BY <1>1, <2>1, <2>2, <2>3
<1> QED
  BY <1>2, <1>3

\* How a service writes a character of a text.
LEMMA CharIsUnits ==
    ASSUME NEW style, NEW c \in STRING
    PROVE  CharUnits(c, style) \in Seq(Unit)
<1>1. c \in Atom /\ Backslash \in Atom /\ "u" \in Atom
  BY DEF Atom
<1>2. CASE IsNumbered(c, style)
  <2>1. PICK rest \in [1..4 -> Unit] : rest = [d \in 1..4 |-> <<Digits(c)[d]>>]
    <3>1. \A d \in 1..4 : Digits(c)[d] \in Atom \ {Quote, Backslash}
      BY <1>2, DigitsAreAtoms DEF IsNumbered
    <3>2. \A d \in 1..4 : <<Digits(c)[d]>> \in Unit
      BY <3>1 DEF Unit
    <3> QED
      BY <3>2
  <2>2. rest \in Seq(Unit)
    BY FunctionIsSeq
  <2>3. <<Backslash, "u">> \in Unit
    BY <1>1 DEF Unit
  <2>4. << <<Backslash, "u">> >> \in Seq(Unit)
    BY <2>3
  <2>5. << <<Backslash, "u">> >> \o rest \in Seq(Unit)
    BY <2>2, <2>4, Appended
  <2> QED
    BY <1>2, <2>1, <2>5 DEF CharUnits
<1>3. CASE ~IsNumbered(c, style)
  <2>1. \A l \in DOMAIN Letter : Letter[l] \in Atom
    <3>1. \A l \in DOMAIN Letter : Letter[l] \in {"b", "f", "n", "r", "t"}
      BY DEF Letter
    <3> QED
      BY <3>1 DEF Atom
  <2>2. \A a \in Atom : <<Backslash, a>> \in Unit
    BY DEF Unit
  <2>3. c \notin {Quote, Backslash} => <<c>> \in Unit
    BY <1>1 DEF Unit
  <2>4. \A u \in Unit : <<u>> \in Seq(Unit)
    OBVIOUS
  <2>5. c \in DOMAIN Letter => <<Backslash, Letter[c]>> \in Unit
    BY <2>1, <2>2
  <2> QED
    BY <1>1, <1>3, <2>2, <2>3, <2>4, <2>5, Zenon DEF CharUnits
<1> QED
  BY <1>2, <1>3

\* How it writes a text, and how much a reader has of it.
LEMMA TextIsUnits ==
    ASSUME NEW style, NEW text \in Seq(STRING)
    PROVE  /\ Units(text, style) \in Seq(Unit)
           /\ Heard(text, style) \in Seq(Atom) /\ Len(Heard(text, style)) = Len(Units(text, style))
           /\ \A k \in 1..Len(Units(text, style)) :
                  Heard(text, style)[k] = Last(Units(text, style)[k])
<1> DEFINE parts == [i \in 1..Len(text) |-> CharUnits(text[i], style)]
           units == Units(text, style)
<1>1. \A i \in 1..Len(text) : text[i] \in STRING
  OBVIOUS
<1>2. parts \in Seq(Seq(Unit))
  <2>1. \A i \in 1..Len(text) : CharUnits(text[i], style) \in Seq(Unit)
    BY <1>1, CharIsUnits
  <2> QED
    BY <2>1
<1>3. units = FlattenSeq(parts)
  BY DEF Units
<1> HIDE DEF parts, units
<1>4. units \in Seq(Unit)
  BY <1>2, <1>3, FlattenHolds
<1>5. PICK n \in Nat : n = Len(units) /\ DOMAIN units = 1..n /\ \A k \in 1..n : units[k] \in Unit
  BY <1>4
<1>6. Heard(text, style) = [k \in 1..n |-> Last(units[k])]
  BY <1>5 DEF Heard, units
<1>7. \A k \in 1..n : Last(units[k]) \in Atom
  BY <1>5, UnitIsText
<1>8. Heard(text, style) \in Seq(Atom) /\ Len(Heard(text, style)) = n
  <2>1. Heard(text, style) \in [1..n -> Atom]
    BY <1>6, <1>7
  <2>2. DOMAIN Heard(text, style) = 1..n
    BY <1>6
  <2>3. Heard(text, style) \in Seq(Atom)
    BY <2>1, FunctionIsSeq
  <2> QED
    BY <2>2, <2>3
<1> QED
  BY <1>4, <1>5, <1>6, <1>8 DEF units

TextOf(text, style) == FlattenSeq(Units(text, style))

\* The characters of a text in s: character i from at[i - 1] on.
Spelled(s, at, text) ==
    \A i \in 1..Len(text) :
        \/ /\ text[i] \notin {Quote, Backslash} /\ s[at[i - 1]] = text[i]
           /\ at[i] = at[i - 1] + 1
        \/ /\ s[at[i - 1]] = Backslash /\ s[at[i - 1] + 1] = text[i]
           /\ at[i] = at[i - 1] + 2

\* Where a text stands, what is heard of it does.
LEMMA TextSpelled ==
    ASSUME NEW style, NEW text \in Seq(STRING), NEW s \in Seq(Atom), NEW p \in Nat \ {0},
           Holds(s, p, TextOf(text, style))
    PROVE  \E at \in [0..Len(Heard(text, style)) -> Nat \ {0}] :
               /\ at[0] = p /\ at[Len(Heard(text, style))] = p + Len(TextOf(text, style))
               /\ Spelled(s, at, Heard(text, style))
<1> DEFINE parts == Units(text, style)
           heard == Heard(text, style)
           n == Len(heard)
           w == TextOf(text, style)
<1>1. n \in Nat /\ heard \in Seq(Atom) /\ Len(parts) = n /\ parts \in Seq(Unit)
  BY TextIsUnits
<1>2. parts \in Seq(Seq(Atom))
  <2>1. Unit \subseteq Seq(Atom)
    BY UnitIsText
  <2> QED
    BY <1>1, <2>1, SeqMonotonic
<1>3. w = FlattenSeq(parts)
  BY DEF TextOf
<1>4. \A i \in 1..n : /\ parts[i] \in Seq(Atom) /\ heard[i] = Last(parts[i])
                      /\ \/ heard[i] \notin {Quote, Backslash} /\ parts[i] = <<heard[i]>>
                         \/ parts[i] = <<Backslash, heard[i]>>
  <2>1. \A i \in 1..n : parts[i] \in Unit /\ heard[i] = Last(parts[i])
    <3>1. \A i \in 1..n : heard[i] = Last(parts[i])
      BY <1>1, TextIsUnits
    <3> HIDE DEF parts, heard, n
    <3> QED
      BY <1>1, <3>1
  <2> HIDE DEF parts, heard, n
  <2> QED
    BY <2>1, UnitIsText
<1> HIDE DEF parts, n, heard
<1>5. w \in Seq(Atom)
  BY <1>2, <1>3, FlattenHolds
<1>6. PICK b \in [0..n -> Nat] :
          /\ b[0] = 0 /\ b[n] = Len(w)
          /\ \A i \in 1..n : /\ b[i] = b[i - 1] + Len(parts[i])
                             /\ Holds(w, b[i - 1] + 1, parts[i])
  <2> HIDE DEF w
  <2> QED
    BY <1>1, <1>2, <1>3, FlattenHolds
<1> HIDE DEF w
<1>7. Holds(s, p, w)
  BY DEF w
<1> DEFINE at == [i \in 0..n |-> p + b[i]]
<1>8. at \in [0..n -> Nat \ {0}] /\ \A i \in 0..n : at[i] = p + b[i]
  OBVIOUS
<1> HIDE DEF at
<1>9. at[0] = p /\ at[n] = p + Len(w)
  <2>1. 0 \in 0..n /\ n \in 0..n
    BY <1>1
  <2>2. at[0] = p + b[0] /\ at[n] = p + b[n]
    BY <1>8, <2>1
  <2> QED
    BY <1>6, <2>2
<1>10. ASSUME NEW i \in 1..n
       PROVE  \/ /\ heard[i] \notin {Quote, Backslash} /\ s[at[i - 1]] = heard[i]
                 /\ at[i] = at[i - 1] + 1
              \/ /\ s[at[i - 1]] = Backslash /\ s[at[i - 1] + 1] = heard[i]
                 /\ at[i] = at[i - 1] + 2
  <2>1. PICK a \in Nat : a = b[i - 1] /\ at[i - 1] = p + a
    <3>1. i - 1 \in 0..n
      BY <1>1
    <3>2. b[i - 1] \in Nat /\ at[i - 1] = p + b[i - 1]
      BY <1>8, <3>1
    <3> QED
      BY <3>2
  <2>2. PICK e \in Seq(Atom), l \in Nat : e = parts[i] /\ l = Len(e)
    BY <1>4
  <2>3. at[i] = p + a + l
    <3>1. b[i] = a + l
      BY <1>6, <2>1, <2>2
    <3>2. i \in 0..n
      BY <1>1
    <3> QED
      BY <1>8, <3>1, <3>2
  <2>4. Holds(w, a + 1, e)
    BY <1>6, <2>1, <2>2
  <2>5. a + 1 + l <= Len(w) + 1 /\ \A k \in 1..l : w[a + 1 + k - 1] = e[k]
    BY <2>2, <2>4 DEF Holds
  <2>6. p + Len(w) <= Len(s) + 1 /\ \A k \in 1..Len(w) : s[p + k - 1] = w[k]
    BY <1>7 DEF Holds
  <2>7. Len(w) \in Nat
    BY <1>5
  <2>8. ASSUME NEW k \in 1..l PROVE s[p + a + k - 1] = e[k]
    <3>1. PICK m \in 1..Len(w) : m = a + k /\ a + 1 + k - 1 = m /\ p + a + k - 1 = p + m - 1
      BY <2>5, <2>7
    <3>2. s[p + m - 1] = w[m] /\ w[m] = e[k]
      BY <2>5, <2>6, <3>1
    <3> QED
      BY <3>1, <3>2
  <2>9. CASE heard[i] \notin {Quote, Backslash} /\ e = <<heard[i]>>
    <3>1. l = 1 /\ e[1] = heard[i]
      BY <2>2, <2>9
    <3>2. s[p + a + 1 - 1] = e[1]
      BY <2>8, <3>1
    <3>3. p + a + 1 - 1 = p + a
      OBVIOUS
    <3> QED
      BY <2>1, <2>3, <2>9, <3>1, <3>2, <3>3
  <2>10. CASE e = <<Backslash, heard[i]>>
    <3>1. l = 2 /\ e[1] = Backslash /\ e[2] = heard[i]
      BY <2>2, <2>10
    <3>2. s[p + a + 1 - 1] = e[1] /\ s[p + a + 2 - 1] = e[2]
      BY <2>8, <3>1
    <3>3. p + a + 1 - 1 = p + a /\ p + a + 2 - 1 = p + a + 1
      OBVIOUS
    <3> QED
      BY <2>1, <2>3, <3>1, <3>2, <3>3
  <2> QED
    BY <1>4, <2>2, <2>9, <2>10
<1> QED
  BY <1>8, <1>9, <1>10 DEF n, w, heard, Spelled

\* The way through the characters of a text: what is left of it, and how far it goes.
IsReading(s, end, value) ==
    \A p \in 1..Len(s) + 2 :
        /\ end[p] = IF p > Len(s) \/ s[p] = Quote THEN p ELSE end[p + ValueWidth(s, p)]
        /\ value[p] = IF p > Len(s) \/ s[p] = Quote THEN <<>>
                      ELSE <<s[p + ValueWidth(s, p) - 1]>> \o value[p + ValueWidth(s, p)]

\* What the reading of a value does at each place.
LEMMA ValueSteps ==
    ASSUME NEW s \in Seq(Atom), NEW key
    PROVE  \E end, value :
               /\ IsReading(s, end, value)
               /\ LET colon == ColonAfter(s, key)
                      start == Find(s, <<Quote>>, colon + 1) + 1
                  IN ExtractJsonStringValue(s, key) =
                         IF colon = 0 \/ start = 1 \/ end[start] > Len(s) THEN <<>> ELSE value[start]
<1> DEFINE N == Len(s) + 2
           D == 1..N
           IsEnd(f) == f = [p \in D |-> IF p > Len(s) \/ s[p] = Quote THEN p ELSE f[p + ValueWidth(s, p)]]
           IsValue(f) == f = [p \in D |->
               IF p > Len(s) \/ s[p] = Quote THEN <<>>
               ELSE <<s[p + ValueWidth(s, p) - 1]>> \o f[p + ValueWidth(s, p)]]
           end == CHOOSE f : IsEnd(f)
           value == CHOOSE f : IsValue(f)
           rank == [p \in D |-> N - p]
           last == {p \in D : p > Len(s) \/ s[p] = Quote}
           none == {}
           place == [p \in D |-> p]
           piece == [p \in D |-> IF p \in last THEN <<>> ELSE <<s[p + ValueWidth(s, p) - 1]>>]
           next == [p \in D |-> p + ValueWidth(s, p)]
           Pieces == {piece[p] : p \in D}
           Places == {next[p] : p \in D}
<1>1. LET colon == ColonAfter(s, key)
          start == Find(s, <<Quote>>, colon + 1) + 1
      IN ExtractJsonStringValue(s, key) =
             IF colon = 0 \/ start = 1 \/ end[start] > Len(s) THEN <<>> ELSE value[start]
  BY Zenon DEF ExtractJsonStringValue
<1>2. N \in Nat /\ rank \in [D -> 0..N] /\ last \in SUBSET D /\ none \in SUBSET D /\ D \in SUBSET D
  OBVIOUS
<1>3. piece \in [D -> Pieces] /\ place \in [D -> D] /\ next \in [D -> Places]
  OBVIOUS
<1>4. ASSUME NEW p \in D \ last PROVE next[p] \in D /\ rank[next[p]] < rank[p]
  <2>1. p \in Nat /\ p <= Len(s) /\ ValueWidth(s, p) \in {1, 2} /\ Len(s) \in Nat
    BY DEF ValueWidth
  <2>2. p + ValueWidth(s, p) \in D
    BY <2>1
  <2> QED
    BY <2>1, <2>2
<1> HIDE DEF Pieces, Places
<1>5. PICK g : IsRecursive(g, D, last, D, none, place, next)
  <2> HIDE DEF D, N, last, none, place, next, rank
  <2> QED
    BY <1>2, <1>3, <1>4, Recursion
<1>6. PICK h : IsRecursive(h, D, last, none, none, piece, next)
  <2> HIDE DEF D, N, last, none, piece, next, rank
  <2> QED
    BY <1>2, <1>3, <1>4, Recursion
<1>7. IsEnd(g)
  <2>1. \A p \in D : g[p] = IF p > Len(s) \/ s[p] = Quote THEN p ELSE g[p + ValueWidth(s, p)]
    BY <1>5 DEF IsRecursive
  <2>2. g = [p \in D |-> g[p]]
    BY <1>5 DEF IsRecursive
  <2> QED
    BY <2>1, <2>2
<1>8. IsValue(h)
  <2>1. \A p \in D : h[p] = IF p > Len(s) \/ s[p] = Quote THEN <<>>
                            ELSE <<s[p + ValueWidth(s, p) - 1]>> \o h[p + ValueWidth(s, p)]
    BY <1>6 DEF IsRecursive
  <2>2. h = [p \in D |-> h[p]]
    BY <1>6 DEF IsRecursive
  <2> QED
    BY <2>1, <2>2
<1> HIDE DEF IsEnd, IsValue
<1>9. IsEnd(end) /\ IsValue(value)
  BY <1>7, <1>8
<1> HIDE DEF end, value
<1>10. \A p \in D : end[p] = IF p > Len(s) \/ s[p] = Quote THEN p ELSE end[p + ValueWidth(s, p)]
  BY <1>9 DEF IsEnd
<1>11. \A p \in D : value[p] = IF p > Len(s) \/ s[p] = Quote THEN <<>>
                               ELSE <<s[p + ValueWidth(s, p) - 1]>> \o value[p + ValueWidth(s, p)]
  BY <1>9 DEF IsValue
<1>12. IsReading(s, end, value)
  BY <1>10, <1>11 DEF IsReading
<1> QED
  BY <1>1, <1>12

\* A text up to its quote is read as it was.
LEMMA TextIsRead ==
    ASSUME NEW s \in Seq(Atom), NEW text \in Seq(Atom), NEW end, NEW value,
           IsReading(s, end, value),
           NEW at \in [0..Len(text) -> Nat \ {0}], Spelled(s, at, text),
           at[Len(text)] <= Len(s), s[at[Len(text)]] = Quote
    PROVE  end[at[0]] = at[Len(text)] /\ value[at[0]] = text
<1>0. PICK q : q = at[Len(text)] /\ q <= Len(s) /\ s[q] = Quote
  OBVIOUS
<1> USE <1>0
<1> DEFINE n == Len(text)
           h == [i \in 0..n |-> value[at[i]]]
           e == [i \in 0..n |-> end[at[n - i]]]
           V == [i \in 0..n |-> {q}]
           S == {i \in Nat : i <= n => at[n - i] <= q}
<1>1. n \in Nat /\ q \in Nat \ {0} /\ Len(s) \in Nat
  OBVIOUS
<1> HIDE DEF n
<1>2. \A i \in 1..n : i \in 0..n /\ i - 1 \in 0..n /\ at[i] \in Nat \ {0} /\ at[i - 1] \in Nat \ {0}
  BY <1>1 DEF n
<1>3. \A i \in 1..n :
        \/ /\ text[i] \notin {Quote, Backslash} /\ s[at[i - 1]] = text[i]
           /\ at[i] = at[i - 1] + 1
        \/ /\ s[at[i - 1]] = Backslash /\ s[at[i - 1] + 1] = text[i]
           /\ at[i] = at[i - 1] + 2
  BY DEF Spelled, n
<1>4. \A i \in 0..n : at[i] <= q
  <2>1. 0 \in S
    BY <1>1 DEF n
  <2>2. ASSUME NEW i \in S PROVE i + 1 \in S
    <3> SUFFICES ASSUME i + 1 <= n PROVE at[n - (i + 1)] <= q
      OBVIOUS
    <3>1. PICK j \in 1..n : j = n - i /\ j - 1 = n - (i + 1)
      BY <1>1
    <3>2. at[j] <= q
      BY <1>1, <3>1
    <3>3. PICK a \in Nat, b \in Nat : a = at[j - 1] /\ b = at[j]
      BY <1>2
    <3>4. b = a + 1 \/ b = a + 2
      BY <1>3, <3>3
    <3>5. a <= q
      BY <1>1, <3>2, <3>3, <3>4
    <3> QED
      BY <3>1, <3>3, <3>5
  <2> HIDE DEF S
  <2>3. Nat \subseteq S
    BY <2>1, <2>2, Induction
  <2> SUFFICES ASSUME NEW i \in 0..n PROVE at[i] <= q
    OBVIOUS
  <2>4. PICK j \in Nat : j = n - i /\ j <= n /\ n - j = i
    BY <1>1
  <2>5. at[n - j] <= q
    BY <2>3, <2>4 DEF S
  <2> QED
    BY <2>4, <2>5
<1>5. ASSUME NEW i \in 1..n
      PROVE  value[at[i - 1]] = <<text[i]>> \o value[at[i]] /\ end[at[i - 1]] = end[at[i]]
  <2>1. PICK a \in Nat \ {0}, b \in Nat \ {0} : a = at[i - 1] /\ b = at[i]
    BY <1>2
  <2>2. b = a + 1 \/ b = a + 2
    BY <1>3, <2>1
  <2>3. b <= q
    BY <1>2, <1>4, <2>1
  <2>4. a \in 1..Len(s) + 2 /\ ~(a > Len(s))
    BY <1>1, <2>2, <2>3
  <2>5. s[a] # Quote /\ b = a + ValueWidth(s, a) /\ s[b - 1] = text[i]
    <3>1. Quote # Backslash
      BY DEF Quote, Backslash
    <3>2. CASE text[i] \notin {Quote, Backslash} /\ s[a] = text[i] /\ b = a + 1
      <4>1. b - 1 = a /\ ValueWidth(s, a) = 1
        BY <3>2 DEF ValueWidth
      <4> QED
        BY <3>2, <4>1
    <3>3. CASE s[a] = Backslash /\ s[a + 1] = text[i] /\ b = a + 2
      <4>1. b - 1 = a + 1 /\ ValueWidth(s, a) = 2
        BY <3>3 DEF ValueWidth
      <4> QED
        BY <3>1, <3>3, <4>1
    <3> QED
      BY <1>3, <2>1, <3>2, <3>3
  <2>6. end[a] = end[b] /\ value[a] = <<s[b - 1]>> \o value[b]
    <3>1. /\ end[a] = IF a > Len(s) \/ s[a] = Quote THEN a ELSE end[a + ValueWidth(s, a)]
          /\ value[a] = IF a > Len(s) \/ s[a] = Quote THEN <<>>
                        ELSE <<s[a + ValueWidth(s, a) - 1]>> \o value[a + ValueWidth(s, a)]
      BY <2>4, Zenon DEF IsReading
    <3>2. PICK w \in 1..2 : w = ValueWidth(s, a)
      BY DEF ValueWidth
    <3>3. s[a] # Quote /\ ~(a > Len(s)) /\ a + w = b
      BY <2>4, <2>5, <3>2
    <3>4. end[a] = end[a + w] /\ value[a] = <<s[a + w - 1]>> \o value[a + w]
      BY <3>1, <3>2, <3>3, Zenon
    <3>5. a + w - 1 = b - 1
      BY <3>3
    <3> QED
      BY <3>3, <3>4, <3>5
  <2> QED
    BY <2>1, <2>5, <2>6
<1>6. end[q] = q /\ value[q] = <<>>
  <2>1. q \in 1..Len(s) + 2
    BY <1>1
  <2> QED
    BY <2>1 DEF IsReading
<1>7. value[at[0]] = text
  <2>1. h[n] = <<>> /\ h[0] = value[at[0]]
    BY <1>1, <1>6 DEF n
  <2>2. \A i \in 1..n : h[i - 1] = <<text[i]>> \o h[i]
    BY <1>2, <1>5
  <2> HIDE DEF h
  <2>3. h[0] = text
    BY <2>1, <2>2, Unrolled DEF n
  <2> QED
    BY <2>1, <2>3
<1>8. end[at[0]] = q
  <2>1. \A i \in 0..n : V[i] = {q} /\ e[i] = end[at[n - i]]
    OBVIOUS
  <2>2. \A i \in 1..n : V[i] = {q} /\ V[i - 1] = {q}
    BY <1>2, <2>1
  <2>3. e[0] \in V[0]
    <3>1. 0 \in 0..n /\ n - 0 = n
      BY <1>1
    <3> QED
      BY <1>6, <2>1, <3>1 DEF n
  <2>4. ASSUME NEW i \in 1..n PROVE e[i] = e[i - 1]
    <3>1. PICK j \in 1..n : j = n - (i - 1) /\ j - 1 = n - i
      BY <1>1
    <3>2. e[i] = end[at[j - 1]] /\ e[i - 1] = end[at[j]]
      BY <1>2, <2>1, <3>1
    <3> QED
      BY <1>5, <3>2
  <2> HIDE DEF e, V
  <2>5. \A i \in 0..n : e[i] \in V[i]
    <3>1. \A i \in 1..n : e[i - 1] \in V[i - 1] => e[i] \in V[i]
      BY <2>2, <2>4
    <3> QED
      BY <1>1, <2>3, <3>1, Typed
  <2>6. n \in 0..n /\ n - n = 0
    BY <1>1
  <2>7. e[n] = end[at[0]] /\ e[n] = q
    BY <2>1, <2>5, <2>6
  <2> QED
    BY <2>7
<1> QED
  BY <1>7, <1>8

\* A text that stands somewhere is read as it is heard.
LEMMA HeldTextIsRead ==
    ASSUME NEW style, NEW s \in Seq(Atom), NEW text \in Seq(STRING), NEW c \in Nat \ {0}, NEW d,
           Holds(s, c, TextOf(text, style)), d = c + Len(TextOf(text, style)),
           d <= Len(s), s[d] = Quote,
           NEW end, NEW value, IsReading(s, end, value)
    PROVE  end[c] = d /\ value[c] = Heard(text, style)
<1> DEFINE heard == Heard(text, style)
<1>1. PICK at \in [0..Len(heard) -> Nat \ {0}] :
          at[0] = c /\ at[Len(heard)] = d /\ Spelled(s, at, heard)
  BY TextSpelled
<1>2. at[Len(heard)] <= Len(s) /\ s[at[Len(heard)]] = Quote
  BY <1>1
<1>3. heard \in Seq(Atom)
  BY TextIsUnits
<1> HIDE DEF heard
<1>4. end[at[0]] = at[Len(heard)] /\ value[at[0]] = heard
  BY <1>1, <1>2, <1>3, TextIsRead
<1> QED
  BY <1>1, <1>4 DEF heard

\* Numbers that grow from each to the next.
LEMMA Growing ==
    ASSUME NEW n \in Nat, NEW at \in [0..n -> Nat], \A i \in 1..n : at[i - 1] < at[i],
           NEW i \in 0..n, NEW j \in 0..n, i <= j
    PROVE  at[i] <= at[j]
<1> DEFINE S == {k \in Nat : i + k <= n => at[i] <= at[i + k]}
<1>1. 0 \in S
  OBVIOUS
<1>2. ASSUME NEW k \in S PROVE k + 1 \in S
  <2> SUFFICES ASSUME i + (k + 1) <= n PROVE at[i] <= at[i + (k + 1)]
    OBVIOUS
  <2>1. PICK l \in 1..n : l = i + (k + 1) /\ l - 1 = i + k
    OBVIOUS
  <2>2. at[i] <= at[l - 1] /\ at[l - 1] < at[l]
    BY <2>1
  <2>3. at[i] \in Nat /\ at[l - 1] \in Nat /\ at[l] \in Nat
    BY <2>1
  <2> QED
    BY <2>1, <2>2, <2>3
<1> HIDE DEF S
<1>3. Nat \subseteq S
  BY <1>1, <1>2, Induction
<1>4. PICK k \in Nat : j = i + k
  <2>1. j - i \in Nat /\ j = i + (j - i)
    OBVIOUS
  <2> QED
    BY <2>1
<1>5. k \in S
  BY <1>3
<1> QED
  BY <1>4, <1>5 DEF S

\* A place before the last of growing numbers lies between two that follow each other.
LEMMA Between ==
    ASSUME NEW n \in Nat, NEW at \in [0..n -> Nat], NEW p \in Nat, at[0] <= p, p < at[n]
    PROVE  \E i \in 1..n : at[i - 1] <= p /\ p < at[i]
<1> DEFINE S == {i \in 0..n : p < at[i]}
<1>1. S \subseteq Nat /\ n \in S
  OBVIOUS
<1>2. PICK i \in S : \A j \in S : i <= j
  BY <1>1, LeastNumber
<1>3. i \in 1..n
  <2>1. i \in 0..n /\ p < at[i]
    BY <1>2
  <2>2. at[0] \in Nat
    OBVIOUS
  <2>3. i # 0
    BY <2>1, <2>2
  <2> QED
    BY <2>1, <2>3
<1>4. PICK j \in 0..n : j = i - 1 /\ j < i
  BY <1>3
<1>5. j \notin S
  BY <1>2, <1>3, <1>4
<1>6. at[j] \in Nat /\ ~(p < at[j])
  BY <1>4, <1>5
<1> QED
  BY <1>2, <1>3, <1>4, <1>6

\* Inside a text a word between quotes is the last one, alone or behind a quote.
LEMMA TextHasKey ==
    ASSUME NEW s, NEW text \in Seq(Atom),
           NEW at \in [0..Len(text) -> Nat \ {0}], Spelled(s, at, text),
           s[at[Len(text)]] = Quote,
           NEW key, key \notin {Quote, Backslash},
           NEW q \in Nat, at[0] <= q + 1, q < at[Len(text)],
           s[q] = Quote, s[q + 1] = key, s[q + 2] = Quote
    PROVE  EndsInKey(text, {key})
<1> DEFINE n == Len(text)
<1>1. n \in Nat /\ Quote # Backslash
  <2>1. Quote # Backslash
    BY DEF Quote, Backslash
  <2> QED
    BY <2>1
<1>2. \A i \in 1..n :
        \/ /\ text[i] \notin {Quote, Backslash} /\ s[at[i - 1]] = text[i]
           /\ at[i] = at[i - 1] + 1
        \/ /\ s[at[i - 1]] = Backslash /\ s[at[i - 1] + 1] = text[i]
           /\ at[i] = at[i - 1] + 2
  BY DEF Spelled
<1> HIDE DEF n
<1>3. \A i \in 1..n : s[at[i - 1]] # Quote
  BY <1>1, <1>2
<1>4. \A i \in 0..n : at[i] \in Nat \ {0}
  BY DEF n
<1>5. PICK p \in Nat : p = q + 1 /\ q = p - 1
  OBVIOUS
<1>6. p < at[n]
  <2>1. at[n] \in Nat
    BY <1>1, <1>4
  <2>2. p # at[n]
    BY <1>5 DEF n
  <2>3. q < at[n]
    BY DEF n
  <2> QED
    BY <1>5, <2>1, <2>2, <2>3
<1>7. PICK i \in 1..n : at[i - 1] <= p /\ p < at[i]
  <2>1. at \in [0..n -> Nat] /\ at[0] <= p
    BY <1>5 DEF n
  <2> QED
    BY <1>1, <1>6, <2>1, Between
<1>8. PICK a \in Nat \ {0}, b \in Nat \ {0} : a = at[i - 1] /\ b = at[i]
  <2>1. i - 1 \in 0..n /\ i \in 0..n
    BY <1>1
  <2> QED
    BY <1>4, <2>1
<1>9. CASE text[i] \notin {Quote, Backslash} /\ s[a] = text[i] /\ b = a + 1
  <2>1. p = a /\ text[i] = key /\ b = q + 2
    BY <1>5, <1>7, <1>8, <1>9
  <2>2. i = n
    <3> SUFFICES ASSUME i # n PROVE FALSE
      OBVIOUS
    <3>1. PICK j \in 1..n : j = i + 1 /\ j - 1 = i
      BY <1>1
    <3> QED
      BY <1>3, <1>8, <2>1, <3>1
  <2>3. CASE i = 1
    BY <1>1, <2>1, <2>2, <2>3 DEF EndsInKey, n
  <2>4. CASE i # 1
    <3>1. PICK j \in 1..n : j = i - 1 /\ j - 1 \in 0..n
      BY <1>1, <2>4
    <3>2. PICK c \in Nat \ {0} : c = at[j - 1]
      BY <1>4, <3>1
    <3>3. text[j] = Quote
      <4>1. CASE text[j] \notin {Quote, Backslash} /\ s[c] = text[j] /\ a = c + 1
        <5>1. c = q
          BY <1>5, <2>1, <4>1
        <5> QED
          BY <4>1, <5>1
      <4>2. CASE s[c] = Backslash /\ s[c + 1] = text[j] /\ a = c + 2
        <5>1. c + 1 = q
          BY <1>5, <2>1, <4>2
        <5> QED
          BY <4>2, <5>1
      <4> QED
        BY <1>2, <1>8, <3>1, <3>2, <4>1, <4>2
    <3> QED
      BY <1>1, <2>1, <2>2, <3>1, <3>3 DEF EndsInKey, n
  <2> QED
    BY <2>3, <2>4
<1>10. CASE s[a] = Backslash /\ s[a + 1] = text[i] /\ b = a + 2
  <2>1. p = a \/ p = a + 1
    BY <1>7, <1>8, <1>10
  <2>2. p # a
    BY <1>5, <1>10
  <2>3. q = a
    BY <1>5, <2>1, <2>2
  <2> QED
    BY <1>1, <1>10, <2>3
<1> QED
  BY <1>2, <1>8, <1>9, <1>10

\* What a text is written with.
LEMMA TextIsText ==
    ASSUME NEW style, NEW text \in Seq(STRING)
    PROVE  TextOf(text, style) \in Seq(Atom)
<1>1. PICK units \in Seq(Unit) : units = Units(text, style)
  BY TextIsUnits
<1>2. Unit \subseteq Seq(Atom)
  BY UnitIsText
<1>3. units \in Seq(Seq(Atom))
  BY <1>2, SeqMonotonic
<1> QED
  BY <1>1, <1>3, FlattenHolds DEF TextOf

\* A string's value in s, from place b up to e.
HasText(s, b, e, text, style) ==
    /\ s[b] = Quote /\ Holds(s, b + 1, TextOf(text, style))
    /\ e - 1 = b + 1 + Len(TextOf(text, style)) /\ e - 1 <= Len(s) /\ s[e - 1] = Quote

\* One atom.
LEMMA OneOf == ASSUME NEW X, NEW a \in X PROVE <<a>> \in Seq(X) /\ Len(<<a>>) = 1 /\ <<a>>[1] = a
OBVIOUS

\* A value stands where it is written.
LEMMA ValuePlaced ==
    ASSUME NEW style, NEW v \in JsonValue
    PROVE  /\ ValueText(v, style) \in Seq(Atom)
           /\ \A s \in Seq(Atom), b \in Nat \ {0} :
                  LET e == b + Len(ValueText(v, style))
                  IN Holds(s, b, ValueText(v, style)) =>
                         /\ v.kind = "string" => HasText(s, b, e, v.text, style)
                         /\ v.kind # "string" => \A q \in b..e - 1 : s[q] # Quote
<1>1. Quote \in Atom /\ "null" \in Atom /\ Opening \in Atom /\ Quote # "null" /\ Quote # Opening
  BY DEF Atom, Quote, Opening
<1>2. CASE v.kind = "string"
  <2>1. PICK body \in Seq(Atom) : body = TextOf(v.text, style)
    <3>1. v.text \in Seq(STRING)
      BY <1>2 DEF JsonValue
    <3> QED
      BY <3>1, TextIsText
  <2>2. PICK u \in Seq(Atom) : u = <<Quote>> /\ Len(u) = 1
    BY <1>1, OneOf
  <2>3. PICK w \in Seq(Atom) : w = u \o body
    BY Appended
  <2>4. ValueText(v, style) = w \o u
    BY <1>2, <2>1, <2>2, <2>3 DEF ValueText, TextOf
  <2>5. PICK l \in Nat : l = Len(body)
    BY <2>1
  <2>6. w \o u \in Seq(Atom) /\ Len(w) = l + 1 /\ Len(w \o u) = l + 2
    <3>1. Len(w) = Len(u) + Len(body)
      BY <2>3, Appended
    <3>2. Len(w) = l + 1
      BY <2>2, <2>5, <3>1
    <3>3. Len(w \o u) = Len(w) + Len(u) /\ w \o u \in Seq(Atom)
      BY Appended
    <3> QED
      BY <2>2, <3>2, <3>3
  <2>7. ASSUME NEW s \in Seq(Atom), NEW b \in Nat \ {0}, Holds(s, b, w \o u)
        PROVE  HasText(s, b, b + (l + 2), v.text, style)
    <3>1. PICK c \in Nat \ {0}, d \in Nat \ {0} : c = b + 1 /\ d = c + l /\ d = b + (l + 1)
      OBVIOUS
    <3>2. Holds(s, b, w) /\ Holds(s, d, u)
      <4>1. Holds(s, b, w) /\ Holds(s, b + Len(w), u)
        BY <2>7, HoldsTwo
      <4> QED
        BY <2>6, <3>1, <4>1
    <3>3. Holds(s, b, u) /\ Holds(s, c, body)
      BY <2>2, <2>3, <3>1, <3>2, HoldsTwo
    <3>4. s[b] = Quote /\ s[d] = Quote /\ d <= Len(s)
      BY <1>1, <2>2, <3>2, <3>3, HoldsOne
    <3>5. b + (l + 2) - 1 = d
      BY <3>1
    <3> QED
      BY <2>1, <2>5, <3>1, <3>3, <3>4, <3>5 DEF HasText
  <2> QED
    BY <1>2, <2>4, <2>6, <2>7
<1>3. ASSUME NEW t \in Seq(Atom \ {Quote}), ValueText(v, style) = t, v.kind # "string"
      PROVE  /\ t \in Seq(Atom)
             /\ \A s \in Seq(Atom), b \in Nat \ {0} :
                    Holds(s, b, t) => \A q \in b..b + Len(t) - 1 : s[q] # Quote
  <2>1. t \in Seq(Atom)
    BY SeqMonotonic
  <2>2. Quote \notin Atom \ {Quote}
    OBVIOUS
  <2>3. ASSUME NEW s \in Seq(Atom), NEW b \in Nat \ {0}, Holds(s, b, t),
               NEW q \in b..b + Len(t) - 1
        PROVE  s[q] # Quote
    BY <2>2, <2>3, HoldsNone
  <2> QED
    BY <2>1, <2>3
<1>4. CASE v.kind # "string"
  <2>1. ValueText(v, style) \in Seq(Atom \ {Quote})
    <3>1. CASE v.kind = "number"
      <4>1. v.text \in Seq(STRING \ {Quote})
        BY <3>1 DEF JsonValue
      <4>2. STRING \ {Quote} \subseteq Atom \ {Quote}
        BY DEF Atom
      <4>3. v.text \in Seq(Atom \ {Quote})
        BY <4>1, <4>2, SeqMonotonic
      <4> QED
        BY <3>1, <4>3 DEF ValueText
    <3>2. CASE v.kind = "null"
      <4>1. "null" \in Atom \ {Quote}
        BY <1>1
      <4> QED
        BY <3>2, <4>1, OneOf DEF ValueText
    <3>3. CASE v.kind = "object"
      <4>1. Opening \in Atom \ {Quote}
        BY <1>1
      <4> QED
        BY <3>3, <4>1, OneOf DEF ValueText, Opening
    <3> QED
      BY <1>4, <3>1, <3>2, <3>3 DEF JsonValue
  <2> QED
    BY <1>3, <1>4, <2>1
<1> QED
  BY <1>2, <1>4

\* A member in s, from place p up to e.
Placed(s, p, e, m, style) ==
    IF m = End THEN s[p] = Closing /\ e = p + 1
    ELSE /\ s[p] = Quote /\ s[p + 1] = m.key /\ s[p + 2] = Quote /\ s[p + 3] = Colon
         /\ \E b \in p + 4..p + 5 :
                /\ b = p + 5 => s[p + 4] = Blank
                /\ b <= e
                /\ m.value.kind = "string" => HasText(s, b, e, m.value.text, style)
                /\ m.value.kind # "string" => \A q \in b..e - 1 : s[q] # Quote

Member == [key : Words, value : JsonValue] \cup {End}

\* What a service writes for a member.
LEMMA MemberPlaced ==
    ASSUME NEW style, NEW m \in Member
    PROVE  /\ MemberText(m, style) \in Seq(Atom)
           /\ \A s \in Seq(Atom), p \in Nat \ {0} :
                  Holds(s, p, MemberText(m, style)) =>
                      Placed(s, p, p + Len(MemberText(m, style)), m, style)
<1>1. Quote \in Atom /\ Closing \in Atom /\ Colon \in Atom /\ Blank \in Atom
  BY DEF Atom, Closing, Colon, Blank
<1>2. CASE m = End
  <2>1. PICK t \in Seq(Atom) : t = <<Closing>> /\ Len(t) = 1
    BY <1>1, OneOf
  <2>3. MemberText(m, style) = t
    BY <1>2, <2>1 DEF MemberText, Closing
  <2>2. ASSUME NEW s \in Seq(Atom), NEW p \in Nat \ {0}, Holds(s, p, t)
        PROVE  Placed(s, p, p + 1, m, style)
    <3>1. Holds(s, p, <<Closing>>)
      BY <2>1, <2>2
    <3>2. s[p] = Closing
      BY <1>1, <3>1, HoldsOne
    <3> QED
      BY <1>2, <3>2 DEF Placed
  <2> QED
    BY <2>1, <2>2, <2>3
<1>3. CASE m # End
  <2>1. m.key \in Atom /\ m.value \in JsonValue
    BY <1>3 DEF Member, Words, Atom
  <2>2. PICK head \in Seq(Atom) :
            /\ head = <<Quote, m.key, Quote, Colon>> /\ Len(head) = 4
            /\ head[1] = Quote /\ head[2] = m.key /\ head[3] = Quote /\ head[4] = Colon
    <3>1. \A a, b, c, d \in Atom :
              /\ <<a, b, c, d>> \in Seq(Atom) /\ Len(<<a, b, c, d>>) = 4
              /\ <<a, b, c, d>>[1] = a /\ <<a, b, c, d>>[2] = b
              /\ <<a, b, c, d>>[3] = c /\ <<a, b, c, d>>[4] = d
      OBVIOUS
    <3>2. PICK a \in Atom, b \in Atom, c \in Atom : a = Quote /\ b = m.key /\ c = Colon
      BY <1>1, <2>1
    <3>3. /\ <<a, b, a, c>> \in Seq(Atom) /\ Len(<<a, b, a, c>>) = 4
          /\ <<a, b, a, c>>[1] = a /\ <<a, b, a, c>>[2] = b
          /\ <<a, b, a, c>>[3] = a /\ <<a, b, a, c>>[4] = c
      BY <3>1, Zenon
    <3> QED
      BY <3>2, <3>3, Zenon
  <2>3. PICK gap \in Seq(Atom), g \in 0..1 :
            /\ gap = IF style.blank THEN <<Blank>> ELSE <<>>
            /\ g = Len(gap) /\ (g = 1 => gap = <<Blank>>)
    <3> DEFINE gap == IF style.blank THEN <<Blank>> ELSE <<>>
    <3>1. gap = <<Blank>> \/ gap = <<>>
      OBVIOUS
    <3>2. gap \in Seq(Atom) /\ Len(gap) \in 0..1 /\ (Len(gap) = 1 => gap = <<Blank>>)
      <4>1. gap = <<Blank>> => gap \in Seq(Atom) /\ Len(gap) = 1
        BY <1>1, OneOf
      <4>2. gap = <<>> => gap \in Seq(Atom) /\ Len(gap) = 0
        OBVIOUS
      <4>3. 0 \in 0..1 /\ 1 \in 0..1 /\ 0 # 1
        OBVIOUS
      <4> HIDE DEF gap
      <4> QED
        BY <3>1, <4>1, <4>2, <4>3, Zenon
    <3> QED
      BY <3>2
  <2>4. PICK v \in Seq(Atom), l \in Nat : v = ValueText(m.value, style) /\ l = Len(v)
    BY <2>1, ValuePlaced
  <2>5. PICK w \in Seq(Atom) : w = head \o gap
    BY Appended
  <2>6. MemberText(m, style) = w \o v
    BY <1>3, <2>2, <2>3, <2>4, <2>5 DEF MemberText, Colon, Blank
  <2>7. w \o v \in Seq(Atom) /\ Len(w) = 4 + g /\ Len(w \o v) = 4 + g + l
    <3>1. Len(w) = Len(head) + Len(gap)
      BY <2>5, Appended
    <3>2. Len(w \o v) = Len(w) + Len(v) /\ w \o v \in Seq(Atom)
      BY Appended
    <3> QED
      BY <2>2, <2>3, <2>4, <3>1, <3>2
  <2>8. ASSUME NEW s \in Seq(Atom), NEW p \in Nat \ {0}, Holds(s, p, w \o v)
        PROVE  Placed(s, p, p + (4 + g + l), m, style)
    <3>1. PICK b \in Nat \ {0}, c \in Nat \ {0} : c = p + 4 /\ b = c + g /\ b = p + (4 + g)
      OBVIOUS
    <3>2. Holds(s, p, w) /\ Holds(s, b, v)
      BY <2>7, <2>8, <3>1, HoldsTwo
    <3>3. Holds(s, p, head) /\ Holds(s, c, gap)
      <4>1. Holds(s, p, head) /\ Holds(s, p + Len(head), gap)
        BY <2>5, <3>2, HoldsTwo
      <4> QED
        BY <2>2, <3>1, <4>1
    <3>4. s[p] = Quote /\ s[p + 1] = m.key /\ s[p + 2] = Quote /\ s[p + 3] = Colon
      <4>1. \A k \in 1..4 : s[p + k - 1] = head[k]
        BY <2>2, <3>3 DEF Holds
      <4>2. s[p + 1 - 1] = head[1] /\ s[p + 2 - 1] = head[2] /\ s[p + 3 - 1] = head[3]
            /\ s[p + 4 - 1] = head[4]
        BY <4>1
      <4>3. p + 1 - 1 = p /\ p + 2 - 1 = p + 1 /\ p + 3 - 1 = p + 2 /\ p + 4 - 1 = p + 3
        OBVIOUS
      <4> QED
        BY <2>2, <4>2, <4>3
    <3>5. b = p + 5 => s[p + 4] = Blank
      <4>1. b = p + 5 => g = 1
        BY <3>1
      <4>2. ASSUME g = 1 PROVE s[c] = Blank
        <5>1. Holds(s, c, <<Blank>>)
          BY <2>3, <3>3, <4>2
        <5> QED
          BY <1>1, <5>1, HoldsOne
      <4> QED
        BY <3>1, <4>1, <4>2
    <3>6. PICK e \in Nat : e = b + l /\ e = p + (4 + g + l)
      BY <3>1
    <3>7. /\ m.value.kind = "string" => HasText(s, b, e, m.value.text, style)
          /\ m.value.kind # "string" => \A q \in b..e - 1 : s[q] # Quote
      BY <2>1, <2>4, <3>2, <3>6, ValuePlaced
    <3>8. b \in p + 4..p + 5 /\ b <= e
      BY <3>1, <3>6
    <3>9. Placed(s, p, e, m, style)
      BY <1>3, <3>4, <3>5, <3>7, <3>8 DEF Placed
    <3> QED
      BY <3>6, <3>9
  <2> QED
    BY <2>6, <2>7, <2>8
<1> QED
  BY <1>2, <1>3

\* The members of an answer in s: member i from at[i - 1] up to at[i], behind the comma
\* from from[i] on.
Arranged(s, at, from, answer, style) ==
    /\ at[0] = 2 /\ at[Len(answer)] = Len(s) /\ s[1] = Opening /\ s[Len(s)] = Closing
    /\ \A i \in 1..Len(answer) :
           /\ from[i] = at[i - 1] \/ (from[i] = at[i - 1] + 1 /\ s[at[i - 1]] = Delimiter)
           /\ from[i] < at[i] /\ at[i] <= Len(s)
           /\ Placed(s, from[i], at[i], answer[i], style)

\* An answer that is written has its members.
LEMMA AnswerPlaced ==
    ASSUME NEW style, NEW answer \in Seq(Member)
    PROVE  /\ Written(answer, style) \in Seq(Atom)
           /\ \E at \in [0..Len(answer) -> Nat \ {0}], from \in [1..Len(answer) -> Nat \ {0}] :
                  Arranged(Written(answer, style), at, from, answer, style)
<1> DEFINE n == Len(answer)
           parts == [i \in 1..n |-> Comma(answer, i) \o MemberText(answer[i], style)]
           w == FlattenSeq(parts)
           s == Written(answer, style)
<1>1. n \in Nat /\ \A i \in 1..n : answer[i] \in Member
  OBVIOUS
<1>2. Opening \in Atom /\ Closing \in Atom /\ Delimiter \in Atom
  BY DEF Atom, Opening, Closing, Delimiter
<1>3. PICK open \in Seq(Atom) : open = <<Opening>> /\ Len(open) = 1 /\ open[1] = Opening
  BY <1>2, OneOf, Zenon
<1>20. PICK close \in Seq(Atom) : close = <<Closing>> /\ Len(close) = 1 /\ close[1] = Closing
  BY <1>2, OneOf, Zenon
<1>21. /\ Len(open) = 1 /\ open[1] = Opening /\ 1 \in 1..Len(open)
       /\ Len(close) = 1 /\ close[1] = Closing /\ 1 \in 1..Len(close)
  <2>1. 1 \in 1..1
    OBVIOUS
  <2> QED
    BY <1>3, <1>20, <2>1, Zenon
<1>4. \A i \in 1..n : /\ Comma(answer, i) \in Seq(Atom)
                      /\ Comma(answer, i) = <<>> \/ Comma(answer, i) = <<Delimiter>>
  <2>1. <<Delimiter>> \in Seq(Atom)
    BY <1>2, OneOf
  <2>2. <<>> \in Seq(Atom)
    OBVIOUS
  <2> QED
    BY <2>1, <2>2, Zenon DEF Comma, Delimiter
<1>5. \A i \in 1..n : MemberText(answer[i], style) \in Seq(Atom)
  BY <1>1, MemberPlaced
<1>6. parts \in Seq(Seq(Atom)) /\ Len(parts) = n
  <2>1. \A i \in 1..n : Comma(answer, i) \o MemberText(answer[i], style) \in Seq(Atom)
    BY <1>4, <1>5, Appended
  <2> QED
    BY <1>1, <2>1
<1>7. s = open \o w \o close
  <2>1. DOMAIN answer = 1..n
    OBVIOUS
  <2> QED
    BY <1>3, <1>20, <2>1 DEF Written, Opening, Closing
<1>8. \A i \in 1..n : parts[i] = Comma(answer, i) \o MemberText(answer[i], style)
  OBVIOUS
<1> HIDE DEF parts, n
<1>9. w \in Seq(Atom)
  BY <1>6, FlattenHolds
<1>10. PICK b \in [0..n -> Nat] :
          /\ b[0] = 0 /\ b[n] = Len(w)
          /\ \A i \in 1..n : /\ b[i] = b[i - 1] + Len(parts[i])
                             /\ Holds(w, b[i - 1] + 1, parts[i])
  BY <1>6, FlattenHolds
<1> HIDE DEF w, s
<1>11. PICK l \in Nat : l = Len(w)
  BY <1>9
<1>12. PICK u \in Seq(Atom) : /\ u = open \o w /\ Len(u) = 1 + l /\ u[1] = Opening
                              /\ \A k \in 1..l : u[1 + k] = w[k]
  <2>1. /\ open \o w \in Seq(Atom) /\ Len(open \o w) = Len(open) + Len(w)
        /\ \A k \in 1..Len(open) : (open \o w)[k] = open[k]
        /\ \A k \in 1..Len(w) : (open \o w)[Len(open) + k] = w[k]
    BY <1>9, Appended
  <2> QED
    BY <1>11, <1>21, <2>1
<1>13. /\ s \in Seq(Atom) /\ Len(s) = l + 2 /\ s[1] = Opening /\ s[l + 2] = Closing
       /\ \A k \in 1..l : s[1 + k] = w[k]
  <2>1. /\ u \o close \in Seq(Atom) /\ Len(u \o close) = Len(u) + Len(close)
        /\ \A k \in 1..Len(u) : (u \o close)[k] = u[k]
        /\ \A k \in 1..Len(close) : (u \o close)[Len(u) + k] = close[k]
    BY Appended
  <2>2. s = u \o close
    BY <1>7, <1>12
  <2>3. s \in Seq(Atom) /\ Len(s) = l + 2 /\ \A k \in 1..1 + l : s[k] = u[k]
    <3>1. s \in Seq(Atom) /\ Len(s) = Len(u) + Len(close) /\ \A k \in 1..Len(u) : s[k] = u[k]
      BY <2>1, <2>2
    <3>2. Len(s) = 1 + l + 1 /\ \A k \in 1..1 + l : s[k] = u[k]
      BY <1>12, <1>21, <3>1
    <3>3. 1 + l + 1 = l + 2
      OBVIOUS
    <3> QED
      BY <3>1, <3>2, <3>3
  <2>4. s[l + 2] = Closing
    <3>1. (1 + l) + 1 = l + 2
      OBVIOUS
    <3>2. s[Len(u) + 1] = close[1]
      BY <1>21, <2>1, <2>2
    <3>3. s[(1 + l) + 1] = close[1]
      BY <1>12, <3>2
    <3> QED
      BY <1>21, <3>1, <3>3
  <2>5. 1 \in 1..1 + l /\ \A k \in 1..l : 1 + k \in 1..1 + l
    OBVIOUS
  <2> QED
    BY <1>12, <2>3, <2>4, <2>5
<1> DEFINE at == [i \in 0..n |-> b[i] + 2]
           from == [i \in 1..n |-> b[i - 1] + 2 + Len(Comma(answer, i))]
<1>14. at[0] = 2 /\ at[n] = Len(s)
  <2>1. 0 \in 0..n /\ n \in 0..n
    BY <1>1
  <2>2. at[0] = b[0] + 2 /\ at[n] = b[n] + 2
    BY <2>1
  <2> HIDE DEF at, from
  <2>3. at[0] = 0 + 2 /\ at[n] = l + 2
    BY <1>10, <1>11, <2>2
  <2>4. at[0] = 2
    BY <2>3
  <2>5. at[n] = Len(s)
    BY <1>13, <2>3, Zenon
  <2> QED
    BY <2>4, <2>5
<1>15. at \in [0..n -> Nat \ {0}]
  OBVIOUS
<1>16. ASSUME NEW i \in 1..n
       PROVE  /\ from[i] \in Nat \ {0}
              /\ from[i] = at[i - 1] \/ (from[i] = at[i - 1] + 1 /\ s[at[i - 1]] = Delimiter)
              /\ Placed(s, from[i], at[i], answer[i], style)
              /\ at[i] <= Len(s)
  <2>1. i \in 0..n /\ i - 1 \in 0..n
    BY <1>1
  <2>2. PICK a \in Nat : a = b[i - 1]
    BY <2>1
  <2>3. PICK c \in Seq(Atom), g \in Nat : c = Comma(answer, i) /\ g = Len(c)
    BY <1>4
  <2>4. PICK e \in Seq(Atom), m \in Nat : e = MemberText(answer[i], style) /\ m = Len(e)
    BY <1>5
  <2>5. at[i - 1] = a + 2 /\ from[i] = a + 2 + g
    BY <2>1, <2>2, <2>3
  <2>6. at[i] = a + 2 + g + m
    <3>1. Len(parts[i]) = g + m
      BY <1>8, <2>3, <2>4, Appended
    <3>2. b[i] = a + (g + m)
      BY <1>10, <2>2, <3>1
    <3> QED
      BY <2>1, <3>2
  <2> HIDE DEF at, from
  <2>7. Holds(w, a + 1, c) /\ Holds(w, a + 1 + g, e)
    <3>1. PICK p \in Nat \ {0} : p = a + 1
      OBVIOUS
    <3>2. Holds(w, p, c \o e)
      BY <1>8, <1>10, <2>2, <2>3, <2>4, <3>1
    <3> QED
      BY <1>9, <2>3, <3>1, <3>2, HoldsTwo
  <2>8. ASSUME NEW p \in Nat \ {0}, NEW d \in Seq(Atom), Holds(w, p, d) PROVE Holds(s, p + 1, d)
    <3>1. PICK k \in Nat : k = Len(d)
      OBVIOUS
    <3>2. p + k <= l + 1 /\ \A j \in 1..k : w[p + j - 1] = d[j]
      BY <1>11, <2>8, <3>1 DEF Holds
    <3>3. p + 1 + k <= Len(s) + 1
      <4>1. Len(s) = l + 2 /\ p + k <= l + 1
        BY <1>13, <3>2
      <4> QED
        BY <4>1
    <3>4. ASSUME NEW j \in 1..k PROVE s[p + 1 + j - 1] = d[j]
      <4>1. p + j - 1 \in 1..l /\ p + 1 + j - 1 = 1 + (p + j - 1)
        BY <3>2
      <4> QED
        BY <1>13, <3>2, <4>1
    <3> QED
      BY <3>1, <3>3, <3>4 DEF Holds
  <2>9. Placed(s, from[i], at[i], answer[i], style)
    <3>1. PICK p \in Nat \ {0} : p = a + 1 + g
      OBVIOUS
    <3>2. PICK r \in Nat \ {0} : r = p + 1 /\ r = from[i] /\ r + m = at[i]
      BY <2>5, <2>6, <3>1
    <3>3. Holds(s, r, e)
      BY <2>7, <2>8, <3>1, <3>2
    <3>4. Placed(s, r, r + Len(e), answer[i], style)
      BY <1>1, <1>13, <2>4, <3>3, MemberPlaced
    <3> QED
      BY <2>4, <3>2, <3>4
  <2>10. from[i] = at[i - 1] \/ (from[i] = at[i - 1] + 1 /\ s[at[i - 1]] = Delimiter)
    <3>1. CASE c = <<>>
      <4>1. g = 0 /\ a + 2 + 0 = a + 2
        BY <2>3, <3>1
      <4> QED
        BY <2>5, <4>1, Zenon
    <3>2. CASE c = <<Delimiter>>
      <4>1. g = 1
        BY <1>2, <2>3, <3>2, OneOf
      <4>2. PICK r \in Nat \ {0} : r = (a + 1) + 1 /\ r = at[i - 1]
        BY <2>5
      <4>3. Holds(s, r, c)
        <5>1. PICK p \in Nat \ {0} : p = a + 1 /\ r = p + 1
          BY <4>2
        <5> QED
          BY <2>7, <2>8, <5>1
      <4>4. Holds(s, r, <<Delimiter>>)
        BY <3>2, <4>3
      <4>5. s \in Seq(Atom)
        BY <1>13
      <4>6. s[r] = Delimiter
        BY <1>2, <4>4, <4>5, HoldsOne
      <4> QED
        BY <2>5, <4>1, <4>2, <4>6
    <3> QED
      BY <1>4, <2>3, <3>1, <3>2
  <2>11. a + 2 + g \in Nat \ {0}
    OBVIOUS
  <2>12. from[i] \in Nat \ {0}
    BY <2>5, <2>11
  <2>13. at[i] <= Len(s)
    <3>1. a + 1 + g + m <= l + 1
      BY <1>11, <2>4, <2>7 DEF Holds
    <3>2. a + 2 + g + m <= l + 2
      BY <3>1
    <3> QED
      BY <1>13, <2>6, <3>2
  <2> QED
    BY <2>9, <2>10, <2>12, <2>13
<1>17. from \in [1..n -> Nat \ {0}]
  <2>1. \A i \in 1..n : from[i] \in Nat \ {0}
    BY <1>16
  <2> QED
    BY <2>1
<1> HIDE DEF at, from
<1>18. \A i \in 1..n : from[i] < at[i]
  <2> SUFFICES ASSUME NEW i \in 1..n PROVE from[i] < at[i]
    OBVIOUS
  <2>1. i \in 0..n
    BY <1>1
  <2>2. PICK p \in Nat, e \in Nat : p = from[i] /\ e = at[i]
    BY <1>15, <1>17, <2>1
  <2>3. Placed(s, p, e, answer[i], style)
    BY <1>16, <2>2
  <2>4. CASE answer[i] = End
    <3>1. e = p + 1
      BY <2>3, <2>4 DEF Placed
    <3> QED
      BY <2>2, <3>1
  <2>5. CASE answer[i] # End
    <3>1. \E c \in p + 4..p + 5 : c <= e
      BY <2>3, <2>5 DEF Placed
    <3> QED
      BY <2>2, <3>1
  <2> QED
    BY <2>4, <2>5
<1>19. Arranged(s, at, from, answer, style)
  BY <1>13, <1>14, <1>16, <1>18 DEF Arranged, n
<1> QED
  BY <1>13, <1>15, <1>17, <1>19 DEF n, s

\* A word between quotes, from place q on.
Quoted(s, q, key) == s[q] = Quote /\ s[q + 1] = key /\ s[q + 2] = Quote

QuotedAt(s, key) == {q \in Nat \ {0} : q + 2 <= Len(s) /\ Quoted(s, q, key)}

\* Where Find finds it.
LEMMA FindQuoted ==
    ASSUME NEW s \in Seq(Atom), NEW key \in Atom
    PROVE  /\ QuotedAt(s, key) = {} => Find(s, <<Quote, key, Quote>>, 1) = 0
           /\ \A q \in QuotedAt(s, key) :
                  (\A p \in QuotedAt(s, key) : q <= p) => Find(s, <<Quote, key, Quote>>, 1) = q
<1> DEFINE e == <<Quote, key, Quote>>
           P == QuotedAt(s, key)
<1>1. /\ Len(s) \in Nat /\ e \in Seq(Atom) /\ Len(e) = 3
      /\ e[1] = Quote /\ e[2] = key /\ e[3] = Quote
  <2>1. Quote \in Atom
    BY DEF Atom
  <2> QED
    BY <2>1
<1>7. \A p : p \in P <=> p \in Nat \ {0} /\ p + 2 <= Len(s)
                        /\ s[p] = Quote /\ s[p + 1] = key /\ s[p + 2] = Quote
  BY DEF QuotedAt, Quoted
<1> HIDE DEF e, P
<1>2. ASSUME NEW p \in 1..Len(s) - 2 PROVE SubSeq(s, p, p + 2) = e <=> p \in P
  <2>1. p \in Nat \ {0} /\ p + 2 <= Len(s)
    BY <1>1
  <2>2. ASSUME p \in P PROVE SubSeq(s, p, p + 2) = e
    <3>1. s[p] = e[1] /\ s[p + 1] = e[2] /\ s[p + 2] = e[3]
      BY <1>1, <1>7, <2>2
    <3>2. p + 1 - 1 = p /\ p + 2 - 1 = p + 1 /\ p + 3 - 1 = p + 2
      BY <2>1
    <3>3. \A j \in 1..3 : j = 1 \/ j = 2 \/ j = 3
      OBVIOUS
    <3>4. \A j \in 1..3 : s[p + j - 1] = e[j]
      BY <3>1, <3>2, <3>3
    <3>5. p + 3 <= Len(s) + 1
      BY <1>1, <2>1
    <3>6. Holds(s, p, e)
      BY <1>1, <3>4, <3>5 DEF Holds
    <3>7. SubSeq(s, p, p + Len(e) - 1) = e
      BY <1>1, <2>1, <3>6, HoldsCut
    <3> QED
      BY <1>1, <3>2, <3>7
  <2>3. ASSUME SubSeq(s, p, p + 2) = e PROVE p \in P
    <3>1. \A j \in 1..p + 2 - p + 1 : SubSeq(s, p, p + 2)[j] = s[p + j - 1]
      OBVIOUS
    <3>4. p + 2 - p + 1 = 3
      OBVIOUS
    <3>2. s[p + 1 - 1] = e[1] /\ s[p + 2 - 1] = e[2] /\ s[p + 3 - 1] = e[3]
      BY <2>3, <3>1, <3>4
    <3>3. p + 1 - 1 = p /\ p + 2 - 1 = p + 1 /\ p + 3 - 1 = p + 2
      BY <2>1
    <3> QED
      BY <1>1, <1>7, <2>1, <3>2, <3>3
  <2> QED
    BY <2>2, <2>3
<1> DEFINE places == {p \in 1..Len(s) + 1 - 3 : SubSeq(s, p, p + 3 - 1) = e}
<1>3. places = P
  <2>1. \A p \in 1..Len(s) - 2 : p + 3 - 1 = p + 2
    BY <1>1
  <2>2. Len(s) + 1 - 3 = Len(s) - 2
    BY <1>1
  <2>3. P \subseteq 1..Len(s) - 2
    BY <1>1, <1>7
  <2>4. \A p \in 1..Len(s) - 2 : p \in places <=> p \in P
    BY <1>2, <2>1, <2>2
  <2>5. places \subseteq 1..Len(s) - 2
    BY <2>2
  <2> HIDE DEF places
  <2> QED
    BY <2>3, <2>4, <2>5
<1>4. Find(s, e, 1) = IF places = {} THEN 0 ELSE Min(places)
  BY <1>1 DEF Find
<1>5. Min(places) = CHOOSE p \in places : \A q \in places : p <= q
  BY DEF Min
<1> HIDE DEF places
<1>6. ASSUME NEW q \in P, \A p \in P : q <= p PROVE Min(places) = q
  <2>1. q \in places /\ \A r \in places : q <= r
    BY <1>3, <1>6
  <2>2. Min(places) \in places /\ \A r \in places : Min(places) <= r
    BY <1>5, <2>1, Zenon
  <2>3. PICK m : m = Min(places)
    OBVIOUS
  <2>4. m \in P /\ q <= m /\ m <= q
    BY <1>3, <1>6, <2>1, <2>2, <2>3
  <2>5. m \in Nat /\ q \in Nat
    BY <1>7, <2>4
  <2> QED
    BY <2>3, <2>4, <2>5
<1>8. P # {} => places # {}
  BY <1>3
<1> QED
  BY <1>3, <1>4, <1>6, <1>8 DEF e, P

\* What is no word a key could be.
Marks == {Quote, Backslash, Colon, Delimiter, Closing}
Behind == {Quote, Delimiter, Closing}

\* What the search relies on with one member.
LooksFor(m, key) ==
    /\ key \notin Marks
    /\ m # End /\ m.value.kind = "string" =>
           \A style \in Style : ~EndsInKey(Heard(m.value.text, style), {key})

\* In a member a word between quotes is its key.
LEMMA KeyIsMembers ==
    ASSUME NEW style \in Style, NEW m \in Member, NEW s \in Seq(Atom), NEW p \in Nat \ {0}, NEW e \in Nat,
           Placed(s, p, e, m, style), NEW last \in Behind, last = s[e],
           NEW key, LooksFor(m, key), NEW q \in p..e - 1, Quoted(s, q, key)
    PROVE  m # End /\ m.key = key /\ q = p
<1>1. Quote # Colon /\ Quote # Closing /\ Quote # Blank /\ key # Quote /\ key # Backslash
      /\ key # Colon /\ key # last
  BY DEF Quote, Colon, Closing, Blank, Marks, Behind, LooksFor
<1>4. s[q] = Quote /\ s[q + 1] = key /\ s[q + 2] = Quote
  BY DEF Quoted
<1>5. q \in Nat /\ p <= q /\ q < e
  OBVIOUS
<1>2. CASE m = End
  <2>1. s[p] = Closing /\ e = p + 1
    BY <1>2 DEF Placed
  <2>2. q = p
    BY <1>5, <2>1
  <2> QED
    BY <1>1, <1>4, <2>1, <2>2
<1>3. CASE m # End
  <2>1. s[p] = Quote /\ s[p + 1] = m.key /\ s[p + 2] = Quote /\ s[p + 3] = Colon
    BY <1>3 DEF Placed
  <2>2. PICK b \in p + 4..p + 5 :
            /\ b = p + 5 => s[p + 4] = Blank
            /\ b <= e
            /\ m.value.kind = "string" => HasText(s, b, e, m.value.text, style)
            /\ m.value.kind # "string" => \A r \in b..e - 1 : s[r] # Quote
    BY <1>3 DEF Placed
  <2>3. m.key # Quote /\ m.value \in JsonValue
    BY <1>3 DEF Member, Words
  <2>4. q # p + 1 /\ q # p + 3
    BY <1>1, <1>4, <2>1, <2>3
  <2>5. q # p + 2
    <3>1. q = p + 2 => q + 1 = p + 3
      OBVIOUS
    <3> QED
      BY <1>1, <1>4, <2>1, <3>1
  <2>6. ASSUME q >= b PROVE FALSE
    <3>1. CASE m.value.kind = "string"
      <4>1. PICK text \in Seq(STRING) : text = m.value.text
        BY <2>3, <3>1 DEF JsonValue
      <4>2. PICK c \in Nat \ {0}, d \in Nat : c = b + 1 /\ d = e - 1
        BY <2>2
      <4>3. Holds(s, c, TextOf(text, style)) /\ d = c + Len(TextOf(text, style)) /\ s[d] = Quote
        BY <2>2, <3>1, <4>1, <4>2 DEF HasText
      <4>8. PICK heard \in Seq(Atom) : heard = Heard(text, style)
        BY TextIsUnits
      <4>4. PICK at \in [0..Len(heard) -> Nat \ {0}] :
                at[0] = c /\ at[Len(heard)] = d /\ Spelled(s, at, heard)
        BY <4>3, <4>8, TextSpelled
      <4>5. q # d
        <5>1. q = d => q + 1 = e
          BY <1>5, <4>2
        <5> QED
          BY <1>1, <1>4, <5>1
      <4>6. q \in Nat /\ c <= q + 1 /\ q < d
        BY <1>5, <2>6, <4>2, <4>5
      <4>7. EndsInKey(heard, {key})
        BY <1>1, <1>4, <4>3, <4>4, <4>6, TextHasKey
      <4> QED
        BY <1>3, <3>1, <4>1, <4>7, <4>8 DEF LooksFor
    <3>2. CASE m.value.kind # "string"
      BY <1>4, <1>5, <2>2, <2>6, <3>2
    <3> QED
      BY <3>1, <3>2
  <2>7. q # p + 4 \/ q >= b
    BY <1>1, <1>4, <2>2
  <2>8. q = p
    <3>1. b \in Nat /\ ~(q >= b)
      BY <2>6
    <3> QED
      BY <1>5, <2>4, <2>5, <2>7, <3>1
  <2> QED
    BY <1>3, <1>4, <2>1, <2>8
<1> QED
  BY <1>2, <1>3

\* What it relies on with all members.
CanSearch(answer, key) == key \notin Marks /\ \A i \in 1..Len(answer) : LooksFor(answer[i], key)

\* The members with a key.
WithKey(answer, key) == {i \in 1..Len(answer) : answer[i] # End /\ answer[i].key = key}

\* The first of them.
IsFirst(answer, key, i) ==
    i \in WithKey(answer, key) /\ \A j \in WithKey(answer, key) : i <= j

\* Where a search for a key stops.
IsLocated(s, from, answer, key) ==
    /\ WithKey(answer, key) = {} => Find(s, <<Quote, key, Quote>>, 1) = 0
    /\ \A i \in 1..Len(answer) :
           IsFirst(answer, key, i) => Find(s, <<Quote, key, Quote>>, 1) = from[i]

\* The search for a key finds the first member that has it.
LEMMA KeyIsFound ==
    ASSUME NEW style \in Style, NEW answer \in Seq(Member), NEW s \in Seq(Atom),
           NEW at \in [0..Len(answer) -> Nat \ {0}], NEW from \in [1..Len(answer) -> Nat \ {0}],
           Arranged(s, at, from, answer, style),
           NEW key \in Atom, CanSearch(answer, key)
    PROVE  IsLocated(s, from, answer, key)
<1> DEFINE n == Len(answer)
           K == WithKey(answer, key)
           P == QuotedAt(s, key)
<1>0. \A i : i \in K <=> i \in 1..n /\ answer[i] # End /\ answer[i].key = key
  BY DEF WithKey
<1> HIDE DEF K
<1>1. /\ n \in Nat /\ Len(s) \in Nat /\ Quote \in Atom
      /\ Quote # Opening /\ Quote # Delimiter
  <2>1. Quote \in Atom
    BY DEF Atom
  <2>2. Quote # Opening /\ Quote # Delimiter
    BY DEF Quote, Opening, Delimiter
  <2> QED
    BY <2>1, <2>2
<1>2. at[0] = 2 /\ at[n] = Len(s) /\ s[1] = Opening /\ s[Len(s)] = Closing
  BY DEF Arranged
<1>3. \A i \in 1..n :
          /\ from[i] = at[i - 1] \/ (from[i] = at[i - 1] + 1 /\ s[at[i - 1]] = Delimiter)
          /\ from[i] < at[i] /\ at[i] <= Len(s)
          /\ Placed(s, from[i], at[i], answer[i], style)
  BY DEF Arranged
<1> HIDE DEF n
<1>4. \A i \in 0..n : at[i] \in Nat \ {0}
  BY DEF n
<1>5. \A i \in 1..n : from[i] \in Nat \ {0} /\ answer[i] \in Member /\ LooksFor(answer[i], key)
  BY DEF n, CanSearch
<1>6. \A i \in 1..n : s[at[i]] \in Behind
  <2> SUFFICES ASSUME NEW i \in 1..n PROVE s[at[i]] \in Behind
    OBVIOUS
  <2>1. CASE i = n
    BY <1>2, <2>1 DEF Behind
  <2>2. CASE i # n
    <3>1. PICK j \in 1..n : j = i + 1 /\ j - 1 = i
      BY <1>1, <2>2
    <3>2. from[j] = at[i] \/ s[at[i]] = Delimiter
      BY <1>3, <3>1
    <3>3. s[from[j]] \in {Quote, Closing}
      BY <1>3, <3>1 DEF Placed
    <3> QED
      BY <3>2, <3>3 DEF Behind
  <2> QED
    BY <2>1, <2>2
<1>7. ASSUME NEW p \in P PROVE \E i \in K : p = from[i]
  <2>1. p \in Nat \ {0} /\ p + 2 <= Len(s) /\ Quoted(s, p, key) /\ s[p] = Quote
    BY DEF QuotedAt, Quoted
  <2>2. p # 1
    BY <1>1, <1>2, <2>1
  <2>3. at[0] <= p /\ p < at[n]
    BY <1>1, <1>2, <2>1, <2>2
  <2>4. PICK i \in 1..n : at[i - 1] <= p /\ p < at[i]
    <3>1. at \in [0..n -> Nat]
      BY DEF n
    <3> QED
      BY <1>1, <2>1, <2>3, <3>1, Between
  <2>5. PICK b \in Nat, f \in Nat \ {0}, e \in Nat : b = at[i - 1] /\ f = from[i] /\ e = at[i]
    <3>1. i - 1 \in 0..n /\ i \in 0..n
      BY <1>1
    <3> QED
      BY <1>4, <1>5, <3>1
  <2>6. p \in f..e - 1
    <3>1. f = b \/ (f = b + 1 /\ s[b] = Delimiter)
      BY <1>3, <2>5
    <3>2. p # b \/ f = b
      BY <1>1, <2>1, <3>1
    <3> QED
      BY <2>1, <2>4, <2>5, <3>1, <3>2
  <2>7. Placed(s, f, e, answer[i], style) /\ s[e] \in Behind
    BY <1>3, <1>6, <2>5
  <2>8. answer[i] # End /\ answer[i].key = key /\ p = f
    <3>1. PICK last \in Behind : last = s[e]
      BY <2>7
    <3>2. answer[i] \in Member /\ LooksFor(answer[i], key)
      BY <1>5
    <3> QED
      BY <2>1, <2>6, <2>7, <3>1, <3>2, KeyIsMembers
  <2> QED
    BY <1>0, <2>5, <2>8
<1>8. ASSUME NEW i \in K PROVE from[i] \in P
  <2>1. i \in 1..n /\ answer[i] # End /\ answer[i].key = key
    BY <1>0
  <2>2. PICK f \in Nat \ {0}, e \in Nat : f = from[i] /\ e = at[i]
    <3>1. i \in 0..n
      BY <1>1, <2>1
    <3> QED
      BY <1>4, <1>5, <2>1, <3>1
  <2>3. Placed(s, f, e, answer[i], style)
    BY <1>3, <2>1, <2>2
  <2>4. s[f] = Quote /\ s[f + 1] = key /\ s[f + 2] = Quote
    BY <2>1, <2>3 DEF Placed
  <2>5. f + 4 <= e
    <3>1. \E b \in f + 4..f + 5 : b <= e
      BY <2>1, <2>3 DEF Placed
    <3> QED
      BY <3>1
  <2>6. e <= Len(s)
    BY <1>3, <2>1, <2>2
  <2> QED
    BY <1>1, <2>2, <2>4, <2>5, <2>6 DEF QuotedAt, Quoted
<1> HIDE DEF P
<1>9. /\ P = {} => Find(s, <<Quote, key, Quote>>, 1) = 0
      /\ \A q \in P : (\A p \in P : q <= p) => Find(s, <<Quote, key, Quote>>, 1) = q
  BY FindQuoted DEF P
<1>10. K = {} => P = {}
  BY <1>7
<1>11. ASSUME NEW i \in 1..n, IsFirst(answer, key, i)
       PROVE  from[i] \in P /\ \A p \in P : from[i] <= p
  <2>1. i \in K /\ \A j \in K : i <= j
    BY <1>11 DEF IsFirst, K
  <2>2. ASSUME NEW p \in P PROVE from[i] <= p
    <3>1. PICK j \in K : p = from[j]
      BY <1>7
    <3>2. j \in 1..n /\ i <= j
      BY <1>0, <2>1
    <3>3. CASE i = j
      BY <1>5, <3>1, <3>3
    <3>4. CASE i # j
      <4>1. PICK k \in 0..n : k = j - 1 /\ i <= k
        BY <1>1, <3>2, <3>4
      <4>2. \A l \in 1..n : at[l - 1] < at[l]
        <5> SUFFICES ASSUME NEW l \in 1..n PROVE at[l - 1] < at[l]
          OBVIOUS
        <5>1. PICK c \in Nat, d \in Nat, f \in Nat : c = at[l - 1] /\ d = at[l] /\ f = from[l]
          <6>1. l - 1 \in 0..n /\ l \in 0..n
            BY <1>1
          <6> QED
            BY <1>4, <1>5, <6>1
        <5>2. (f = c \/ f = c + 1) /\ f < d
          BY <1>3, <5>1
        <5> QED
          BY <5>1, <5>2
      <4>3. at[i] <= at[k]
        <5>1. at \in [0..n -> Nat] /\ i \in 0..n
          BY <1>1 DEF n
        <5> QED
          BY <1>1, <4>1, <4>2, <5>1, Growing
      <4>4. PICK c \in Nat, d \in Nat, f \in Nat, g \in Nat :
                c = at[i] /\ d = at[k] /\ f = from[i] /\ g = from[j]
        <5>1. i \in 0..n
          BY <1>1
        <5> QED
          BY <1>4, <1>5, <3>2, <4>1, <5>1
      <4>5. f < c
        BY <1>3, <4>4
      <4>6. g = d \/ g = d + 1
        BY <1>3, <3>2, <4>1, <4>4
      <4> QED
        BY <3>1, <4>3, <4>4, <4>5, <4>6
    <3> QED
      BY <3>3, <3>4
  <2> QED
    BY <1>8, <2>1, <2>2
<1> QED
  BY <1>9, <1>10, <1>11 DEF n, K, IsLocated

\* The search for a key reads the text of the first member that has it, and nothing when
\* none has.
LEMMA TextIsFound ==
    ASSUME NEW style \in Style, NEW answer \in Seq(Member),
           NEW key \in Atom, CanSearch(answer, key)
    PROVE  /\ WithKey(answer, key) = {} => ExtractJsonStringValue(Written(answer, style), key) = <<>>
           /\ \A i \in 1..Len(answer) :
                  IsFirst(answer, key, i) /\ answer[i].value.kind = "string" =>
                      ExtractJsonStringValue(Written(answer, style), key) =
                          Heard(answer[i].value.text, style)
<1> DEFINE K == WithKey(answer, key)
<1>0. \A i : IsFirst(answer, key, i) => i \in 1..Len(answer) /\ answer[i] # End
  BY DEF WithKey, IsFirst
<1> HIDE DEF K
<1>1. PICK s \in Seq(Atom) : s = Written(answer, style)
  BY AnswerPlaced
<1>2. PICK at \in [0..Len(answer) -> Nat \ {0}], from \in [1..Len(answer) -> Nat \ {0}] :
          Arranged(s, at, from, answer, style)
  BY <1>1, AnswerPlaced
<1>3. /\ K = {} => Find(s, <<Quote, key, Quote>>, 1) = 0
      /\ \A i \in 1..Len(answer) :
             IsFirst(answer, key, i) => Find(s, <<Quote, key, Quote>>, 1) = from[i]
  <2>1. IsLocated(s, from, answer, key)
    BY <1>2, KeyIsFound
  <2> QED
    BY <2>1 DEF K, IsLocated
<1>4. PICK end, value :
          /\ IsReading(s, end, value)
          /\ LET colon == ColonAfter(s, key)
                 start == Find(s, <<Quote>>, colon + 1) + 1
             IN ExtractJsonStringValue(s, key) =
                    IF colon = 0 \/ start = 1 \/ end[start] > Len(s) THEN <<>> ELSE value[start]
  BY ValueSteps
<1>5. ASSUME K = {} PROVE ExtractJsonStringValue(s, key) = <<>>
  <2>1. Find(s, <<Quote, key, Quote>>, 1) = 0
    BY <1>3, <1>5
  <2>2. ColonAfter(s, key) = 0
    BY <2>1, Zenon DEF ColonAfter
  <2> QED
    BY <1>4, <2>2, Zenon
<1>6. ASSUME NEW i \in 1..Len(answer), IsFirst(answer, key, i), answer[i].value.kind = "string"
      PROVE  ExtractJsonStringValue(s, key) = Heard(answer[i].value.text, style)
  <2>1. answer[i] \in Member /\ answer[i] # End
    BY <1>0, <1>6
  <2>2. PICK text \in Seq(STRING) : text = answer[i].value.text
    BY <1>6, <2>1 DEF Member, JsonValue
  <2>3. PICK f \in Nat \ {0}, e \in Nat : f = from[i] /\ e = at[i]
    <3>1. i \in 0..Len(answer)
      OBVIOUS
    <3> QED
      BY <3>1
  <2>4. Placed(s, f, e, answer[i], style) /\ e <= Len(s)
    BY <1>2, <2>3 DEF Arranged
  <2>5. s[f + 3] = Colon
    BY <2>1, <2>4 DEF Placed
  <2>6. PICK b \in f + 4..f + 5 :
            /\ b = f + 5 => s[f + 4] = Blank
            /\ b <= e
            /\ HasText(s, b, e, text, style)
    BY <1>6, <2>1, <2>2, <2>4 DEF Placed
  <2>7. PICK c \in Nat \ {0}, d \in Nat : c = b + 1 /\ d = e - 1
    BY <2>6
  <2>8. /\ s[b] = Quote /\ Holds(s, c, TextOf(text, style))
        /\ d = c + Len(TextOf(text, style)) /\ d <= Len(s) /\ s[d] = Quote
    BY <2>6, <2>7 DEF HasText
  <2>9. Len(s) \in Nat /\ b <= Len(s) /\ f \in Nat
    BY <2>4, <2>6
  <2>10. ColonAfter(s, key) = f + 3
    <3>1. PICK g \in Nat \ {0} : g = f + 3
      OBVIOUS
    <3>2. g \in g..Len(s) /\ \A p \in g..g - 1 : FALSE
      BY <2>6, <2>9, <3>1
    <3>3. Find(s, <<Colon>>, g) = g
      BY <2>5, <3>1, <3>2, FindAtom
    <3>4. Find(s, <<Quote, key, Quote>>, 1) = f /\ f # 0
      BY <1>3, <1>6, <2>3
    <3>5. ColonAfter(s, key) = Find(s, <<Colon>>, f + 3)
      BY <3>4, Zenon DEF ColonAfter, Colon
    <3> QED
      BY <3>1, <3>3, <3>5
  <2>11. Find(s, <<Quote>>, f + 4) = b
    <3>1. PICK g \in Nat \ {0} : g = f + 4
      OBVIOUS
    <3>2. b \in g..Len(s)
      BY <2>6, <2>9, <3>1
    <3>3. \A p \in g..b - 1 : s[p] # Quote
      <4>1. Blank # Quote
        BY DEF Blank, Quote
      <4>2. \A p \in g..b - 1 : p = f + 4 /\ b = f + 5
        BY <2>6, <3>1
      <4> QED
        BY <2>6, <4>1, <4>2
    <3> QED
      BY <2>8, <3>1, <3>2, <3>3, FindAtom
  <2>13. end[c] = d /\ value[c] = Heard(text, style)
    BY <1>4, <2>8, HeldTextIsRead
  <2>14. /\ f + 3 # 0 /\ f + 3 + 1 = f + 4 /\ b + 1 = c /\ c # 1 /\ ~(d > Len(s))
    BY <2>6, <2>7, <2>8, <2>9
  <2> QED
    BY <1>4, <2>2, <2>10, <2>11, <2>13, <2>14, Zenon
<1> QED
  BY <1>1, <1>5, <1>6 DEF K

\* What IsSearchable says of one key.
LEMMA SearchedKey ==
    ASSUME NEW answer, NEW keys, IsSearchable(answer, keys), NEW key \in keys, key \notin Marks
    PROVE  answer \in Seq(Member) /\ CanSearch(answer, key)
<1>1. answer \in Seq(Member)
  BY DEF IsSearchable, Member
<1>2. DOMAIN answer = 1..Len(answer)
  BY <1>1
<1>3. ASSUME NEW i \in 1..Len(answer) PROVE LooksFor(answer[i], key)
  <2>1. ASSUME answer[i] # End, answer[i].value.kind = "string", NEW style \in Style
        PROVE  ~EndsInKey(Heard(answer[i].value.text, style), {key})
    <3>1. ~EndsInKey(Heard(answer[i].value.text, style), keys)
      BY <1>2, <2>1 DEF IsSearchable, Members
    <3> QED
      BY <3>1, Zenon DEF EndsInKey
  <2> QED
    BY <2>1 DEF LooksFor
<1> QED
  BY <1>1, <1>3 DEF CanSearch

\* A text that has no character written by a letter or a number is heard as it is.
LEMMA PlainIsHeard ==
    ASSUME NEW style, NEW text \in Seq(STRING), IsPlain(text, style)
    PROVE  Heard(text, style) = text
<1> DEFINE parts == [i \in 1..Len(text) |-> CharUnits(text[i], style)]
           units == Units(text, style)
           n == Len(text)
<1>1. n \in Nat /\ \A i \in 1..n : text[i] \in STRING
  OBVIOUS
<1>2. parts \in Seq(Seq(Unit)) /\ Len(parts) = n
  <2>1. \A i \in 1..n : CharUnits(text[i], style) \in Seq(Unit)
    BY <1>1, CharIsUnits
  <2> QED
    BY <1>1, <2>1
<1>3. units = FlattenSeq(parts)
  BY DEF Units
<1>4. ASSUME NEW i \in 1..n
      PROVE  \E u \in Unit : parts[i] = <<u>> /\ Last(u) = text[i]
  <2>1. text[i] \notin DOMAIN Letter /\ ~IsNumbered(text[i], style)
    BY DEF IsPlain
  <2>2. parts[i] = << <<Backslash, text[i]>> >> \/ (text[i] \notin {Quote, Backslash} /\ parts[i] = << <<text[i]>> >>)
    BY <2>1 DEF CharUnits
  <2>3. text[i] \in Atom
    BY <1>1 DEF Atom
  <2>4. Last(<<Backslash, text[i]>>) = text[i] /\ Last(<<text[i]>>) = text[i]
    BY DEF Last
  <2>5. /\ <<Backslash, text[i]>> \in Unit
        /\ text[i] \notin {Quote, Backslash} => <<text[i]>> \in Unit
    BY <2>3 DEF Unit
  <2> QED
    BY <2>2, <2>4, <2>5
<1> HIDE DEF parts, units, n
<1>5. PICK at \in [0..n -> Nat] :
          /\ at[0] = 0 /\ at[n] = Len(units)
          /\ \A i \in 1..n : /\ at[i] = at[i - 1] + Len(parts[i])
                             /\ Holds(units, at[i - 1] + 1, parts[i])
  BY <1>1, <1>2, <1>3, FlattenHolds
<1>6. ASSUME NEW i \in 1..n PROVE Len(parts[i]) = 1
  <2>1. PICK u \in Unit : parts[i] = <<u>>
    BY <1>4
  <2> QED
    BY <2>1
<1>7. \A i \in 0..n : at[i] = i
  <2> DEFINE V == [i \in 0..n |-> {i}]
  <2>1. at[0] \in V[0]
    BY <1>1, <1>5
  <2>2. ASSUME NEW i \in 1..n, at[i - 1] \in V[i - 1] PROVE at[i] \in V[i]
    <3>1. at[i - 1] = i - 1
      BY <1>1, <2>2
    <3>2. at[i] = i - 1 + 1
      BY <1>5, <1>6, <3>1
    <3> QED
      BY <1>1, <3>2
  <2>3. \A i \in 0..n : V[i] = {i}
    OBVIOUS
  <2> HIDE DEF V
  <2>4. \A i \in 0..n : at[i] \in V[i]
    BY <1>1, <2>1, <2>2, Typed
  <2> QED
    BY <2>3, <2>4
<1>8. Len(units) = n
  BY <1>1, <1>5, <1>7
<1>9. ASSUME NEW i \in 1..n PROVE Heard(text, style)[i] = text[i]
  <2>1. PICK u \in Unit : parts[i] = <<u>> /\ Last(u) = text[i]
    BY <1>4
  <2>2. PICK p \in Nat \ {0} : p = i /\ at[i - 1] + 1 = p
    <3>1. i - 1 \in 0..n
      BY <1>1
    <3>2. at[i - 1] = i - 1
      BY <1>7, <3>1
    <3> QED
      BY <3>2
  <2>3. Holds(units, p, <<u>>)
    BY <1>5, <2>1, <2>2
  <2>4. units[p] = u
    <3>1. units \in Seq(Unit)
      BY TextIsUnits DEF units
    <3> QED
      BY <2>3, <3>1, HoldsOne
  <2>5. Heard(text, style)[i] = Last(units[i])
    BY <1>8, TextIsUnits DEF units
  <2> QED
    BY <2>1, <2>2, <2>4, <2>5
<1>10. Heard(text, style) \in Seq(Atom) /\ Len(Heard(text, style)) = n
  BY <1>8, TextIsUnits DEF units
<1> QED
  BY <1>9, <1>10 DEF n

\* In every answer that can be searched the search for a key gives the text of the first
\* member that has it, and nothing when no member has it: the very text unless the service
\* wrote a character of it by a letter or a number, of which the backslash alone is dropped
\* (App.cpp 851-880).
THEOREM StringsAreFound ==
    ASSUME NEW style \in Style, NEW answer, NEW keys, IsSearchable(answer, keys),
           NEW key \in keys, key \in Atom, key \notin Marks
    PROVE  /\ key \notin KeysOf(answer) =>
                  ExtractJsonStringValue(Written(answer, style), key) = <<>>
           /\ key \in KeysOf(answer) /\ FirstOf(answer, key).kind = "string" =>
                  LET text == FirstOf(answer, key).text
                  IN /\ ExtractJsonStringValue(Written(answer, style), key) = Heard(text, style)
                     /\ IsPlain(text, style) =>
                            ExtractJsonStringValue(Written(answer, style), key) = text
<1>1. answer \in Seq(Member) /\ CanSearch(answer, key)
  BY SearchedKey
<1>2. PICK value : value = ExtractJsonStringValue(Written(answer, style), key)
  OBVIOUS
<1>3. /\ WithKey(answer, key) = {} => value = <<>>
      /\ \A i \in 1..Len(answer) :
             IsFirst(answer, key, i) /\ answer[i].value.kind = "string" =>
                 value = Heard(answer[i].value.text, style)
  BY <1>1, <1>2, TextIsFound
<1>4. DOMAIN answer = 1..Len(answer)
  BY <1>1
<1>5. key \in KeysOf(answer) <=> WithKey(answer, key) # {}
  BY <1>4 DEF KeysOf, Members, WithKey
<1>6. ASSUME key \in KeysOf(answer), FirstOf(answer, key).kind = "string"
      PROVE  LET text == FirstOf(answer, key).text
             IN value = Heard(text, style) /\ (IsPlain(text, style) => value = text)
  <2> DEFINE K == WithKey(answer, key)
  <2>1. K = {n \in DOMAIN answer : answer[n] # End /\ answer[n].key = key}
    BY <1>4 DEF WithKey
  <2>2. FirstOf(answer, key) = answer[Min(K)].value
    BY <2>1, Zenon DEF FirstOf
  <2>3. K \subseteq 1..Len(answer) /\ K # {}
    BY <1>5, <1>6 DEF WithKey
  <2>4. Min(K) = CHOOSE i \in K : \A j \in K : i <= j
    BY DEF Min
  <2> HIDE DEF K
  <2>5. \E i \in K : \A j \in K : i <= j
    <3>1. K \subseteq Nat
      BY <2>3
    <3> QED
      BY <2>3, <3>1, LeastNumber
  <2>6. PICK i \in K : i = Min(K) /\ \A j \in K : i <= j
    BY <2>4, <2>5, Zenon
  <2>7. IsFirst(answer, key, i) /\ i \in 1..Len(answer) /\ answer[i] # End
    BY <2>3, <2>6 DEF IsFirst, K, WithKey
  <2>8. answer[i].value.kind = "string" /\ FirstOf(answer, key).text = answer[i].value.text
    BY <1>6, <2>2, <2>6
  <2>9. answer[i].value.text \in Seq(STRING)
    BY <1>1, <2>7, <2>8 DEF Member, JsonValue
  <2>10. value = Heard(answer[i].value.text, style)
    BY <1>3, <2>7, <2>8
  <2> QED
    BY <2>8, <2>9, <2>10, PlainIsHeard
<1> QED
  BY <1>2, <1>3, <1>5, <1>6
===============================================================================
