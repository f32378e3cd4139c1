------------------------- MODULE AggregateReportsProofs -------------------------
(***************************************************************************)
(* Proofs about AggregateReports and its Planner, for every window, every  *)
(* set of budgets, every envelope, separator and reserved report size, any *)
(* number of commands and any outcomes.                                    *)
(*                                                                         *)
(* The first half is about the planner.  A plan's nodes have SPANS: a leaf *)
(* has the positions of its span and an inner node the spans of its        *)
(* children, one after the other (Spans).  Chunk cuts its items into       *)
(* groups that cost at most the budget, and closes a group only before an  *)
(* item that does not fit it (ChunkCuts); a round therefore keeps the      *)
(* spans of a level in order and leaves fewer trees (RoundSteps), and the  *)
(* last level is one tree or the error (PlanSpans).                        *)
(*                                                                         *)
(* The second half is about the commands.  Inv is inductive: stored rows   *)
(* are made of rows stored before them, and what a command has so far      *)
(* holds, node by node, the inputs of the node's span (Working).  Rows are *)
(* only appended, so that one command's steps disturb no other's part.     *)
(*                                                                         *)
(* The library's induction theorems take an operator as a parameter;       *)
(* Induction is proved here for a set instead, and Recursion, that a       *)
(* function defined step by step exists, from it.                          *)
(***************************************************************************)
EXTENDS AggregateReports, FiniteSetTheorems, SequenceTheorems, WellFoundedInduction, TLAPS

-----------------------------------------------------------------------------
(* Induction and recursion over 0..N *)

\* Induction, for a property given as the set of the numbers that have it.
LEMMA Induction ==
  ASSUME NEW N \in Nat, NEW S, 0 \in S, \A n \in 0..(N - 1) : n \in S => n + 1 \in S
  PROVE  N \in S /\ \A n \in 0..N : n \in S
<1> DEFINE Missing == {n \in 0..N : n \notin S}
<1> SUFFICES ASSUME Missing # {} PROVE FALSE
  OBVIOUS
<1>1. Missing \subseteq Nat
  OBVIOUS
<1>2. PICK x \in Missing : \A y \in Missing : <<y, x>> \notin OpToRel(<, Nat)
  <2> HIDE DEF Missing
  <2> QED BY <1>1, WFMin, NatLessThanWellFounded
<1>3. \A y \in Missing : ~(y < x)
  <2> TAKE y \in Missing
  <2>1. <<y, x>> \in Nat \X Nat
    BY <1>1
  <2>2. <<y, x>> \notin {ss \in Nat \X Nat : ss[1] < ss[2]}
    BY <1>2 DEF OpToRel
  <2> QED BY <2>1, <2>2
<1>4. x \in 1..N /\ x - 1 \in 0..(N - 1)
  BY <1>1
<1>5. x - 1 \notin Missing
  BY <1>3, <1>4
<1> QED BY <1>4, <1>5

\* f is what `step' makes of `base' after each of N steps, in the set T.
Iterates(f, N, T, base, step) ==
  f \in [0..N -> T] /\ f[0] = base /\ \A n \in 1..N : f[n] = step[<<f[n - 1], n>>]
Steps(T, N) == [T \X (1..N) -> T]

\* A function defined by recursion from a first value and a step exists.
LEMMA Recursion ==
  ASSUME NEW N \in Nat, NEW T, NEW base \in T, NEW step \in Steps(T, N)
  PROVE  \E f : Iterates(f, N, T, base, step)
<1> DEFINE UpTo(k, f) == f[0] = base /\ \A n \in 1..k : f[n] = step[<<f[n - 1], n>>]
           S == {k \in 0..N : \E f \in [0..N -> T] : UpTo(k, f)}
<1> USE DEF Steps
<1>1. 0 \in S
  <2>1. UpTo(0, [n \in 0..N |-> base])
    OBVIOUS
  <2> HIDE DEF UpTo
  <2> QED BY <2>1
<1>2. ASSUME NEW k \in 0..(N - 1), k \in S PROVE k + 1 \in S
  <2>1. PICK f \in [0..N -> T] : UpTo(k, f)
    BY <1>2
  <2> DEFINE g == [f EXCEPT ![k + 1] = step[<<f[k], k + 1>>]]
  <2>2. step[<<f[k], k + 1>>] \in T
    <3>1. <<f[k], k + 1>> \in T \X (1..N)
      OBVIOUS
    <3> QED BY <3>1
  <2>3. g \in [0..N -> T]
    BY <2>2
  <2>4. (\A n \in 0..k : g[n] = f[n]) /\ g[k + 1] = step[<<f[k], k + 1>>]
    OBVIOUS
  <2> HIDE DEF g
  <2>5. \A n \in 1..(k + 1) : g[n] = step[<<g[n - 1], n>>]
    <3> TAKE n \in 1..(k + 1)
    <3>1. g[n - 1] = f[n - 1]
      BY <2>4
    <3>2. CASE n = k + 1
      BY <3>1, <3>2, <2>4
    <3>3. CASE n \in 1..k
      BY <3>1, <3>3, <2>1, <2>4
    <3> QED BY <3>2, <3>3
  <2>6. UpTo(k + 1, g)
    BY <2>1, <2>4, <2>5
  <2> HIDE DEF UpTo
  <2> QED BY <2>3, <2>6
<1>3. N \in S
  <2> HIDE DEF S
  <2> QED BY <1>1, <1>2, Induction
<1> QED BY <1>3 DEF Iterates

-----------------------------------------------------------------------------
(* Sums *)

\* A sum is reached by adding one number after the other.
LEMMA SumByParts ==
  ASSUME NEW s \in Seq(Int)
  PROVE  \E f \in [0..Len(s) -> Int] :
           /\ f[0] = 0
           /\ \A n \in 1..Len(s) : f[n] = f[n - 1] + s[n]
           /\ Sum(s) = f[Len(s)]
<1> DEFINE N == Len(s)
           sum[n \in 0..N] == IF n = 0 THEN 0 ELSE sum[n - 1] + s[n]
           step == [x \in Int \X (1..N) |-> x[1] + s[x[2]]]
<1>1. N \in Nat /\ s \in [1..N -> Int] /\ 0 \in Int
  OBVIOUS
<1>2. /\ step \in Steps(Int, N)
      /\ \A x \in Int, n \in 1..N : step[<<x, n>>] = x + s[n]
  BY SMTT(60), <1>1 DEF Steps
<1>3. PICK f : Iterates(f, N, Int, 0, step)
  <2> HIDE DEF step
  <2> QED BY <1>1, <1>2, Recursion
<1>4. f = [n \in 0..N |-> IF n = 0 THEN 0 ELSE f[n - 1] + s[n]]
  <2> HIDE DEF step, sum
  <2>1. ASSUME NEW n \in 1..N PROVE f[n] = f[n - 1] + s[n]
    <3>0. n - 1 \in 0..N
      BY <1>1
    <3>1. f[n - 1] \in Int
      BY <1>3, <3>0 DEF Iterates
    <3> QED BY <1>2, <1>3, <3>1 DEF Iterates
  <2>2. \A n \in 0..N : f[n] = IF n = 0 THEN 0 ELSE f[n - 1] + s[n]
    BY <1>3, <2>1 DEF Iterates
  <2> QED BY <1>3, <2>2 DEF Iterates
<1>5. sum = [n \in 0..N |-> IF n = 0 THEN 0 ELSE sum[n - 1] + s[n]]
  BY <1>4
<1>6. Sum(s) = sum[N]
  BY DEF Sum
<1> HIDE DEF sum
<1>7. sum \in [0..N -> Int]
  <2> DEFINE S == {n \in 0..N : sum[n] \in Int}
  <2>1. 0 \in S
    BY <1>5
  <2>2. \A n \in 0..(N - 1) : n \in S => n + 1 \in S
    BY <1>1, <1>5
  <2>3. \A n \in 0..N : n \in S
    <3> HIDE DEF S
    <3> QED BY <2>1, <2>2, <1>1, Induction
  <2> QED BY <2>3, <1>5
<1>8. sum[0] = 0
  BY <1>1, <1>5
<1>9. ASSUME NEW n \in 1..N PROVE sum[n] = sum[n - 1] + s[n]
  <2>1. n \in 0..N /\ n # 0
    BY <1>1
  <2> QED BY <1>5, <2>1, Zenon
<1> QED BY <1>6, <1>7, <1>8, <1>9

\* No numbers add up to 0.
LEMMA SumOfNothing == Sum(<<>>) = 0
<1>1. <<>> \in Seq(Int) /\ Len(<<>>) = 0
  OBVIOUS
<1> QED BY <1>1, SumByParts

\* A last number is added to the sum of the others.
LEMMA SumAppended ==
  ASSUME NEW s \in Seq(Int), NEW x \in Int
  PROVE  Sum(Append(s, x)) = Sum(s) + x
<1> DEFINE t == Append(s, x)
           N == Len(s)
<1>1. /\ N \in Nat /\ t \in Seq(Int) /\ Len(t) = N + 1
      /\ t[N + 1] = x /\ \A n \in 1..N : t[n] = s[n]
  OBVIOUS
<1> HIDE DEF t
<1>2. PICK f \in [0..N -> Int] :
        f[0] = 0 /\ (\A n \in 1..N : f[n] = f[n - 1] + s[n]) /\ Sum(s) = f[N]
  BY SumByParts
<1>3. PICK g \in [0..(N + 1) -> Int] :
        /\ g[0] = 0 /\ \A n \in 1..(N + 1) : g[n] = g[n - 1] + t[n]
        /\ Sum(t) = g[N + 1]
  <2>1. PICK h \in [0..Len(t) -> Int] :
          h[0] = 0 /\ (\A n \in 1..Len(t) : h[n] = h[n - 1] + t[n]) /\ Sum(t) = h[Len(t)]
    BY <1>1, SumByParts
  <2> QED BY <1>1, <2>1
<1> DEFINE S == {n \in 0..N : g[n] = f[n]}
<1>4. 0 \in S
  BY <1>1, <1>2, <1>3
<1>5. ASSUME NEW n \in 0..(N - 1), n \in S PROVE n + 1 \in S
  <2>1. f[n + 1] = f[n] + s[n + 1] /\ g[n + 1] = g[n] + t[n + 1] /\ t[n + 1] = s[n + 1]
    BY SMTT(60), <1>1, <1>2, <1>3
  <2> QED BY <1>1, <1>5, <2>1
<1>6. N \in S
  <2> HIDE DEF S
  <2> QED BY <1>1, <1>4, <1>5, Induction
<1>7. Sum(t) = g[N] + t[N + 1]
  <2>1. N + 1 \in 1..(N + 1) /\ (N + 1) - 1 = N
    BY <1>1
  <2> QED BY <1>3, <2>1
<1> QED BY <1>1, <1>2, <1>6, <1>7 DEF t

\* A sum of numbers that are all between two others is between their multiples.
AllBetween(s, lo, hi) == s \in Seq(Int) /\ \A n \in 1..Len(s) : lo <= s[n] /\ s[n] <= hi
Between(sum, n, lo, hi) == sum \in Int /\ n * lo <= sum /\ sum <= n * hi

\* The bounds of the numbers bound their sum.
LEMMA SumBetween ==
  ASSUME NEW s, NEW lo \in Int, NEW hi \in Int, AllBetween(s, lo, hi)
  PROVE  Between(Sum(s), Len(s), lo, hi)
<1> USE DEF AllBetween, Between
<1> DEFINE N == Len(s)
<1>1. N \in Nat /\ s \in [1..N -> Int]
  OBVIOUS
<1>2. PICK f \in [0..N -> Int] :
        f[0] = 0 /\ (\A n \in 1..N : f[n] = f[n - 1] + s[n]) /\ Sum(s) = f[N]
  BY SumByParts
<1> DEFINE S == {n \in 0..N : n * lo <= f[n] /\ f[n] <= n * hi}
<1>3. 0 \in S
  BY <1>1, <1>2
<1>4. ASSUME NEW n \in 0..(N - 1), n \in S PROVE n + 1 \in S
  <2>1. f[n + 1] = f[n] + s[n + 1] /\ lo <= s[n + 1] /\ s[n + 1] <= hi
    BY <1>1, <1>2
  <2>2. (n + 1) * lo = n * lo + lo /\ (n + 1) * hi = n * hi + hi
    OBVIOUS
  <2>3. f[n] \in Int /\ s[n + 1] \in Int
    <3>1. n \in 0..N /\ n + 1 \in 1..N
      BY <1>1
    <3> QED BY <1>1, <1>2, <3>1
  <2>4. n * lo <= f[n] /\ f[n] <= n * hi
    BY <1>4
  <2>5. n * lo \in Int /\ n * hi \in Int
    OBVIOUS
  <2>6. (n + 1) * lo <= f[n + 1] /\ f[n + 1] <= (n + 1) * hi
    BY SMTT(60), <2>1, <2>2, <2>3, <2>4, <2>5
  <2> QED BY <1>1, <2>6
<1>5. N \in S
  <2> HIDE DEF S
  <2> QED BY <1>1, <1>3, <1>4, Induction
<1> QED BY <1>1, <1>2, <1>5

\* A sum of sizes is a size.
LEMMA SumOfSizes == ASSUME NEW s \in Seq(Nat) PROVE Sum(s) \in Nat
<1>1. s \in Seq(Int) /\ 0 \in Int /\ \A n \in 1..Len(s) : 0 <= s[n]
  OBVIOUS
<1>2. PICK f \in [0..Len(s) -> Int] :
        /\ f[0] = 0 /\ \A n \in 1..Len(s) : f[n] = f[n - 1] + s[n]
        /\ Sum(s) = f[Len(s)]
  BY <1>1, SumByParts
<1> DEFINE S == {n \in 0..Len(s) : f[n] \in Nat}
<1>3. Len(s) \in Nat /\ s \in [1..Len(s) -> Nat]
  OBVIOUS
<1>4. 0 \in S /\ \A n \in 0..(Len(s) - 1) : n \in S => n + 1 \in S
  BY <1>2, <1>3
<1>5. Len(s) \in S
  <2> HIDE DEF S
  <2> QED BY <1>3, <1>4, Induction
<1> QED BY <1>2, <1>5

-----------------------------------------------------------------------------
(* Sequences put one after the other *)

\* FlattenSeq appends one sequence after the other.
LEMMA FlattenByParts ==
  ASSUME NEW X, NEW s \in Seq(Seq(X))
  PROVE  \E f \in [0..Len(s) -> Seq(X)] :
           /\ f[0] = <<>>
           /\ \A n \in 1..Len(s) : f[n] = f[n - 1] \o s[n]
           /\ FlattenSeq(s) = f[Len(s)]
<1> DEFINE N == Len(s)
           flatten[i \in 1..N] == IF i = 1 THEN s[i] ELSE flatten[i - 1] \o s[i]
           step == [x \in Seq(X) \X (1..N) |-> x[1] \o s[x[2]]]
<1>1. N \in Nat /\ s \in [1..N -> Seq(X)] /\ <<>> \in Seq(X)
  OBVIOUS
<1>2. /\ step \in Steps(Seq(X), N)
      /\ \A x \in Seq(X), n \in 1..N : step[<<x, n>>] = x \o s[n]
  <2>1. \A x \in Seq(X) \X (1..N) : x[1] \o s[x[2]] \in Seq(X)
    BY <1>1
  <2> QED BY <2>1 DEF Steps
<1>3. PICK f : Iterates(f, N, Seq(X), <<>>, step)
  <2> HIDE DEF step
  <2> QED BY <1>1, <1>2, Recursion
<1> HIDE DEF step
<1>4. f \in [0..N -> Seq(X)] /\ f[0] = <<>>
  BY <1>3 DEF Iterates
<1>5. ASSUME NEW n \in 1..N PROVE f[n] = f[n - 1] \o s[n]
  <2>1. f[n - 1] \in Seq(X)
    <3>1. n - 1 \in 0..N
      BY <1>1
    <3> QED BY <1>4, <3>1
  <2> QED BY <1>2, <1>3, <2>1 DEF Iterates
<1>6. FlattenSeq(s) = f[N]
  <2>1. CASE N = 0
    <3>1. s = <<>>
      BY <2>1
    <3> QED BY <1>4, <2>1, <3>1 DEF FlattenSeq
  <2>2. CASE N # 0
    <3> DEFINE h == [i \in 1..N |-> f[i]]
    <3>1. ASSUME NEW i \in 1..N
          PROVE h[i] = IF i = 1 THEN s[i] ELSE h[i - 1] \o s[i]
      <4>1. CASE i = 1
        <5>1. f[1] = f[0] \o s[1] /\ s[1] \in Seq(X)
          BY <1>1, <1>5, <4>1
        <5> QED BY <4>1, <5>1, <1>4, ConcatEmptySeq
      <4>2. CASE i # 1
        <5>1. i - 1 \in 1..N
          BY <1>1, <4>2
        <5> QED BY <4>2, <5>1, <1>5
      <4> QED BY <4>1, <4>2
    <3>2. h = [i \in 1..N |-> IF i = 1 THEN s[i] ELSE h[i - 1] \o s[i]]
      <4>1. h = [i \in 1..N |-> h[i]]
        OBVIOUS
      <4> HIDE DEF h
      <4> QED BY <3>1, <4>1
    <3>3. flatten = [i \in 1..N |-> IF i = 1 THEN s[i] ELSE flatten[i - 1] \o s[i]]
      <4> HIDE DEF h
      <4> QED BY <3>2
    <3>4. FlattenSeq(s) = flatten[N]
      BY <2>2 DEF FlattenSeq
    <3> HIDE DEF flatten
    <3> DEFINE S == {n \in 0..N : n # 0 => flatten[n] = f[n]}
    <3>5. 0 \in S
      BY <1>1
    <3>6. ASSUME NEW n \in 0..(N - 1), n \in S PROVE n + 1 \in S
      <4>1. flatten[n + 1] = IF n + 1 = 1 THEN s[n + 1] ELSE flatten[(n + 1) - 1] \o s[n + 1]
        <5>1. n + 1 \in 1..N
          BY <1>1
        <5> QED BY <3>3, <5>1, Zenon
      <4>2. f[n + 1] = f[n] \o s[n + 1] /\ s[n + 1] \in Seq(X)
        <5>1. n + 1 \in 1..N /\ (n + 1) - 1 = n
          BY <1>1
        <5> QED BY <1>1, <1>5, <5>1
      <4>3. CASE n = 0
        <5>1. f[0] \o s[1] = s[1]
          BY <1>4, <4>2, <4>3, ConcatEmptySeq
        <5>2. flatten[n + 1] = s[n + 1]
          BY <4>1, <4>3
        <5>3. n + 1 \in 0..N /\ flatten[n + 1] = f[n + 1]
          BY <4>2, <4>3, <5>1, <5>2, <1>1
        <5> QED BY <5>3
      <4>4. CASE n # 0
        <5>1. flatten[n] = f[n] /\ n + 1 # 1 /\ (n + 1) - 1 = n
          BY <3>6, <4>4
        <5>2. flatten[n + 1] = f[n + 1]
          BY <4>1, <4>2, <5>1
        <5> QED BY <5>2, <1>1
      <4> QED BY <4>3, <4>4
    <3>7. N \in S
      <4> HIDE DEF S
      <4> QED BY <1>1, <3>5, <3>6, Induction
    <3> QED BY <2>2, <3>4, <3>7
  <2> QED BY <2>1, <2>2
<1> QED BY <1>4, <1>5, <1>6

\* A function on 1..N is a sequence.
SequenceOf(f, X, N) == f \in Seq(X) /\ Len(f) = N

\* A function of 1..N is a sequence of length N.
LEMMA FunctionIsSequence ==
  ASSUME NEW N \in Nat, NEW X, NEW f \in [1..N -> X] PROVE SequenceOf(f, X, N)
  BY DEF SequenceOf

\* r is s with x at its end.
Appended(r, s, x, X) ==
  /\ r \in Seq(X) /\ r # <<>> /\ Len(s) \in Nat /\ Len(r) = Len(s) + 1 /\ r[Len(s) + 1] = x
  /\ \A i \in 1..Len(s) : r[i] = s[i]

\* Append puts one element at the end.
LEMMA Appending ==
  ASSUME NEW X, NEW s \in Seq(X), NEW x \in X PROVE Appended(Append(s, x), s, x, X)
  BY AppendProperties DEF Appended

\* Where the elements of two sequences are in their concatenation.
PutTogether(s, t) ==
  /\ Len(s \o t) = Len(s) + Len(t)
  /\ \A i \in 1..Len(s) : (s \o t)[i] = s[i]
  /\ \A j \in 1..Len(t) : (s \o t)[Len(s) + j] = t[j]

\* The first sequence keeps its places, the second has the places after them.
LEMMA ConcatPlaces ==
  ASSUME NEW X, NEW s \in Seq(X), NEW t \in Seq(X) PROVE PutTogether(s, t)
  BY DEF PutTogether

\* Where the elements of the sequences are afterwards.
LEMMA FlattenPlaces ==
  ASSUME NEW X, NEW s \in Seq(Seq(X)), NEW e \in [0..Len(s) -> Nat], e[0] = 0,
         \A k \in 1..Len(s) : e[k] = e[k - 1] + Len(s[k])
  PROVE  /\ FlattenSeq(s) \in Seq(X) /\ Len(FlattenSeq(s)) = e[Len(s)]
         /\ \A k \in 1..Len(s) : \A j \in 1..Len(s[k]) :
              /\ e[k - 1] + j \in 1..Len(FlattenSeq(s))
              /\ FlattenSeq(s)[e[k - 1] + j] = s[k][j]
         /\ \A i \in 1..Len(FlattenSeq(s)) :
              \E k \in 1..Len(s) : \E j \in 1..Len(s[k]) : i = e[k - 1] + j
<1> DEFINE N == Len(s)
<1>1. N \in Nat /\ s \in [1..N -> Seq(X)]
  OBVIOUS
<1>2. PICK f \in [0..N -> Seq(X)] :
        /\ f[0] = <<>>
        /\ \A n \in 1..N : f[n] = f[n - 1] \o s[n]
        /\ FlattenSeq(s) = f[N]
  BY FlattenByParts
<1> DEFINE At(n) ==
             /\ Len(f[n]) = e[n]
             /\ \A k \in 1..n : \A j \in 1..Len(s[k]) :
                  e[k - 1] + j \in 1..e[n] /\ f[n][e[k - 1] + j] = s[k][j]
             /\ \A i \in 1..e[n] :
                  \E k \in 1..n : \E j \in 1..Len(s[k]) : i = e[k - 1] + j
           S == {n \in 0..N : At(n)}
<1>3. At(0)
  BY <1>2
<1>4. ASSUME NEW n \in 0..(N - 1), At(n) PROVE At(n + 1)
  <2>0. n \in 0..N /\ n + 1 \in 1..N /\ n + 1 \in 0..N /\ (n + 1) - 1 = n
    BY <1>1
  <2>1. /\ f[n] \in Seq(X) /\ s[n + 1] \in Seq(X)
        /\ e[n] \in Nat /\ Len(s[n + 1]) \in Nat /\ Len(f[n]) = e[n]
    <3>1. f[n] \in Seq(X) /\ s[n + 1] \in Seq(X) /\ e[n] \in Nat
      BY <2>0, <1>1, <1>2
    <3> QED BY <3>1, <1>4
  <2>2. f[n + 1] = f[n] \o s[n + 1]
    BY <1>2, <2>0
  <2>3. e[n + 1] = e[n] + Len(s[n + 1])
    BY <2>0
  <2>4. /\ Len(f[n + 1]) = e[n + 1]
        /\ \A i \in 1..e[n] : f[n + 1][i] = f[n][i]
        /\ \A j \in 1..Len(s[n + 1]) : f[n + 1][e[n] + j] = s[n + 1][j]
    <3>1. PutTogether(f[n], s[n + 1])
      BY <2>1, ConcatPlaces
    <3> QED BY <2>1, <2>2, <2>3, <3>1 DEF PutTogether
  <2>5. ASSUME NEW k \in 1..(n + 1), NEW j \in 1..Len(s[k])
        PROVE  e[k - 1] + j \in 1..e[n + 1] /\ f[n + 1][e[k - 1] + j] = s[k][j]
    <3>1. CASE k = n + 1
      BY SMTT(60), <3>1, <2>0, <2>1, <2>3, <2>4
    <3>2. CASE k # n + 1
      <4>1. k \in 1..n
        BY <2>0, <3>2
      <4>2. e[k - 1] + j \in 1..e[n] /\ f[n][e[k - 1] + j] = s[k][j]
        BY <1>4, <4>1
      <4>3. f[n + 1][e[k - 1] + j] = s[k][j]
        BY <4>2, <2>4
      <4>4. e[k - 1] + j \in 1..e[n + 1]
        BY SMTT(60), <4>2, <2>1, <2>3
      <4> QED BY <4>3, <4>4
    <3> QED BY <3>1, <3>2
  <2>6. ASSUME NEW i \in 1..e[n + 1]
        PROVE  \E k \in 1..(n + 1) : \E j \in 1..Len(s[k]) : i = e[k - 1] + j
    <3>1. CASE i \in 1..e[n]
      <4>1. PICK k \in 1..n : \E j \in 1..Len(s[k]) : i = e[k - 1] + j
        BY <1>4, <3>1
      <4>2. k \in 1..(n + 1)
        BY <2>0
      <4> QED BY <4>1, <4>2
    <3>2. CASE i \notin 1..e[n]
      <4>1. i - e[n] \in 1..Len(s[n + 1]) /\ i = e[n] + (i - e[n]) /\ n + 1 \in 1..(n + 1)
        BY SMTT(60), <3>2, <2>0, <2>1, <2>3
      <4> QED BY <4>1, <2>0
    <3> QED BY <3>1, <3>2
  <2> QED BY <2>4, <2>5, <2>6
<1>5. At(N)
  <2> HIDE DEF At
  <2>1. 0 \in S /\ \A n \in 0..(N - 1) : n \in S => n + 1 \in S
    BY <1>1, <1>3, <1>4
  <2>2. N \in S
    <3> HIDE DEF S
    <3> QED BY <1>1, <2>1, Induction
  <2> QED BY <2>2
<1>6. f[N] \in Seq(X)
  BY <1>1, <1>2
<1> QED BY <1>2, <1>5, <1>6

\* Consecutive pieces of a sequence are put together again.
LEMMA FlattenPieces ==
  ASSUME NEW X, NEW q \in Seq(X), NEW s \in Seq(Seq(X)), NEW c \in [0..Len(s) -> 0..Len(q)],
         \A k \in 1..Len(s) : c[k - 1] <= c[k] /\ s[k] = SubSeq(q, c[k - 1] + 1, c[k])
  PROVE  FlattenSeq(s) = SubSeq(q, c[0] + 1, c[Len(s)])
<1> DEFINE N == Len(s)
<1>1. N \in Nat /\ Len(q) \in Nat
  OBVIOUS
<1>2. PICK f \in [0..N -> Seq(X)] :
        /\ f[0] = <<>>
        /\ \A n \in 1..N : f[n] = f[n - 1] \o s[n]
        /\ FlattenSeq(s) = f[N]
  BY FlattenByParts
<1> DEFINE S == {n \in 0..N : c[0] <= c[n] /\ f[n] = SubSeq(q, c[0] + 1, c[n])}
<1>3. 0 \in S
  <2>1. c[0] \in Int /\ c[0] + 1 \in Int /\ c[0] < c[0] + 1
    BY <1>1
  <2>2. SubSeq(q, c[0] + 1, c[0]) = <<>>
    BY <2>1, SubSeqEmpty
  <2> QED BY SMTT(60), <1>1, <1>2, <2>1, <2>2
<1>4. ASSUME NEW n \in 0..(N - 1), n \in S PROVE n + 1 \in S
  <2>0. n \in 0..N /\ n + 1 \in 1..N /\ n + 1 \in 0..N /\ (n + 1) - 1 = n /\ 0 \in 0..N
    BY <1>1
  <2>1. c[n] \in 0..Len(q) /\ c[n + 1] \in 0..Len(q) /\ c[0] \in 0..Len(q)
    BY <2>0
  <2>2. c[0] <= c[n] /\ f[n] = SubSeq(q, c[0] + 1, c[n])
    BY <1>4
  <2>3. c[n] <= c[n + 1] /\ s[n + 1] = SubSeq(q, c[n] + 1, c[n + 1])
    BY <2>0
  <2>4. f[n + 1] = f[n] \o s[n + 1]
    BY <1>2, <2>0
  <2>5. c[0] + 1 \in 1..(Len(q) + 1) /\ c[n] \in ((c[0] + 1) - 1)..Len(q)
        /\ c[n + 1] \in c[n]..Len(q)
    <3>1. c[0] <= c[n] /\ c[n] <= c[n + 1]
      BY <2>2, <2>3
    <3> QED BY SMTT(60), <1>1, <2>1, <3>1
  <2>6. SubSeq(q, c[0] + 1, c[n]) \o SubSeq(q, c[n] + 1, c[n + 1]) = SubSeq(q, c[0] + 1, c[n + 1])
    BY <2>5, ConcatAdjacentSubSeq
  <2>7. c[0] <= c[n + 1]
    BY <2>1, <2>2, <2>3
  <2> QED BY <2>0, <2>2, <2>3, <2>4, <2>6, <2>7
<1>5. N \in S
  <2> HIDE DEF S
  <2> QED BY <1>1, <1>3, <1>4, Induction
<1> QED BY <1>2, <1>5

-----------------------------------------------------------------------------
(* Groups of consecutive positions *)

\* The positions after a and up to b, and what they cost.
Run(a, b) == [i \in 1..(b - a) |-> a + i]
Cost(costs, a, b) == Sum([i \in 1..(b - a) |-> costs[a + i]])

\* The groups are cut at the places c, and each fits the budget.
CutAt(c, groups, costs, budget) ==
  /\ groups \in Seq(Seq(Nat))
  /\ c \in [0..Len(groups) -> 0..Len(costs)] /\ c[0] = 0
  /\ \A g \in 1..Len(groups) :
       c[g - 1] < c[g] /\ groups[g] = Run(c[g - 1], c[g]) /\ Cost(costs, c[g - 1], c[g]) <= budget

\* A run has one position for each step from a to b.
LEMMA RunIsASequence ==
  ASSUME NEW a \in Nat, NEW b \in Nat, a <= b
  PROVE  Run(a, b) \in Seq(Nat) /\ Len(Run(a, b)) = b - a
<1>1. b - a \in Nat /\ \A i \in 1..(b - a) : a + i \in Nat
  OBVIOUS
<1> QED BY <1>1 DEF Run

\* A run is made longer by its next position.
LEMMA RunAppended ==
  ASSUME NEW a \in Nat, NEW b \in Nat, a <= b
  PROVE  Append(Run(a, b), b + 1) = Run(a, b + 1)
<1>1. Run(a, b) \in Seq(Nat) /\ Len(Run(a, b)) = b - a
  BY RunIsASequence
<1>2. Run(a, b + 1) \in Seq(Nat) /\ Len(Run(a, b + 1)) = (b - a) + 1
  BY RunIsASequence
<1>3. /\ Append(Run(a, b), b + 1) \in Seq(Nat) /\ Len(Append(Run(a, b), b + 1)) = (b - a) + 1
      /\ Append(Run(a, b), b + 1)[(b - a) + 1] = b + 1
      /\ \A i \in 1..(b - a) : Append(Run(a, b), b + 1)[i] = Run(a, b)[i]
  BY <1>1, AppendProperties
<1>4. ASSUME NEW i \in 1..((b - a) + 1)
      PROVE  Append(Run(a, b), b + 1)[i] = Run(a, b + 1)[i]
  <2>1. Run(a, b + 1)[i] = a + i
    BY DEF Run
  <2>2. CASE i \in 1..(b - a)
    BY <1>3, <2>1, <2>2 DEF Run
  <2>3. CASE i = (b - a) + 1
    BY <1>3, <2>1, <2>3
  <2>4. i \in 1..(b - a) \/ i = (b - a) + 1
    OBVIOUS
  <2> QED BY <2>2, <2>3, <2>4
<1> QED BY <1>2, <1>3, <1>4, SeqEqual

\* Nothing costs nothing.
LEMMA CostOfNothing == ASSUME NEW costs, NEW a \in Nat PROVE Cost(costs, a, a) = 0
<1>1. [i \in 1..(a - a) |-> costs[a + i]] = <<>>
  OBVIOUS
<1> QED BY <1>1, SumOfNothing DEF Cost

\* Costs of sizes are sizes.
LEMMA CostIsASize ==
  ASSUME NEW costs \in Seq(Nat), NEW a \in Nat, NEW b \in 0..Len(costs), a <= b
  PROVE  Cost(costs, a, b) \in Nat
<1>1. [i \in 1..(b - a) |-> costs[a + i]] \in Seq(Nat)
  <2>1. b - a \in Nat /\ \A i \in 1..(b - a) : costs[a + i] \in Nat
    OBVIOUS
  <2> QED BY <2>1
<1> QED BY <1>1, SumOfSizes DEF Cost

\* One more position costs as much more as it costs alone.
LEMMA CostAppended ==
  ASSUME NEW costs \in Seq(Nat), NEW a \in Nat, NEW b \in 0..(Len(costs) - 1), a <= b
  PROVE  Cost(costs, a, b + 1) = Cost(costs, a, b) + costs[b + 1]
<1> DEFINE s == [i \in 1..(b - a) |-> costs[a + i]]
           t == [i \in 1..((b + 1) - a) |-> costs[a + i]]
<1>1. /\ b - a \in Nat /\ (b + 1) - a = (b - a) + 1 /\ a + ((b - a) + 1) = b + 1
      /\ \A i \in 1..((b - a) + 1) : costs[a + i] \in Int
  OBVIOUS
<1>2. s \in Seq(Int) /\ Len(s) = b - a /\ costs[b + 1] \in Int
  BY <1>1
<1>3. t \in Seq(Int) /\ Len(t) = (b - a) + 1 /\ t[(b - a) + 1] = costs[b + 1]
  BY <1>1
<1>4. \A i \in 1..(b - a) : t[i] = s[i]
  BY <1>1
<1> HIDE DEF s, t
<1>5. t = Append(s, costs[b + 1])
  <2>1. /\ Append(s, costs[b + 1]) \in Seq(Int) /\ Len(Append(s, costs[b + 1])) = (b - a) + 1
        /\ Append(s, costs[b + 1])[(b - a) + 1] = costs[b + 1]
        /\ \A i \in 1..(b - a) : Append(s, costs[b + 1])[i] = s[i]
    BY <1>2, AppendProperties
  <2>2. ASSUME NEW i \in 1..((b - a) + 1) PROVE t[i] = Append(s, costs[b + 1])[i]
    <3>1. CASE i \in 1..(b - a)
      BY <3>1, <1>4, <2>1
    <3>2. CASE i = (b - a) + 1
      BY <3>2, <1>3, <2>1
    <3>3. i \in 1..(b - a) \/ i = (b - a) + 1
      OBVIOUS
    <3> QED BY <3>1, <3>2, <3>3
  <2> QED BY <1>3, <2>1, <2>2, SeqEqual
<1>6. Sum(t) = Sum(s) + costs[b + 1]
  BY <1>2, <1>5, SumAppended
<1> QED BY <1>6 DEF Cost, s, t

\* One more group is cut off, up to b.
CutsOff(d, b, c, groups, costs, budget) ==
  /\ CutAt(d, Append(groups, Run(c[Len(groups)], b)), costs, budget)
  /\ d[Len(groups) + 1] = b
  /\ \A g \in 0..Len(groups) : d[g] = c[g]

\* A group from the last cut to a later place is one more group of the cuts.
LEMMA OneMoreCut ==
  ASSUME NEW costs \in Seq(Nat), NEW budget \in Int, NEW groups, NEW c,
         CutAt(c, groups, costs, budget),
         NEW b \in 0..Len(costs), c[Len(groups)] < b,
         Cost(costs, c[Len(groups)], b) <= budget
  PROVE  \E d : CutsOff(d, b, c, groups, costs, budget)
<1> DEFINE N == Len(groups)
           more == Append(groups, Run(c[N], b))
           d == [g \in 0..(N + 1) |-> IF g = N + 1 THEN b ELSE c[g]]
<1>1. /\ N \in Nat /\ groups \in Seq(Seq(Nat)) /\ Len(costs) \in Nat
      /\ c \in [0..N -> 0..Len(costs)] /\ c[0] = 0 /\ N \in 0..N
  BY DEF CutAt
<1>2. c[N] \in 0..Len(costs) /\ c[N] \in Nat /\ b \in Nat /\ c[N] < b /\ c[N] <= b
  BY <1>1
<1>3. Run(c[N], b) \in Seq(Nat)
  <2> HIDE DEF N
  <2> QED BY ONLY <1>2, RunIsASequence
<1>4. /\ more \in Seq(Seq(Nat)) /\ Len(more) = N + 1 /\ more[N + 1] = Run(c[N], b)
      /\ \A g \in 1..N : more[g] = groups[g]
  BY <1>1, <1>3, AppendProperties
<1>5. d \in [0..(N + 1) -> 0..Len(costs)] /\ d[0] = 0 /\ d[N + 1] = b /\ \A g \in 0..N : d[g] = c[g]
  BY <1>1
<1> HIDE DEF more, d
<1>6. ASSUME NEW g \in 1..(N + 1)
      PROVE  d[g - 1] < d[g] /\ more[g] = Run(d[g - 1], d[g]) /\ Cost(costs, d[g - 1], d[g]) <= budget
  <2>1. CASE g = N + 1
    <3>1. g - 1 \in 0..N /\ g - 1 = N
      BY <1>1, <2>1
    <3> QED BY <2>1, <3>1, <1>2, <1>4, <1>5
  <2>2. CASE g \in 1..N
    <3>1. g - 1 \in 0..N /\ g \in 0..N
      BY <1>1, <2>2
    <3>2. d[g - 1] = c[g - 1] /\ d[g] = c[g]
      BY <3>1, <1>5
    <3> QED BY <2>2, <3>2, <1>4 DEF CutAt
  <2> QED BY <1>1, <2>1, <2>2
<1>7. CutAt(d, more, costs, budget)
  BY <1>4, <1>5, <1>6 DEF CutAt
<1> QED BY <1>5, <1>7 DEF more, CutsOff

\* The loop of _chunk places one item after the other.
Placed == [groups : Seq(Seq(Nat)), current : Seq(Nat), used : Nat]

\* An item is placed in groups of positions, whatever the loop does with it.
LEMMA PlaceIsPlaced ==
  ASSUME NEW acc \in Placed, NEW i \in Nat, NEW cost \in Nat, NEW budget
  PROVE  Place(acc, i, cost, budget) \in Placed
<1>1. /\ acc.groups \in Seq(Seq(Nat)) /\ acc.current \in Seq(Nat) /\ acc.used \in Nat
      /\ Append(acc.groups, acc.current) \in Seq(Seq(Nat))
      /\ Append(acc.current, i) \in Seq(Nat) /\ <<i>> \in Seq(Nat) /\ acc.used + cost \in Nat
  BY DEF Placed
<1>2. [groups |-> Append(acc.groups, acc.current), current |-> <<i>>, used |-> cost] \in Placed
  BY <1>1 DEF Placed
<1>3. [acc EXCEPT !.current = Append(@, i), !.used = @ + cost] \in Placed
  BY <1>1 DEF Placed
<1> QED BY <1>2, <1>3 DEF Place

\* Chunk places one item after the other, and closes the last group.
LEMMA ChunkByParts ==
  ASSUME NEW costs \in Seq(Nat), NEW budget \in Int
  PROVE  \E f \in [0..Len(costs) -> Placed] :
           /\ f[0] = Empty
           /\ \A n \in 1..Len(costs) : f[n] = Place(f[n - 1], n, costs[n], budget)
           /\ Chunk(costs, budget) = Append(f[Len(costs)].groups, f[Len(costs)].current)
<1> DEFINE N == Len(costs)
           placed[n \in 0..N] == IF n = 0 THEN Empty ELSE Place(placed[n - 1], n, costs[n], budget)
           step == [x \in Placed \X (1..N) |-> Place(x[1], x[2], costs[x[2]], budget)]
<1>1. N \in Nat /\ costs \in [1..N -> Nat]
  OBVIOUS
<1>2. Empty \in Placed
  BY DEF Empty, Placed
<1>3. /\ step \in Steps(Placed, N)
      /\ \A x \in Placed, n \in 1..N : step[<<x, n>>] = Place(x, n, costs[n], budget)
  <2>1. \A x \in Placed \X (1..N) : Place(x[1], x[2], costs[x[2]], budget) \in Placed
    <3> TAKE x \in Placed \X (1..N)
    <3>1. x[1] \in Placed /\ x[2] \in 1..N /\ x[2] \in Nat /\ costs[x[2]] \in Nat
      BY <1>1
    <3> QED BY <3>1, PlaceIsPlaced
  <2> QED BY <2>1 DEF Steps
<1>4. PICK f : Iterates(f, N, Placed, Empty, step)
  <2> HIDE DEF step, N
  <2> QED BY <1>1, <1>2, <1>3, Recursion
<1> HIDE DEF step
<1>5. ASSUME NEW n \in 1..N PROVE f[n] = Place(f[n - 1], n, costs[n], budget)
  <2>1. n - 1 \in 0..N
    BY <1>1
  <2>2. f[n - 1] \in Placed
    BY <1>4, <2>1 DEF Iterates
  <2> QED BY <1>3, <1>4, <2>2 DEF Iterates
<1>6. f = [n \in 0..N |-> IF n = 0 THEN Empty ELSE Place(f[n - 1], n, costs[n], budget)]
  <2>1. ASSUME NEW n \in 0..N
        PROVE  f[n] = IF n = 0 THEN Empty ELSE Place(f[n - 1], n, costs[n], budget)
    <3>1. n = 0 \/ n \in 1..N
      BY <1>1
    <3> QED BY <1>4, <1>5, <3>1 DEF Iterates
  <2> QED BY <1>4, <2>1 DEF Iterates
<1>7. placed = [n \in 0..N |-> IF n = 0 THEN Empty ELSE Place(placed[n - 1], n, costs[n], budget)]
  BY <1>6
<1>8. Chunk(costs, budget) = Append(placed[N].groups, placed[N].current)
  BY DEF Chunk
<1> HIDE DEF placed
<1>9. placed[0] = Empty
  BY <1>1, <1>7
<1>10. ASSUME NEW n \in 1..N PROVE placed[n] = Place(placed[n - 1], n, costs[n], budget)
  <2>1. n \in 0..N /\ n # 0
    BY <1>1
  <2> QED BY <1>7, <2>1, Zenon
<1>11. \A n \in 0..N : placed[n] \in Placed
  <2> DEFINE S == {n \in 0..N : placed[n] \in Placed}
  <2>1. 0 \in S
    BY <1>1, <1>2, <1>9
  <2>2. ASSUME NEW n \in 0..(N - 1), n \in S PROVE n + 1 \in S
    <3>1. n + 1 \in 1..N /\ n + 1 \in 0..N /\ (n + 1) - 1 = n /\ n + 1 \in Nat /\ costs[n + 1] \in Nat
      BY <1>1
    <3>2. placed[n + 1] = Place(placed[n], n + 1, costs[n + 1], budget)
      BY <1>10, <3>1
    <3>3. placed[n + 1] \in Placed
      BY <2>2, <3>1, <3>2, PlaceIsPlaced
    <3> QED BY <3>1, <3>3
  <2>3. \A n \in 0..N : n \in S
    <3> HIDE DEF S
    <3> QED BY <1>1, <2>1, <2>2, Induction
  <2> QED BY <2>3
<1>12. placed \in [0..N -> Placed]
  BY <1>7, <1>11
<1> QED BY <1>8, <1>9, <1>10, <1>12

\* A group is closed only by an item that does not fit it.
Greedy(c, upto, costs, budget) ==
  \A g \in 1..upto : Cost(costs, c[g - 1], c[g]) + costs[c[g] + 1] > budget

\* What the loop knows after n items: the closed groups, and the current one.
PlacedUpTo(c, n, acc, costs, budget) ==
  /\ CutAt(c, acc.groups, costs, budget)
  /\ c[Len(acc.groups)] <= n
  /\ acc.current = Run(c[Len(acc.groups)], n)
  /\ acc.used = Cost(costs, c[Len(acc.groups)], n)
  /\ n # 0 => c[Len(acc.groups)] < n /\ acc.used <= budget
  /\ Greedy(c, Len(acc.groups), costs, budget)

\* What the loop knows of n items it knows of the next one too.
LEMMA OneMorePlaced ==
  ASSUME NEW costs \in Seq(Nat), NEW budget \in Int, NEW n \in 0..(Len(costs) - 1),
         costs[n + 1] <= budget, NEW acc \in Placed, NEW c, PlacedUpTo(c, n, acc, costs, budget)
  PROVE  \E d : PlacedUpTo(d, n + 1, Place(acc, n + 1, costs[n + 1], budget), costs, budget)
<1> DEFINE L == Len(acc.groups)
           next == Place(acc, n + 1, costs[n + 1], budget)
<1>1. /\ n \in Nat /\ n \in 0..Len(costs) /\ n + 1 \in 0..Len(costs) /\ costs[n + 1] \in Nat
      /\ Len(costs) \in Nat
  OBVIOUS
<1>2. /\ L \in Nat /\ c \in [0..L -> 0..Len(costs)] /\ c[0] = 0 /\ c[L] \in Nat /\ c[L] <= n
  <2>1. L \in Nat /\ c \in [0..L -> 0..Len(costs)] /\ c[0] = 0 /\ c[L] <= n
    BY DEF Placed, PlacedUpTo, CutAt
  <2>2. L \in 0..L
    BY <2>1
  <2>3. c[L] \in 0..Len(costs)
    BY <2>1, <2>2, Zenon
  <2> QED BY <1>1, <2>1, <2>3
<1>3. acc.used \in Nat /\ acc.used = Cost(costs, c[L], n)
  BY DEF Placed, PlacedUpTo
<1>4. CASE acc.used + costs[n + 1] > budget /\ acc.current # <<>>
  <2>1. /\ next.groups = Append(acc.groups, acc.current)
        /\ next.current = <<n + 1>> /\ next.used = costs[n + 1]
    BY <1>4 DEF Place
  <2>2. n # 0
    <3>1. CASE n = 0
      <4>1. c[L] = 0
        BY <1>2, <3>1
      <4>2. Run(0, 0) = <<>>
        BY DEF Run
      <4> QED BY <1>4, <3>1, <4>1, <4>2 DEF PlacedUpTo
    <3> QED BY <3>1
  <2>3. c[L] < n /\ Cost(costs, c[L], n) <= budget /\ acc.current = Run(c[L], n)
    BY <2>2 DEF PlacedUpTo
  <2>4. PICK d : /\ CutAt(d, Append(acc.groups, Run(c[L], n)), costs, budget)
                 /\ d[L + 1] = n
                 /\ \A g \in 0..L : d[g] = c[g]
    <3>1. CutAt(c, acc.groups, costs, budget)
      BY DEF PlacedUpTo
    <3>2. \E d : CutsOff(d, n, c, acc.groups, costs, budget)
      BY <3>1, <1>1, <2>3, OneMoreCut
    <3> QED BY <3>2 DEF CutsOff
  <2>5. CutAt(d, next.groups, costs, budget)
    BY <2>1, <2>3, <2>4
  <2>6. Len(next.groups) = L + 1
    BY <2>1 DEF Placed
  <2>7. <<n + 1>> = Run(n, n + 1)
    <3>1. (n + 1) - n = 1 /\ Run(n, n + 1) = [i \in 1..1 |-> n + i]
      BY <1>1 DEF Run
    <3> QED BY <3>1, <1>1
  <2>8. Cost(costs, n, n + 1) = costs[n + 1]
    <3>1. Cost(costs, n, n + 1) = Cost(costs, n, n) + costs[n + 1]
      BY <1>1, CostAppended
    <3> QED BY <3>1, <1>1, CostOfNothing
  <2>9. Greedy(d, L + 1, costs, budget)
    <3>1. ASSUME NEW g \in 1..(L + 1)
          PROVE  Cost(costs, d[g - 1], d[g]) + costs[d[g] + 1] > budget
      <4>1. CASE g = L + 1
        <5>1. g - 1 = L /\ L \in 0..L
          BY <1>2, <4>1
        <5>2. d[g - 1] = c[L] /\ d[g] = n
          BY <5>1, <4>1, <2>4
        <5> QED BY <5>2, <1>3, <1>4
      <4>2. CASE g \in 1..L
        <5>1. g - 1 \in 0..L /\ g \in 0..L
          BY <1>2, <4>2
        <5>2. d[g - 1] = c[g - 1] /\ d[g] = c[g]
          BY <5>1, <2>4
        <5> QED BY <4>2, <5>2 DEF PlacedUpTo, Greedy
      <4>3. g = L + 1 \/ g \in 1..L
        BY <1>2
      <4> QED BY <4>1, <4>2, <4>3
    <3> QED BY <3>1 DEF Greedy
  <2>10. n <= n + 1 /\ n < n + 1
    BY <1>1
  <2> QED BY <2>1, <2>4, <2>5, <2>6, <2>7, <2>8, <2>9, <2>10 DEF PlacedUpTo
<1>5. CASE ~(acc.used + costs[n + 1] > budget /\ acc.current # <<>>)
  <2>1. /\ next.groups = acc.groups
        /\ next.current = Append(acc.current, n + 1) /\ next.used = acc.used + costs[n + 1]
    BY <1>5 DEF Place, Placed
  <2>2. next.current = Run(c[L], n + 1)
    <3>1. acc.current = Run(c[L], n)
      BY DEF PlacedUpTo
    <3> QED BY <2>1, <3>1, <1>1, <1>2, RunAppended
  <2>3. next.used = Cost(costs, c[L], n + 1)
    BY <2>1, <1>1, <1>2, <1>3, CostAppended
  <2>4. next.used <= budget
    <3>1. CASE acc.current # <<>>
      BY SMTT(60), <3>1, <1>1, <1>3, <1>5, <2>1
    <3>2. CASE acc.current = <<>>
      <4>1. Run(c[L], n) = <<>> /\ Len(Run(c[L], n)) = n - c[L]
        BY <3>2, <1>1, <1>2, RunIsASequence DEF PlacedUpTo
      <4>2. c[L] = n
        BY <4>1, <1>1, <1>2
      <4>3. acc.used = 0
        BY <4>2, <1>1, <1>3, CostOfNothing
      <4> QED BY <4>3, <2>1, <1>1
    <3> QED BY <3>1, <3>2
  <2>5. c[L] <= n + 1 /\ c[L] < n + 1
    BY <1>1, <1>2
  <2>6. PlacedUpTo(c, n + 1, next, costs, budget)
    BY <2>1, <2>2, <2>3, <2>4, <2>5 DEF PlacedUpTo
  <2> QED BY <2>6
<1> QED BY <1>4, <1>5

\* _chunk cuts its items into consecutive groups within the budget, as late as it can.
LEMMA ChunkCuts ==
  ASSUME NEW costs \in Seq(Nat), costs # <<>>, NEW budget \in Int,
         \A i \in 1..Len(costs) : costs[i] <= budget
  PROVE  \E c : /\ CutAt(c, Chunk(costs, budget), costs, budget)
                /\ Chunk(costs, budget) # <<>>
                /\ c[Len(Chunk(costs, budget))] = Len(costs)
                /\ Greedy(c, Len(Chunk(costs, budget)) - 1, costs, budget)
<1> DEFINE N == Len(costs)
<1>1. N \in Nat \ {0} /\ N \in 0..N
  OBVIOUS
<1>2. PICK f \in [0..N -> Placed] :
        /\ f[0] = Empty
        /\ \A n \in 1..N : f[n] = Place(f[n - 1], n, costs[n], budget)
        /\ Chunk(costs, budget) = Append(f[N].groups, f[N].current)
  BY ChunkByParts
<1> DEFINE S == {n \in 0..N : \E c : PlacedUpTo(c, n, f[n], costs, budget)}
<1>3. 0 \in S
  <2> DEFINE c == [g \in 0..0 |-> 0]
  <2>1. CutAt(c, <<>>, costs, budget)
    BY <1>1 DEF CutAt
  <2>2. c[0] = 0
    OBVIOUS
  <2>3. Run(0, 0) = <<>> /\ Cost(costs, 0, 0) = 0 /\ Len(<<>>) = 0
    BY CostOfNothing DEF Run
  <2>4. Greedy(c, 0, costs, budget)
    BY DEF Greedy
  <2> HIDE DEF c
  <2>5. PlacedUpTo(c, 0, Empty, costs, budget)
    BY <2>1, <2>2, <2>3, <2>4 DEF PlacedUpTo, Empty
  <2> QED BY <2>5, <1>1, <1>2
<1>4. ASSUME NEW n \in 0..(N - 1), n \in S PROVE n + 1 \in S
  <2>1. n + 1 \in 1..N /\ n + 1 \in 0..N /\ (n + 1) - 1 = n /\ n \in 0..N
    BY <1>1
  <2>2. f[n] \in Placed /\ f[n + 1] = Place(f[n], n + 1, costs[n + 1], budget) /\ costs[n + 1] <= budget
    BY <1>2, <2>1
  <2>3. PICK c : PlacedUpTo(c, n, f[n], costs, budget)
    BY <1>4
  <2>4. \E d : PlacedUpTo(d, n + 1, f[n + 1], costs, budget)
    BY <2>2, <2>3, OneMorePlaced
  <2> QED BY <2>1, <2>4
<1>5. N \in S
  <2> HIDE DEF S
  <2> QED BY <1>1, <1>3, <1>4, Induction
<1>6. PICK c : PlacedUpTo(c, N, f[N], costs, budget)
  BY <1>5
<1>7. f[N] \in Placed /\ f[N].groups \in Seq(Seq(Nat)) /\ f[N].current \in Seq(Nat)
  BY <1>1, <1>2 DEF Placed
<1> DEFINE L == Len(f[N].groups)
<1>8. /\ CutAt(c, f[N].groups, costs, budget)
      /\ c[L] < N /\ Cost(costs, c[L], N) <= budget /\ f[N].current = Run(c[L], N)
      /\ Greedy(c, L, costs, budget)
  BY <1>1, <1>6 DEF PlacedUpTo
<1>9. PICK d : /\ CutAt(d, Append(f[N].groups, Run(c[L], N)), costs, budget)
               /\ d[L + 1] = N
               /\ \A g \in 0..L : d[g] = c[g]
  <2>1. \E d : CutsOff(d, N, c, f[N].groups, costs, budget)
    BY <1>1, <1>8, OneMoreCut
  <2> QED BY <2>1 DEF CutsOff
<1>10. /\ Chunk(costs, budget) = Append(f[N].groups, Run(c[L], N))
       /\ Chunk(costs, budget) # <<>> /\ Len(Chunk(costs, budget)) = L + 1 /\ L \in Nat
  <2>1. Chunk(costs, budget) = Append(f[N].groups, f[N].current)
    BY <1>2
  <2>2. /\ Append(f[N].groups, f[N].current) # <<>> /\ L \in Nat
        /\ Len(Append(f[N].groups, f[N].current)) = L + 1
    <3>1. Appended(Append(f[N].groups, f[N].current), f[N].groups, f[N].current, Seq(Nat))
      BY <1>7, Appending
    <3> QED BY <3>1 DEF Appended
  <2> QED BY <1>8, <2>1, <2>2
<1>11. Greedy(d, L, costs, budget)
  <2>1. ASSUME NEW g \in 1..L PROVE d[g - 1] = c[g - 1] /\ d[g] = c[g]
    BY <1>9, <1>10
  <2> QED BY <1>8, <2>1 DEF Greedy
<1>12. (L + 1) - 1 = L
  BY <1>10
<1> QED BY <1>9, <1>10, <1>11, <1>12

-----------------------------------------------------------------------------
(* Trees *)

Nodes == [items : Seq(Nat), children : Seq(Nat)]
Span == [from : Nat, to : Nat]

\* Node n has the positions of its span, or its children have them one after the other.
IsLeaf(t, sp, n) == t[n].children = <<>> /\ t[n].items = Run(sp[n].from, sp[n].to)
IsInner(t, sp, n) ==
  LET kids == t[n].children IN
  /\ t[n].items = <<>> /\ kids # <<>>
  /\ \A j \in 1..Len(kids) :
       /\ kids[j] \in 1..(n - 1)
       /\ sp[kids[j]].from = IF j = 1 THEN sp[n].from ELSE sp[kids[j - 1]].to
  /\ sp[kids[Len(kids)]].to = sp[n].to

\* A node comes after its children, and a leaf after the positions before its own.
InPlace(t, sp, lo, n) ==
  IF t[n].children = <<>> THEN sp[n].from = IF n = 1 THEN lo ELSE sp[n - 1].to
  ELSE n > 1 /\ sp[n].to = sp[n - 1].to

\* Node c is given to node m, and to no other.
GivenOnlyTo(t, c, m) == \A n \in 1..Len(t) : c \in Children(t, n) <=> n = m
OneParent(t, n) == n = Len(t) \/ \E m \in 1..Len(t) : GivenOnlyTo(t, n, m)

\* The requests of tree t are given the positions after lo and up to hi, in order.
Spans(t, sp, lo, hi) ==
  /\ t \in Seq(Nodes) /\ t # <<>> /\ sp \in Seq(Span) /\ Len(sp) = Len(t)
  /\ sp[Len(t)].from = lo /\ sp[Len(t)].to = hi
  /\ \A n \in 1..Len(t) :
       /\ lo <= sp[n].from /\ sp[n].from < sp[n].to /\ sp[n].to <= hi
       /\ IsLeaf(t, sp, n) \/ IsInner(t, sp, n)
  /\ \A n \in 1..Len(t) : InPlace(t, sp, lo, n) /\ OneParent(t, n)

\* Numbers that do not fall from one to the next are in order.
LEMMA Monotone ==
  ASSUME NEW N \in Nat, NEW f \in [0..N -> Int], \A k \in 1..N : f[k - 1] <= f[k],
         NEW i \in 0..N, NEW j \in 0..N, i <= j
  PROVE  f[i] <= f[j]
<1> DEFINE S == {k \in 0..N : k >= i => f[i] <= f[k]}
<1>1. 0 \in S
  OBVIOUS
<1>2. ASSUME NEW k \in 0..(N - 1), k \in S PROVE k + 1 \in S
  <2>1. /\ k + 1 \in 1..N /\ k + 1 \in 0..N /\ k \in 0..N /\ (k + 1) - 1 = k
        /\ f[k] \in Int /\ f[k + 1] \in Int /\ f[i] \in Int
    OBVIOUS
  <2>2. f[k] <= f[k + 1]
    BY <2>1
  <2>3. CASE k >= i
    <3>1. f[i] <= f[k]
      BY <1>2, <2>3
    <3> QED BY <2>1, <2>2, <3>1
  <2>4. CASE ~(k >= i)
    <3>1. k + 1 >= i => k + 1 = i
      BY <2>4
    <3> QED BY <2>1, <3>1
  <2> QED BY <2>3, <2>4
<1>3. j \in S
  <2>1. \A k \in 0..N : k \in S
    <3> HIDE DEF S
    <3> QED BY <1>1, <1>2, Induction
  <2> QED BY <2>1
<1> QED BY <1>3

\* Where the trees below a parent end.
Ends(e, trees) ==
  /\ e \in [0..Len(trees) -> Nat] /\ e[0] = 0
  /\ \A k \in 1..Len(trees) : e[k] = e[k - 1] + Len(trees[k])

Below(e, trees) == FlattenSeq([k \in DOMAIN trees |-> Shifted(trees[k], e[k - 1])])

\* A parent comes after its trees, whose ends are its children.
LEMMA ParentByParts ==
  ASSUME NEW trees \in Seq(Seq(Nodes))
  PROVE  \E e : /\ Ends(e, trees)
                /\ Parent(trees) =
                     Append(Below(e, trees), [items |-> <<>>, children |-> [k \in DOMAIN trees |-> e[k]]])
<1> DEFINE N == Len(trees)
           end[k \in 0..N] == IF k = 0 THEN 0 ELSE end[k - 1] + Len(trees[k])
           step == [x \in Nat \X (1..N) |-> x[1] + Len(trees[x[2]])]
<1>1. N \in Nat /\ 0 \in Nat /\ \A k \in 1..N : Len(trees[k]) \in Nat
  OBVIOUS
<1>2. /\ step \in Steps(Nat, N)
      /\ \A x \in Nat, n \in 1..N : step[<<x, n>>] = x + Len(trees[n])
  <2> HIDE DEF end, N
  <2>1. step \in [Nat \X (1..N) -> Nat]
    <3>1. \A x \in Nat \X (1..N) : x[1] \in Nat /\ x[2] \in 1..N
      OBVIOUS
    <3> QED BY <1>1, <3>1
  <2>2. ASSUME NEW x \in Nat, NEW n \in 1..N PROVE step[<<x, n>>] = x + Len(trees[n])
    <3>1. <<x, n>> \in Nat \X (1..N)
      OBVIOUS
    <3> QED BY <3>1
  <2> QED BY <2>1, <2>2 DEF Steps
<1>3. PICK f : Iterates(f, N, Nat, 0, step)
  <2> HIDE DEF step, N
  <2> QED BY <1>1, <1>2, Recursion
<1> HIDE DEF step
<1>4. ASSUME NEW n \in 1..N PROVE f[n] = f[n - 1] + Len(trees[n])
  <2>1. n - 1 \in 0..N
    BY <1>1
  <2>2. f[n - 1] \in Nat
    BY <1>3, <2>1 DEF Iterates
  <2> QED BY <1>2, <1>3, <2>2 DEF Iterates
<1>5. f = [k \in 0..N |-> IF k = 0 THEN 0 ELSE f[k - 1] + Len(trees[k])]
  <2>1. ASSUME NEW k \in 0..N PROVE f[k] = IF k = 0 THEN 0 ELSE f[k - 1] + Len(trees[k])
    <3>1. k = 0 \/ k \in 1..N
      BY <1>1
    <3> QED BY <1>3, <1>4, <3>1 DEF Iterates
  <2> QED BY <1>3, <2>1 DEF Iterates
<1>6. end = [k \in 0..N |-> IF k = 0 THEN 0 ELSE end[k - 1] + Len(trees[k])]
  BY <1>5
<1>7. Parent(trees) =
        Append(Below(end, trees), [items |-> <<>>, children |-> [k \in DOMAIN trees |-> end[k]]])
  BY DEF Parent, Below
<1> HIDE DEF end
<1>8. end[0] = 0
  BY <1>1, <1>6
<1>9. ASSUME NEW k \in 1..N PROVE end[k] = end[k - 1] + Len(trees[k])
  <2>1. k \in 0..N /\ k # 0
    BY <1>1
  <2> QED BY <1>6, <2>1, Zenon
<1>10. \A k \in 0..N : end[k] \in Nat
  <2> DEFINE S == {k \in 0..N : end[k] \in Nat}
  <2>1. 0 \in S
    BY <1>1, <1>8
  <2>2. ASSUME NEW k \in 0..(N - 1), k \in S PROVE k + 1 \in S
    <3>1. k + 1 \in 1..N /\ k + 1 \in 0..N /\ (k + 1) - 1 = k /\ end[k] \in Nat
      BY <1>1, <2>2
    <3> QED BY <1>1, <1>9, <3>1
  <2>3. \A k \in 0..N : k \in S
    <3> HIDE DEF S
    <3> QED BY <1>1, <2>1, <2>2, Induction
  <2> QED BY <2>3
<1>11. Ends(end, trees)
  BY <1>6, <1>8, <1>9, <1>10 DEF Ends
<1> QED BY <1>7, <1>11

\* A place among the nodes is a place in one of the trees.
LEMMA OnePlace ==
  ASSUME NEW trees \in Seq(Seq(Nodes)), NEW e, Ends(e, trees),
         NEW i \in 1..Len(trees), NEW k \in 1..Len(trees),
         NEW h \in 1..Len(trees[i]), NEW j \in 1..Len(trees[k]),
         e[i - 1] + h = e[k - 1] + j
  PROVE  i = k /\ h = j
<1> DEFINE N == Len(trees)
<1>1. N \in Nat /\ e \in [0..N -> Nat]
      /\ \A n \in 1..N : e[n] = e[n - 1] + Len(trees[n]) /\ Len(trees[n]) \in Nat
  <2>1. \A n \in 1..N : Len(trees[n]) \in Nat
    BY ElementOfSeq
  <2> QED BY SMTT(60), <2>1 DEF Ends
<1>2. ASSUME NEW a \in 1..N, NEW b \in 1..N, a < b PROVE e[a - 1] + Len(trees[a]) <= e[b - 1]
  <2>1. \A n \in 1..N : e[n - 1] <= e[n]
    <3> TAKE n \in 1..N
    <3>1. n - 1 \in 0..N
      BY <1>1
    <3>2. e[n - 1] \in Nat /\ e[n] = e[n - 1] + Len(trees[n]) /\ Len(trees[n]) \in Nat
      BY <1>1, <3>1
    <3> DEFINE x == e[n - 1]
               y == e[n]
               l == Len(trees[n])
    <3>3. x \in Nat /\ l \in Nat /\ y = x + l
      BY <3>2
    <3> HIDE DEF x, y, l
    <3>4. x <= y
      BY <3>3
    <3> QED BY <3>4 DEF x, y
  <2>2. e \in [0..N -> Int] /\ a \in 0..N /\ b - 1 \in 0..N /\ a <= b - 1
    BY <1>1, <1>2
  <2>3. e[a] <= e[b - 1]
    <3> HIDE DEF N
    <3> QED BY <1>1, <2>1, <2>2, Monotone
  <2> QED BY <1>1, <2>3
<1>3. e[i - 1] \in Nat /\ e[k - 1] \in Nat /\ Len(trees[i]) \in Nat /\ Len(trees[k]) \in Nat
  <2>1. i - 1 \in 0..N /\ k - 1 \in 0..N
    BY <1>1
  <2> QED BY <1>1, <2>1
<1> DEFINE li == Len(trees[i])
           lk == Len(trees[k])
           x == e[i - 1]
           y == e[k - 1]
<1>0. /\ x \in Nat /\ y \in Nat /\ li \in Nat /\ lk \in Nat /\ h \in 1..li /\ j \in 1..lk
      /\ x + h = y + j
  BY <1>3
<1>4. ~(i < k)
  <2> SUFFICES ASSUME i < k PROVE FALSE
    OBVIOUS
  <2>1. x + li <= y
    BY <1>2
  <2> HIDE DEF li, lk, x, y
  <2> QED BY <1>0, <2>1
<1>5. ~(k < i)
  <2> SUFFICES ASSUME k < i PROVE FALSE
    OBVIOUS
  <2>1. y + lk <= x
    BY <1>2
  <2> HIDE DEF li, lk, x, y
  <2> QED BY <1>0, <2>1
<1>6. i = k
  BY <1>4, <1>5
<1> QED BY <1>3, <1>6

\* Numbers that are all moved by the same amount.
Moved(r, s, by) ==
  r \in Seq(Nat) /\ Len(r) = Len(s) /\ \A j \in 1..Len(s) : r[j] = s[j] + by

\* Adding a number to all children moves each of them by it.
LEMMA MovingAll ==
  ASSUME NEW s \in Seq(Nat), NEW by \in Nat
  PROVE  Moved([c \in DOMAIN s |-> s[c] + by], s, by)
<1>1. Len(s) \in Nat /\ DOMAIN s = 1..Len(s) /\ \A c \in 1..Len(s) : s[c] + by \in Nat
  OBVIOUS
<1> QED BY <1>1 DEF Moved

\* A shifted tree has the same nodes, with other places for their children.
ShiftOf(r, t, by) ==
  /\ r \in Seq(Nodes) /\ Len(r) = Len(t)
  /\ \A n \in 1..Len(t) : r[n].items = t[n].items /\ Moved(r[n].children, t[n].children, by)

\* Shifting a tree moves its children and nothing else.
LEMMA ShiftedTree ==
  ASSUME NEW t \in Seq(Nodes), NEW by \in Nat
  PROVE  ShiftOf(Shifted(t, by), t, by)
<1>1. Len(t) \in Nat /\ DOMAIN t = 1..Len(t)
  OBVIOUS
<1>2. ASSUME NEW n \in 1..Len(t)
      PROVE  /\ Shifted(t, by)[n] \in Nodes /\ Shifted(t, by)[n].items = t[n].items
             /\ Moved(Shifted(t, by)[n].children, t[n].children, by)
  <2>1. t[n] \in Nodes
    BY <1>1
  <2>2. t[n].items \in Seq(Nat) /\ t[n].children \in Seq(Nat)
    BY <2>1 DEF Nodes
  <2> DEFINE kids == [c \in DOMAIN t[n].children |-> t[n].children[c] + by]
  <2>3. Shifted(t, by)[n] = [t[n] EXCEPT !.children = kids]
    BY <1>1 DEF Shifted
  <2>4. Moved(kids, t[n].children, by)
    BY <2>2, MovingAll
  <2> HIDE DEF kids
  <2>5. Shifted(t, by)[n].items = t[n].items /\ Shifted(t, by)[n].children = kids
        /\ Shifted(t, by)[n] \in Nodes
    BY <2>1, <2>3, <2>4 DEF Nodes, Moved
  <2> QED BY <2>4, <2>5
<1>3. Shifted(t, by) = [n \in 1..Len(t) |-> Shifted(t, by)[n]]
  BY <1>1 DEF Shifted
<1>4. Shifted(t, by) \in Seq(Nodes) /\ Len(Shifted(t, by)) = Len(t)
  BY <1>1, <1>2, <1>3
<1> QED BY <1>2, <1>4 DEF ShiftOf

\* The nodes of the trees below a parent, and where they are.
NodesOfTrees(e, trees, below) ==
  /\ below \in Seq(Nodes) /\ Len(below) = e[Len(trees)]
  /\ \A k \in 1..Len(trees) : \A j \in 1..Len(trees[k]) :
       /\ e[k - 1] + j \in 1..Len(below)
       /\ below[e[k - 1] + j] = Shifted(trees[k], e[k - 1])[j]
  /\ \A i \in 1..Len(below) :
       \E k \in 1..Len(trees) : \E j \in 1..Len(trees[k]) : i = e[k - 1] + j

\* The shifted trees are where their ends say, and nothing else is there.
LEMMA TreesAreBelow ==
  ASSUME NEW trees \in Seq(Seq(Nodes)), NEW e, Ends(e, trees)
  PROVE  NodesOfTrees(e, trees, Below(e, trees))
<1> DEFINE N == Len(trees)
           s == [k \in DOMAIN trees |-> Shifted(trees[k], e[k - 1])]
<1>1. N \in Nat /\ DOMAIN trees = 1..N /\ e \in [0..N -> Nat]
  BY DEF Ends
<1>2. ASSUME NEW k \in 1..N
      PROVE  s[k] \in Seq(Nodes) /\ Len(s[k]) = Len(trees[k]) /\ s[k] = Shifted(trees[k], e[k - 1])
  <2>1. k - 1 \in 0..N
    BY <1>1
  <2>2. trees[k] \in Seq(Nodes) /\ e[k - 1] \in Nat
    BY <1>1, <2>1, ElementOfSeq
  <2>3. s[k] = Shifted(trees[k], e[k - 1])
    BY <1>1
  <2> QED BY <2>2, <2>3, ShiftedTree DEF ShiftOf
<1>3. s = [k \in 1..N |-> s[k]]
  BY <1>1
<1> HIDE DEF s
<1>4. s \in Seq(Seq(Nodes)) /\ Len(s) = N
  BY <1>1, <1>2, <1>3
<1>5. /\ e \in [0..Len(s) -> Nat] /\ e[0] = 0
      /\ \A k \in 1..Len(s) : e[k] = e[k - 1] + Len(s[k])
  BY <1>1, <1>2, <1>4 DEF Ends
<1>6. /\ FlattenSeq(s) \in Seq(Nodes) /\ Len(FlattenSeq(s)) = e[Len(s)]
      /\ \A k \in 1..Len(s) : \A j \in 1..Len(s[k]) :
           /\ e[k - 1] + j \in 1..Len(FlattenSeq(s))
           /\ FlattenSeq(s)[e[k - 1] + j] = s[k][j]
      /\ \A i \in 1..Len(FlattenSeq(s)) :
           \E k \in 1..Len(s) : \E j \in 1..Len(s[k]) : i = e[k - 1] + j
  BY ZenonT(60), <1>4, <1>5, FlattenPlaces
<1>7. Below(e, trees) = FlattenSeq(s)
  BY DEF Below, s
<1>8. ASSUME NEW k \in 1..N, NEW j \in 1..Len(trees[k])
      PROVE  /\ e[k - 1] + j \in 1..Len(FlattenSeq(s))
             /\ FlattenSeq(s)[e[k - 1] + j] = Shifted(trees[k], e[k - 1])[j]
  <2>1. s[k] = Shifted(trees[k], e[k - 1]) /\ k \in 1..Len(s) /\ j \in 1..Len(s[k])
    BY <1>2, <1>4
  <2> QED BY <1>6, <2>1
<1>9. ASSUME NEW i \in 1..Len(FlattenSeq(s))
      PROVE  \E k \in 1..N : \E j \in 1..Len(trees[k]) : i = e[k - 1] + j
  <2>1. PICK k \in 1..Len(s) : \E j \in 1..Len(s[k]) : i = e[k - 1] + j
    BY <1>6
  <2>2. k \in 1..N /\ Len(s[k]) = Len(trees[k])
    BY <1>2, <1>4
  <2> QED BY <2>1, <2>2
<1> QED BY ZenonT(60), <1>4, <1>6, <1>7, <1>8, <1>9 DEF NodesOfTrees

\* Cuts that grow have at least one position each.
LEMMA CutsGrow ==
  ASSUME NEW N \in Nat, NEW c \in [0..N -> Nat], \A k \in 1..N : c[k - 1] < c[k]
  PROVE  \A k \in 0..N : c[0] + k <= c[k]
<1> DEFINE S == {k \in 0..N : c[0] + k <= c[k]}
<1>1. 0 \in S
  OBVIOUS
<1>2. ASSUME NEW k \in 0..(N - 1), k \in S PROVE k + 1 \in S
  <2>1. k + 1 \in 1..N /\ k + 1 \in 0..N /\ (k + 1) - 1 = k /\ c[k] \in Nat /\ c[k + 1] \in Nat /\ c[0] \in Nat
    OBVIOUS
  <2>2. c[k] < c[k + 1] /\ c[0] + k <= c[k]
    BY <1>2, <2>1
  <2> QED BY <2>1, <2>2
<1>3. \A k \in 0..N : k \in S
  <2> HIDE DEF S
  <2> QED BY <1>1, <1>2, Induction
<1> QED BY <1>3

\* Cuts that grow are in order.
LEMMA CutsInOrder ==
  ASSUME NEW N \in Nat, NEW c \in [0..N -> Nat], \A k \in 1..N : c[k - 1] < c[k]
  PROVE  \A k \in 0..N : c[0] <= c[k] /\ c[k] <= c[N]
<1>1. ASSUME NEW k \in 0..N PROVE c[0] <= c[k]
  <2>1. c[0] + k <= c[k]
    BY CutsGrow
  <2>2. c[0] \in Nat /\ c[k] \in Nat
    OBVIOUS
  <2> QED BY <2>1, <2>2
<1> DEFINE S == {k \in 0..N : c[N - k] <= c[N]}
<1>2. 0 \in S
  OBVIOUS
<1>3. ASSUME NEW k \in 0..(N - 1), k \in S PROVE k + 1 \in S
  <2>1. /\ k + 1 \in 0..N /\ N - k \in 1..N /\ N - (k + 1) \in 0..N /\ (N - k) - 1 = N - (k + 1)
        /\ c[N - k] \in Nat /\ c[N - (k + 1)] \in Nat /\ c[N] \in Nat
    OBVIOUS
  <2>2. c[N - (k + 1)] < c[N - k] /\ c[N - k] <= c[N]
    BY <1>3, <2>1
  <2> QED BY <2>1, <2>2
<1>4. \A k \in 0..N : k \in S
  <2> HIDE DEF S
  <2> QED BY <1>2, <1>3, Induction
<1>5. ASSUME NEW k \in 0..N PROVE c[k] <= c[N]
  <2>1. N - k \in 0..N /\ N - (N - k) = k
    OBVIOUS
  <2> QED BY <1>4, <2>1
<1> QED BY <1>1, <1>5

\* Node m has the children that node h of a tree has, moved.
ChildrenMoved(t, m, tree, h, by) ==
  \A x : x \in Children(t, m) <=>
         \E y \in 1..(h - 1) : y \in Children(tree, h) /\ x = by + y

\* A parent of consecutive trees is a tree.
LEMMA ParentSpans ==
  ASSUME NEW trees \in Seq(Seq(Nodes)), trees # <<>>, NEW c \in [0..Len(trees) -> Nat],
         \A k \in 1..Len(trees) : \E sp : Spans(trees[k], sp, c[k - 1], c[k])
  PROVE  \E sp : Spans(Parent(trees), sp, c[0], c[Len(trees)])
<1> DEFINE N == Len(trees)
           F == [k \in 1..N |-> CHOOSE sp : Spans(trees[k], sp, c[k - 1], c[k])]
<1>1. N \in Nat \ {0} /\ DOMAIN trees = 1..N /\ N \in 1..N /\ 1 \in 1..N /\ 0 \in 0..N
  OBVIOUS
<1>2. ASSUME NEW k \in 1..N
      PROVE  /\ Spans(trees[k], F[k], c[k - 1], c[k])
             /\ F[k] \in Seq(Span) /\ Len(F[k]) = Len(trees[k]) /\ Len(trees[k]) \in 1..Len(trees[k])
             /\ F[k][Len(trees[k])].from = c[k - 1] /\ F[k][Len(trees[k])].to = c[k] /\ c[k - 1] < c[k]
  <2>1. Spans(trees[k], F[k], c[k - 1], c[k])
    OBVIOUS
  <2> HIDE DEF F
  <2>2. trees[k] \in Seq(Nodes) /\ trees[k] # <<>>
    BY <2>1 DEF Spans
  <2>3. Len(trees[k]) \in 1..Len(trees[k])
    BY <2>2, EmptySeq
  <2> QED BY <2>1, <2>3 DEF Spans
<1>3. F \in Seq(Seq(Span)) /\ Len(F) = N
  <2>1. F = [k \in 1..N |-> F[k]]
    OBVIOUS
  <2> HIDE DEF F
  <2> QED BY <1>1, <1>2, <2>1
<1> HIDE DEF F
<1>4. PICK e : /\ Ends(e, trees)
               /\ Parent(trees) =
                    Append(Below(e, trees), [items |-> <<>>, children |-> [k \in DOMAIN trees |-> e[k]]])
  BY ParentByParts
<1> DEFINE B == Below(e, trees)
           M == e[N]
           kids == [k \in DOMAIN trees |-> e[k]]
           root == [items |-> <<>>, children |-> kids]
           t == Append(B, root)
           S == FlattenSeq(F)
           top == [from |-> c[0], to |-> c[N]]
           sp == Append(S, top)
<1>5. NodesOfTrees(e, trees, B)
  BY <1>4, TreesAreBelow
<1>6. e \in [0..N -> Nat] /\ e[0] = 0 /\ \A k \in 1..N : e[k] = e[k - 1] + Len(trees[k])
  BY <1>4 DEF Ends
<1>7. /\ S \in Seq(Span) /\ Len(S) = M
      /\ \A k \in 1..N : \A j \in 1..Len(trees[k]) : S[e[k - 1] + j] = F[k][j]
  <2>1. /\ e \in [0..Len(F) -> Nat] /\ e[0] = 0
        /\ \A k \in 1..Len(F) : e[k] = e[k - 1] + Len(F[k])
    BY <1>2, <1>3, <1>6
  <2>2. /\ FlattenSeq(F) \in Seq(Span) /\ Len(FlattenSeq(F)) = e[Len(F)]
        /\ \A k \in 1..Len(F) : \A j \in 1..Len(F[k]) :
             /\ e[k - 1] + j \in 1..Len(FlattenSeq(F))
             /\ FlattenSeq(F)[e[k - 1] + j] = F[k][j]
    BY ZenonT(60), <1>3, <2>1, FlattenPlaces
  <2> QED BY <1>2, <1>3, <2>2
<1>8. M \in Nat /\ B \in Seq(Nodes) /\ Len(B) = M
  BY <1>1, <1>5, <1>6 DEF NodesOfTrees
<1> HIDE DEF B, S
<1>9. ASSUME NEW k \in 1..N
      PROVE  e[k] \in 1..M /\ S[e[k]].from = c[k - 1] /\ S[e[k]].to = c[k]
  <2>1. Len(trees[k]) \in 1..Len(trees[k]) /\ e[k] = e[k - 1] + Len(trees[k])
    BY <1>2, <1>6
  <2>2. e[k] \in 1..M
    BY <1>5, <1>8, <2>1 DEF NodesOfTrees
  <2>3. S[e[k]] = F[k][Len(trees[k])]
    BY <1>7, <2>1
  <2> QED BY <1>2, <2>2, <2>3
<1>10. kids \in Seq(Nat) /\ Len(kids) = N /\ \A k \in 1..N : kids[k] = e[k]
  <2>1. \A k \in 1..N : e[k] \in Nat
    BY <1>8, <1>9
  <2> QED BY <1>1, <2>1
<1> HIDE DEF kids
<1>11. root \in Nodes /\ root.items = <<>> /\ root.children = kids
  BY <1>10 DEF Nodes
<1>12. c[0] \in Nat /\ c[N] \in Nat /\ c[0] < c[N]
  <2>1. c[0] \in Nat /\ c[N] \in Nat /\ N \in 0..N
    <3>1. N \in 0..N
      BY <1>1
    <3> QED BY <1>1, <3>1
  <2>2. c[0] + N <= c[N]
    <3>1. \A k \in 1..N : c[k - 1] < c[k]
      BY <1>2
    <3>2. \A k \in 0..N : c[0] + k <= c[k]
      BY <1>1, <3>1, CutsGrow
    <3> QED BY <2>1, <3>2
  <2> QED BY <1>1, <2>1, <2>2
<1>13. top \in Span /\ top.from = c[0] /\ top.to = c[N]
  BY <1>12 DEF Span
<1> HIDE DEF root, top
<1>14. /\ t \in Seq(Nodes) /\ t # <<>> /\ Len(t) = M + 1 /\ t[M + 1] = root
       /\ \A i \in 1..M : t[i] = B[i]
  <2>1. Appended(t, B, root, Nodes)
    BY <1>8, <1>11, Appending
  <2> QED BY <1>8, <2>1 DEF Appended
<1>15. /\ sp \in Seq(Span) /\ Len(sp) = M + 1 /\ sp[M + 1] = top
       /\ \A i \in 1..M : sp[i] = S[i]
  <2>1. Appended(sp, S, top, Span)
    BY <1>7, <1>13, Appending
  <2> QED BY <1>7, <1>8, <2>1 DEF Appended
<1> HIDE DEF t, sp
<1>16. ASSUME NEW k \in 1..N, NEW j \in 1..Len(trees[k])
       PROVE  LET n == e[k - 1] + j IN
              /\ c[0] <= sp[n].from /\ sp[n].from < sp[n].to /\ sp[n].to <= c[N]
              /\ IsLeaf(t, sp, n) \/ IsInner(t, sp, n)
  <2> DEFINE by == e[k - 1]
             n == by + j
             kin == trees[k][j].children
  <2>1. by \in Nat /\ trees[k] \in Seq(Nodes) /\ Len(trees[k]) \in Nat /\ j \in Nat
    <3>1. k - 1 \in 0..N
      BY <1>1
    <3>2. by \in Nat /\ trees[k] \in Seq(Nodes)
      BY <3>1, <1>6, ElementOfSeq
    <3> QED BY <3>2
  <2>2. \A i \in 1..Len(trees[k]) : by + i \in 1..M /\ sp[by + i] = F[k][i]
    BY <1>5, <1>7, <1>8, <1>15 DEF NodesOfTrees
  <2>3. n \in 1..M /\ sp[n] = F[k][j] /\ t[n] = Shifted(trees[k], by)[j]
    BY <1>5, <1>8, <1>14, <2>2 DEF NodesOfTrees
  <2>4. /\ t[n].items = trees[k][j].items
        /\ t[n].children \in Seq(Nat) /\ Len(t[n].children) = Len(kin)
        /\ \A i \in 1..Len(kin) : t[n].children[i] = kin[i] + by
    <3>1. ShiftOf(Shifted(trees[k], by), trees[k], by)
      BY <2>1, ShiftedTree
    <3> QED BY <2>3, <3>1 DEF ShiftOf, Moved
  <2>5. kin \in Seq(Nat)
    <3>1. trees[k][j] \in Nodes
      BY <2>1, ElementOfSeq
    <3> QED BY <3>1 DEF Nodes
  <2>6. /\ c[0] <= F[k][j].from /\ F[k][j].from < F[k][j].to /\ F[k][j].to <= c[N]
        /\ IsLeaf(trees[k], F[k], j) \/ IsInner(trees[k], F[k], j)
    <3>1. /\ c[k - 1] <= F[k][j].from /\ F[k][j].from < F[k][j].to /\ F[k][j].to <= c[k]
          /\ IsLeaf(trees[k], F[k], j) \/ IsInner(trees[k], F[k], j)
      BY <1>2 DEF Spans
    <3>2. k - 1 \in 0..N /\ k \in 0..N
      BY <1>1
    <3>3. c[0] <= c[k - 1] /\ c[k] <= c[N]
      <4>1. \A i \in 1..N : c[i - 1] < c[i]
        BY <1>2
      <4>2. N \in Nat /\ c \in [0..N -> Nat]
        BY <1>1
      <4>3. \A i \in 0..N : c[0] <= c[i] /\ c[i] <= c[N]
        <5> HIDE DEF N
        <5> QED BY <4>1, <4>2, CutsInOrder
      <4> QED BY <3>2, <4>3
    <3>4. F[k][j] \in Span
      <4>1. F[k] \in Seq(Span) /\ j \in 1..Len(F[k])
        BY <1>2
      <4> QED BY <4>1, ElementOfSeq
    <3>5. F[k][j].from \in Nat /\ F[k][j].to \in Nat
      BY <3>4 DEF Span
    <3>6. c[0] \in Nat /\ c[k - 1] \in Nat /\ c[k] \in Nat /\ c[N] \in Nat
      <4>1. N \in 0..N /\ c \in [0..N -> Nat]
        BY <1>1
      <4> HIDE DEF N
      <4> QED BY <1>1, <3>2, <4>1
    <3>7. c[0] <= F[k][j].from /\ F[k][j].to <= c[N]
      <4> DEFINE x == F[k][j].from
                 y == F[k][j].to
      <4> HIDE DEF x, y, N
      <4>1. x \in Nat /\ y \in Nat /\ c[k - 1] <= x /\ y <= c[k]
        BY <3>1, <3>5 DEF x, y
      <4>2. c[0] <= x /\ y <= c[N]
        BY SMTT(60), <3>3, <3>6, <4>1
      <4> QED BY <4>2 DEF x, y
    <3> QED BY <3>1, <3>7
  <2> HIDE DEF n, by, kin
  <2>7. CASE IsLeaf(trees[k], F[k], j)
    <3>1. kin = <<>> /\ trees[k][j].items = Run(F[k][j].from, F[k][j].to)
      BY <2>7 DEF IsLeaf, kin
    <3>2. t[n].children = <<>>
      BY <2>4, <2>5, <3>1
    <3>3. IsLeaf(t, sp, n)
      BY <2>3, <2>4, <3>1, <3>2 DEF IsLeaf
    <3> QED BY <2>3, <2>6, <3>3 DEF n, by
  <2>8. CASE IsInner(trees[k], F[k], j)
    <3>1. /\ trees[k][j].items = <<>> /\ kin # <<>>
          /\ \A i \in 1..Len(kin) :
               /\ kin[i] \in 1..(j - 1)
               /\ F[k][kin[i]].from = IF i = 1 THEN F[k][j].from ELSE F[k][kin[i - 1]].to
          /\ F[k][kin[Len(kin)]].to = F[k][j].to
      BY <2>8 DEF IsInner, kin
    <3>2. Len(kin) \in Nat \ {0}
      BY <2>5, <3>1, EmptySeq
    <3>3. ASSUME NEW i \in 1..Len(kin)
          PROVE  t[n].children[i] \in 1..(n - 1) /\ sp[t[n].children[i]] = F[k][kin[i]]
      <4>1. kin[i] \in 1..(j - 1) /\ kin[i] \in 1..Len(trees[k])
        BY SMTT(60), <2>1, <3>1
      <4>2. t[n].children[i] = by + kin[i]
        BY SMTT(60), <2>1, <2>4, <4>1
      <4>3. by + kin[i] \in 1..(n - 1)
        BY SMTT(60), <2>1, <4>1 DEF n
      <4> QED BY <2>2, <4>1, <4>2, <4>3
    <3>4. ASSUME NEW i \in 1..Len(kin)
          PROVE  sp[t[n].children[i]].from = IF i = 1 THEN sp[n].from ELSE sp[t[n].children[i - 1]].to
      <4>1. CASE i = 1
        BY <4>1, <2>3, <3>1, <3>3
      <4>2. CASE i # 1
        <5>1. i - 1 \in 1..Len(kin)
          BY <3>2, <4>2
        <5> QED BY <4>2, <5>1, <3>1, <3>3
      <4> QED BY <4>1, <4>2
    <3>5. Len(kin) \in 1..Len(kin) /\ sp[t[n].children[Len(kin)]].to = sp[n].to
      <4>1. Len(kin) \in 1..Len(kin)
        BY <3>2
      <4>2. sp[t[n].children[Len(kin)]] = F[k][kin[Len(kin)]]
        BY <3>3, <4>1
      <4> QED BY <2>3, <3>1, <4>1, <4>2
    <3>6. t[n].items = <<>> /\ t[n].children # <<>>
      BY <2>4, <3>1, <3>2
    <3>7. IsInner(t, sp, n)
      BY <2>4, <3>3, <3>4, <3>5, <3>6 DEF IsInner
    <3> QED BY <2>3, <2>6, <3>7 DEF n, by
  <2> QED BY <2>6, <2>7, <2>8
<1>17. IsInner(t, sp, M + 1)
  <2>1. t[M + 1].items = <<>> /\ t[M + 1].children = kids /\ kids # <<>>
    BY <1>1, <1>10, <1>11, <1>14
  <2>2. ASSUME NEW k \in 1..N
        PROVE  kids[k] = e[k] /\ kids[k] \in 1..((M + 1) - 1) /\ sp[kids[k]].from = c[k - 1] /\ sp[kids[k]].to = c[k]
    <3>1. e[k] \in 1..M /\ S[e[k]].from = c[k - 1] /\ S[e[k]].to = c[k] /\ kids[k] = e[k]
      BY <1>9, <1>10
    <3>2. sp[e[k]] = S[e[k]]
      BY <1>15, <3>1
    <3>3. e[k] \in 1..((M + 1) - 1)
      BY <1>8, <3>1
    <3> QED BY <3>1, <3>2, <3>3
  <2>3. ASSUME NEW k \in 1..N
        PROVE  sp[kids[k]].from = IF k = 1 THEN sp[M + 1].from ELSE sp[kids[k - 1]].to
    <3>1. CASE k = 1
      BY <3>1, <2>2, <1>13, <1>15
    <3>2. CASE k # 1
      <4>1. k - 1 \in 1..N
        BY <1>1, <3>2
      <4> QED BY <3>2, <4>1, <2>2
    <3> QED BY <3>1, <3>2
  <2>4. sp[kids[N]].to = sp[M + 1].to
    BY <1>1, <1>13, <1>15, <2>2
  <2> QED BY <2>1, <2>2, <2>3, <2>4, <1>10 DEF IsInner
<1>18. ASSUME NEW n \in 1..(M + 1)
       PROVE  /\ c[0] <= sp[n].from /\ sp[n].from < sp[n].to /\ sp[n].to <= c[N]
              /\ IsLeaf(t, sp, n) \/ IsInner(t, sp, n)
  <2>1. CASE n = M + 1
    BY <2>1, <1>12, <1>13, <1>15, <1>17
  <2>2. CASE n \in 1..M
    <3>1. PICK k \in 1..N : \E j \in 1..Len(trees[k]) : n = e[k - 1] + j
      BY <2>2, <1>5, <1>8 DEF NodesOfTrees
    <3> QED BY <3>1, <1>16
  <2> QED BY <1>8, <2>1, <2>2
<1>19. ASSUME NEW k \in 1..N, NEW j \in 1..Len(trees[k])
       PROVE  InPlace(t, sp, c[0], e[k - 1] + j)
  <2> DEFINE by == e[k - 1]
             n == by + j
  <2>1. by \in Nat /\ trees[k] \in Seq(Nodes) /\ Len(trees[k]) \in Nat /\ j \in Nat
    <3>1. k - 1 \in 0..N
      BY <1>1
    <3>2. by \in Nat /\ trees[k] \in Seq(Nodes)
      BY <3>1, <1>6, ElementOfSeq
    <3> QED BY <3>2
  <2>2. \A i \in 1..Len(trees[k]) : by + i \in 1..M /\ sp[by + i] = F[k][i]
    BY <1>5, <1>7, <1>8, <1>15 DEF NodesOfTrees
  <2>3. n \in 1..M /\ sp[n] = F[k][j] /\ t[n] = Shifted(trees[k], by)[j]
    BY <1>5, <1>8, <1>14, <2>2 DEF NodesOfTrees
  <2>4. t[n].children = <<>> <=> trees[k][j].children = <<>>
    <3>1. ShiftOf(Shifted(trees[k], by), trees[k], by)
      BY <2>1, ShiftedTree
    <3>2. t[n].children \in Seq(Nat) /\ Len(t[n].children) = Len(trees[k][j].children)
      BY <2>3, <3>1 DEF ShiftOf, Moved
    <3>3. trees[k][j].children \in Seq(Nat)
      <4>1. trees[k][j] \in Nodes
        BY <2>1, ElementOfSeq
      <4> QED BY <4>1 DEF Nodes
    <3> QED BY <3>2, <3>3, EmptySeq
  <2>5. InPlace(trees[k], F[k], c[k - 1], j)
    BY <1>2 DEF Spans
  <2>6. ASSUME j # 1 PROVE sp[n - 1] = F[k][j - 1] /\ n > 1
    <3>1. j - 1 \in 1..Len(trees[k]) /\ by + (j - 1) = n - 1 /\ n > 1
      BY SMTT(60), <2>1, <2>6
    <3> QED BY <2>2, <3>1
  <2>7. ASSUME j = 1 PROVE c[k - 1] = IF n = 1 THEN c[0] ELSE sp[n - 1].to
    <3>1. n = by + 1 /\ n - 1 = by
      BY <2>1, <2>7
    <3>2. CASE k = 1
      <4>1. by = 0
        BY <1>6, <3>2
      <4> QED BY <3>1, <3>2, <4>1
    <3>3. CASE k # 1
      <4>1. k - 1 \in 1..N
        BY <1>1, <3>3
      <4>2. by \in 1..M /\ S[by].to = c[k - 1]
        BY <1>9, <4>1
      <4>3. sp[by] = S[by] /\ by # 0
        BY <1>15, <4>2
      <4> QED BY SMTT(60), <2>1, <3>1, <4>2, <4>3
    <3> QED BY <3>2, <3>3
  <2> HIDE DEF n, by
  <2>8. CASE trees[k][j].children = <<>>
    <3>1. F[k][j].from = IF j = 1 THEN c[k - 1] ELSE F[k][j - 1].to
      BY <2>5, <2>8 DEF InPlace
    <3>2. sp[n].from = IF n = 1 THEN c[0] ELSE sp[n - 1].to
      <4>1. CASE j = 1
        BY <2>3, <2>7, <3>1, <4>1
      <4>2. CASE j # 1
        <5>1. n # 1
          BY <2>3, <2>6, <4>2
        <5> QED BY <2>3, <2>6, <3>1, <4>2, <5>1
      <4> QED BY <4>1, <4>2
    <3> QED BY <2>4, <2>8, <3>2 DEF InPlace, n, by
  <2>9. CASE trees[k][j].children # <<>>
    <3>1. j > 1 /\ F[k][j].to = F[k][j - 1].to
      BY <2>5, <2>9 DEF InPlace
    <3>2. j # 1
      BY <2>1, <3>1
    <3>3. n > 1 /\ sp[n].to = sp[n - 1].to
      BY SMTT(60), <2>3, <2>6, <3>1, <3>2
    <3> QED BY <2>4, <2>9, <3>3 DEF InPlace, n, by
  <2> QED BY <2>8, <2>9
<1>20. InPlace(t, sp, c[0], M + 1)
  <2>1. t[M + 1].children # <<>>
    BY <1>17 DEF IsInner
  <2>2. M \in 1..M /\ S[M].to = c[N]
    BY <1>1, <1>9
  <2>3. sp[M].to = c[N] /\ sp[M + 1].to = c[N] /\ (M + 1) - 1 = M /\ M + 1 > 1
    BY SMTT(60), <1>8, <1>13, <1>15, <2>2
  <2> QED BY <2>1, <2>3 DEF InPlace
\* What the children of the nodes are.
<1>21. ASSUME NEW i \in 1..N, NEW h \in 1..Len(trees[i])
       PROVE  ChildrenMoved(t, e[i - 1] + h, trees[i], h, e[i - 1])
  <2> DEFINE by == e[i - 1]
             m == by + h
             kin == trees[i][h].children
  <2>1. by \in Nat /\ trees[i] \in Seq(Nodes) /\ Len(trees[i]) \in Nat /\ h \in Nat
    <3>1. i - 1 \in 0..N
      BY <1>1
    <3>2. by \in Nat /\ trees[i] \in Seq(Nodes)
      BY <3>1, <1>6, ElementOfSeq
    <3> QED BY <3>2
  <2>2. m \in 1..M /\ t[m] = Shifted(trees[i], by)[h]
    BY <1>5, <1>8, <1>14 DEF NodesOfTrees
  <2>3. /\ t[m].children \in Seq(Nat) /\ Len(t[m].children) = Len(kin)
        /\ \A y \in 1..Len(kin) : t[m].children[y] = kin[y] + by
    <3>1. ShiftOf(Shifted(trees[i], by), trees[i], by)
      BY <2>1, ShiftedTree
    <3> QED BY <2>2, <3>1 DEF ShiftOf, Moved
  <2>4. kin \in Seq(Nat)
    <3>1. trees[i][h] \in Nodes
      BY <2>1, ElementOfSeq
    <3> QED BY <3>1 DEF Nodes
  <2>5. \A y \in 1..Len(kin) : kin[y] \in 1..(h - 1)
    <3>1. IsLeaf(trees[i], F[i], h) \/ IsInner(trees[i], F[i], h)
      BY <1>2 DEF Spans
    <3>2. CASE IsLeaf(trees[i], F[i], h)
      BY <3>2 DEF IsLeaf
    <3>3. CASE IsInner(trees[i], F[i], h)
      BY <3>3 DEF IsInner
    <3> QED BY <3>1, <3>2, <3>3
  <2>6. Children(t, m) = {t[m].children[y] : y \in 1..Len(kin)}
    <3> DEFINE all == t[m].children
    <3>1. all \in Seq(Nat) /\ Len(all) = Len(kin) /\ Children(t, m) = ToSet(all)
      BY <2>3 DEF Children
    <3> HIDE DEF all, kin
    <3>2. DOMAIN all = 1..Len(kin)
      BY <3>1
    <3> QED BY <3>1, <3>2 DEF ToSet, all
  <2>7. Children(trees[i], h) = {kin[y] : y \in 1..Len(kin)}
    BY SMTT(60), <2>4 DEF Children, ToSet
  <2> HIDE DEF m, kin, by
  <2>8. ASSUME NEW x, x \in Children(t, m)
        PROVE  \E y \in 1..(h - 1) : y \in Children(trees[i], h) /\ x = by + y
    <3>1. PICK y \in 1..Len(kin) : x = kin[y] + by
      BY <2>3, <2>6, <2>8
    <3>2. kin[y] \in 1..(h - 1) /\ kin[y] \in Children(trees[i], h)
      BY <2>5, <2>7
    <3>3. x = by + kin[y]
      BY SMTT(60), <2>1, <3>1, <3>2
    <3> QED BY <3>2, <3>3
  <2>9. ASSUME NEW y \in 1..(h - 1), y \in Children(trees[i], h) PROVE by + y \in Children(t, m)
    <3>1. PICK z \in 1..Len(kin) : y = kin[z]
      BY <2>7, <2>9
    <3>2. t[m].children[z] = by + y
      BY <2>1, <2>3, <3>1
    <3> QED BY <2>6, <3>2
  <2> QED BY <2>8, <2>9 DEF ChildrenMoved, m, by
<1>22. \A x : x \in Children(t, M + 1) <=> \E i \in 1..N : x = e[i]
  <2>1. t[M + 1].children = kids /\ DOMAIN kids = 1..N
    BY <1>10, <1>11, <1>14
  <2>2. Children(t, M + 1) = {kids[i] : i \in 1..N}
    BY <2>1 DEF Children, ToSet
  <2> QED BY <1>10, <2>2
<1>26. ASSUME NEW i \in 1..N, NEW h \in 1..Len(trees[i]), NEW y \in Children(trees[i], h)
       PROVE  y \in 1..(h - 1)
  <2> DEFINE kin == trees[i][h].children
  <2>1. kin \in Seq(Nat)
    <3>1. trees[i] \in Seq(Nodes)
      BY ElementOfSeq
    <3>2. trees[i][h] \in Nodes
      BY <3>1, ElementOfSeq
    <3> QED BY <3>2 DEF Nodes
  <2>2. PICK x \in 1..Len(kin) : y = kin[x]
    BY SMTT(60), <2>1 DEF Children, ToSet
  <2>3. IsLeaf(trees[i], F[i], h) \/ IsInner(trees[i], F[i], h)
    BY <1>2 DEF Spans
  <2>4. kin # <<>>
    BY <2>2
  <2> QED BY <2>2, <2>3, <2>4 DEF IsLeaf, IsInner
<1>23. ASSUME NEW k \in 1..N, NEW j \in 1..Len(trees[k])
       PROVE  OneParent(t, e[k - 1] + j)
  <2> DEFINE n == e[k - 1] + j
  <2>1. Len(trees[k]) \in Nat /\ e[k - 1] \in Nat /\ e[k] = e[k - 1] + Len(trees[k])
        /\ j \in Nat /\ Len(trees[k]) \in 1..Len(trees[k])
    <3>1. k - 1 \in 0..N /\ Len(trees[k]) \in 1..Len(trees[k])
      BY <1>1, <1>2
    <3>2. e[k - 1] \in Nat /\ e[k] = e[k - 1] + Len(trees[k])
      BY <1>6, <3>1
    <3>3. Len(trees[k]) \in Nat /\ j \in Nat
      <4>1. trees[k] \in Seq(Nodes)
        BY <1>1, ElementOfSeq
      <4>2. Len(trees[k]) \in Nat
        BY <4>1
      <4> QED BY <4>2
    <3> QED BY <3>1, <3>2, <3>3
  \* The parent is one of the tree's nodes, or the root.
  <2>2. ASSUME NEW i \in 1..N, NEW h \in 1..Len(trees[i])
        PROVE  n \in Children(t, e[i - 1] + h) <=> i = k /\ j \in Children(trees[k], h) /\ j \in 1..(h - 1)
    <3>0. Len(trees[i]) \in Nat /\ h \in Nat /\ e[i - 1] \in Nat
      <4>1. i - 1 \in 0..N
        BY <1>1
      <4>2. e[i - 1] \in Nat
        BY <1>6, <4>1
      <4>3. trees[i] \in Seq(Nodes)
        BY <1>1, ElementOfSeq
      <4>4. Len(trees[i]) \in Nat
        BY <4>3
      <4> QED BY <4>2, <4>4
    <3>1. ASSUME n \in Children(t, e[i - 1] + h)
          PROVE  i = k /\ j \in Children(trees[k], h) /\ j \in 1..(h - 1)
      <4>0. \A x : x \in Children(t, e[i - 1] + h) =>
                    \E y \in 1..(h - 1) : y \in Children(trees[i], h) /\ x = e[i - 1] + y
        <5>1. ChildrenMoved(t, e[i - 1] + h, trees[i], h, e[i - 1])
          BY <1>21
        <5> QED BY <5>1, Zenon DEF ChildrenMoved
      <4>1. PICK y \in 1..(h - 1) : y \in Children(trees[i], h) /\ n = e[i - 1] + y
        <5> HIDE DEF n
        <5> QED BY <3>1, <4>0, Zenon
      <4>2. y \in 1..Len(trees[i])
        BY <3>0
      <4>3. i = k /\ y = j
        <5>1. e[i - 1] + y = e[k - 1] + j
          BY <4>1
        <5> QED BY <1>4, <4>2, <5>1, OnePlace
      <4> QED BY <4>1, <4>3
    <3>2. ASSUME i = k, j \in Children(trees[k], h), j \in 1..(h - 1)
          PROVE  n \in Children(t, e[i - 1] + h)
      BY <1>21, <3>2 DEF ChildrenMoved
    <3> QED BY <3>1, <3>2
  <2>3. n \in Children(t, M + 1) <=> j = Len(trees[k])
    <3>1. ASSUME NEW i \in 1..N, n = e[i] PROVE j = Len(trees[k])
      <4>1. e[i] = e[i - 1] + Len(trees[i]) /\ Len(trees[i]) \in 1..Len(trees[i])
        BY <1>2, <1>6
      <4>2. e[i - 1] + Len(trees[i]) = e[k - 1] + j
        BY <3>1, <4>1
      <4>3. i = k /\ Len(trees[i]) = j
        BY SMTT(60), <1>4, <4>1, <4>2, OnePlace
      <4> QED BY <4>3
    <3>2. j = Len(trees[k]) => n = e[k]
      BY <2>1
    <3> QED BY <1>22, <3>1, <3>2
  <2>4. ASSUME NEW m \in 1..Len(t)
        PROVE  m = M + 1 \/ \E i \in 1..N : \E h \in 1..Len(trees[i]) : m = e[i - 1] + h
    <3>1. m \in 1..M \/ m = M + 1
      BY SMTT(60), <1>8, <1>14
    <3> QED BY ZenonT(60), <3>1, <1>5, <1>8 DEF NodesOfTrees
  <2>5. \A i \in 1..N : \A h \in 1..Len(trees[i]) : e[i - 1] + h \in 1..M
    BY <1>5, <1>8 DEF NodesOfTrees
  <2>6. \A x \in 1..M : x # M + 1 /\ x \in 1..Len(t)
    BY SMTT(60), <1>8, <1>14
  <2> HIDE DEF n
  <2>7. CASE j = Len(trees[k])
    <3>1. GivenOnlyTo(t, n, M + 1)
      <4> SUFFICES ASSUME NEW m \in 1..Len(t) PROVE n \in Children(t, m) <=> m = M + 1
        BY DEF GivenOnlyTo
      <4>1. CASE m = M + 1
        BY <2>3, <2>7, <4>1
      <4>2. ASSUME NEW i \in 1..N, NEW h \in 1..Len(trees[i]), m = e[i - 1] + h
            PROVE  n \notin Children(t, m) /\ m # M + 1
        <5>1. i = k => ~(j \in 1..(h - 1))
          BY <2>1, <2>7
        <5> QED BY <2>2, <2>5, <2>6, <4>2, <5>1
      <4> QED BY <2>4, <4>1, <4>2
    <3>2. M + 1 \in 1..Len(t)
      BY SMTT(60), <1>8, <1>14
    <3> QED BY <3>1, <3>2 DEF OneParent, n
  <2>8. CASE j # Len(trees[k])
    <3>1. PICK p \in 1..Len(trees[k]) : GivenOnlyTo(trees[k], j, p)
      BY <1>2, <2>8 DEF Spans, OneParent
    <3>2. GivenOnlyTo(t, n, e[k - 1] + p)
      <4> SUFFICES ASSUME NEW m \in 1..Len(t) PROVE n \in Children(t, m) <=> m = e[k - 1] + p
        BY DEF GivenOnlyTo
      <4>1. CASE m = M + 1
        BY <2>3, <2>5, <2>6, <2>8, <4>1
      <4>2. ASSUME NEW i \in 1..N, NEW h \in 1..Len(trees[i]), m = e[i - 1] + h
            PROVE  n \in Children(t, m) <=> m = e[k - 1] + p
        <5>1. n \in Children(t, m) <=> i = k /\ j \in Children(trees[k], h) /\ j \in 1..(h - 1)
          BY <2>2, <4>2
        <5>2. i = k => (j \in Children(trees[k], h) <=> h = p)
          BY <3>1 DEF GivenOnlyTo
        <5>3. m = e[k - 1] + p <=> i = k /\ h = p
          <6>1. ASSUME m = e[k - 1] + p PROVE i = k /\ h = p
            <7>1. e[i - 1] + h = e[k - 1] + p
              BY <4>2, <6>1
            <7>2. trees \in Seq(Seq(Nodes)) /\ Ends(e, trees) /\ i \in 1..Len(trees) /\ k \in 1..Len(trees)
                  /\ h \in 1..Len(trees[i]) /\ p \in 1..Len(trees[k])
              BY <1>4
            <7> QED BY ONLY SMTT(60), <7>1, <7>2, OnePlace
          <6> QED BY <4>2, <6>1
        <5>4. j \in Children(trees[k], p) => j \in 1..(p - 1)
          BY <1>26
        <5> QED BY <5>1, <5>2, <5>3, <5>4
      <4> QED BY <2>4, <4>1, <4>2
    <3>3. e[k - 1] + p \in 1..Len(t)
      BY <2>5, <2>6
    <3> QED BY <3>2, <3>3 DEF OneParent, n
  <2> QED BY <2>7, <2>8
<1>24. ASSUME NEW n \in 1..(M + 1) PROVE InPlace(t, sp, c[0], n) /\ OneParent(t, n)
  <2>1. CASE n = M + 1
    BY <2>1, <1>14, <1>20 DEF OneParent
  <2>2. CASE n \in 1..M
    <3>1. PICK k \in 1..N : \E j \in 1..Len(trees[k]) : n = e[k - 1] + j
      BY <2>2, <1>5, <1>8 DEF NodesOfTrees
    <3> QED BY <3>1, <1>19, <1>23
  <2> QED BY <1>8, <2>1, <2>2
<1>25. Spans(t, sp, c[0], c[N])
  BY <1>13, <1>14, <1>15, <1>18, <1>24 DEF Spans
<1> QED BY <1>4, <1>25 DEF t, root, kids, B

\* A node fits by its positions and the number of its children.
LEMMA SameFits ==
  ASSUME NEW node, NEW other, NEW tokens, NEW child, NEW budget, NEW overhead,
         node.items = other.items, Len(node.children) = Len(other.children),
         FitsNode(other, tokens, child, budget, overhead)
  PROVE  FitsNode(node, tokens, child, budget, overhead)
  BY DEF FitsNode

\* A parent of trees that fit fits when its children's planned reports do.
LEMMA ParentFits ==
  ASSUME NEW trees \in Seq(Seq(Nodes)), NEW tokens, NEW child \in Nat, NEW budget \in Int,
         NEW overhead \in Nat,
         \A k \in 1..Len(trees) : FitsPlan(trees[k], tokens, child, budget, overhead),
         Len(trees) * (child + overhead) <= budget
  PROVE  FitsPlan(Parent(trees), tokens, child, budget, overhead)
<1> DEFINE N == Len(trees)
           Fits(node) == FitsNode(node, tokens, child, budget, overhead)
<1>1. N \in Nat /\ DOMAIN trees = 1..N
  OBVIOUS
<1>2. PICK e : /\ Ends(e, trees)
               /\ Parent(trees) =
                    Append(Below(e, trees), [items |-> <<>>, children |-> [k \in DOMAIN trees |-> e[k]]])
  BY ParentByParts
<1> DEFINE B == Below(e, trees)
           kids == [k \in DOMAIN trees |-> e[k]]
           root == [items |-> <<>>, children |-> kids]
<1>3. NodesOfTrees(e, trees, B)
  BY <1>2, TreesAreBelow
<1>4. B \in Seq(Nodes)
  BY <1>3 DEF NodesOfTrees
<1> HIDE DEF B
<1>5. kids \in Seq(Nat) /\ Len(kids) = N
  <2>1. ASSUME NEW k \in 1..N PROVE e[k] \in Nat
    <3>1. k \in 0..N /\ e \in [0..N -> Nat]
      BY <1>1, <1>2 DEF Ends
    <3> QED BY <3>1
  <2> QED BY <1>1, <2>1
<1> HIDE DEF kids
<1>6. root \in Nodes /\ root.items = <<>> /\ root.children = kids
  BY <1>5 DEF Nodes
<1>7. Fits(root)
  <2>1. Sum([k \in DOMAIN root.items |-> tokens[root.items[k]] + overhead]) = 0
    <3>1. [k \in DOMAIN root.items |-> tokens[root.items[k]] + overhead] = <<>>
      BY <1>6
    <3> QED BY <3>1, SumOfNothing
  <2>2. N * (child + overhead) \in Int /\ N * (child + overhead) <= budget
    BY <1>1
  <2>3. Len(root.children) * (child + overhead) = N * (child + overhead)
    BY <1>5, <1>6
  <2> QED BY <2>1, <2>2, <2>3 DEF FitsNode
<1> HIDE DEF root
<1>8. ASSUME NEW i \in 1..Len(B) PROVE Fits(B[i])
  <2>0. PICK k \in 1..N : \E j \in 1..Len(trees[k]) : i = e[k - 1] + j
    BY <1>3 DEF NodesOfTrees
  <2>1. PICK j \in 1..Len(trees[k]) : i = e[k - 1] + j
    BY <2>0
  <2>2. trees[k] \in Seq(Nodes) /\ e[k - 1] \in Nat /\ B[i] = Shifted(trees[k], e[k - 1])[j]
    <3>1. k - 1 \in 0..N
      BY <1>1
    <3>2. trees[k] \in Seq(Nodes) /\ e[k - 1] \in Nat
      BY <1>2, <3>1, ElementOfSeq DEF Ends
    <3> QED BY <3>2, <1>3, <2>1 DEF NodesOfTrees
  <2>3. ShiftOf(Shifted(trees[k], e[k - 1]), trees[k], e[k - 1])
    BY <2>2, ShiftedTree
  <2>4. B[i].items = trees[k][j].items /\ Len(B[i].children) = Len(trees[k][j].children)
    BY <2>2, <2>3 DEF ShiftOf, Moved
  <2>5. Fits(trees[k][j])
    <3>1. j \in DOMAIN trees[k]
      BY SMTT(60), <2>2
    <3> QED BY <3>1 DEF FitsPlan
  <2> QED BY <2>4, <2>5, SameFits
<1>9. Appended(Append(B, root), B, root, Nodes)
  BY <1>4, <1>6, Appending
<1> DEFINE t == Append(B, root)
<1> HIDE DEF t, Fits
<1>10. /\ t \in Seq(Nodes) /\ Len(t) = Len(B) + 1 /\ Len(B) \in Nat /\ t[Len(B) + 1] = root
       /\ \A i \in 1..Len(B) : t[i] = B[i]
  BY <1>9 DEF Appended, t
<1>11. ASSUME NEW n \in DOMAIN t PROVE Fits(t[n])
  <2>1. n \in 1..Len(B) \/ n = Len(B) + 1
    BY <1>10
  <2>2. CASE n \in 1..Len(B)
    BY <2>2, <1>8, <1>10
  <2>3. CASE n = Len(B) + 1
    BY <2>3, <1>7, <1>10
  <2> QED BY <2>1, <2>2, <2>3
<1>12. Parent(trees) = t
  BY <1>2 DEF t, root, B, kids
<1> QED BY <1>11, <1>12 DEF FitsPlan, Fits

-----------------------------------------------------------------------------
(* Maxima *)

\* Of finitely many numbers one is the largest.
LEMMA LargestExists ==
  ASSUME NEW N \in Nat \ {0}, NEW f \in [1..N -> Int]
  PROVE  \E i \in 1..N : \A j \in 1..N : f[j] <= f[i]
<1> DEFINE S == {n \in 0..N : n # 0 => \E i \in 1..n : \A j \in 1..n : f[j] <= f[i]}
<1>1. 0 \in S
  OBVIOUS
<1>2. ASSUME NEW n \in 0..(N - 1), n \in S PROVE n + 1 \in S
  <2>1. n + 1 \in 0..N /\ n + 1 \in 1..N /\ n \in Nat /\ \A j \in 1..(n + 1) : f[j] \in Int
    OBVIOUS
  <2>2. CASE n = 0
    <3>1. \A j \in 1..(n + 1) : f[j] <= f[1]
      BY <2>1, <2>2
    <3> QED BY <2>1, <2>2, <3>1
  <2>3. CASE n # 0
    <3>1. PICK i \in 1..n : \A j \in 1..n : f[j] <= f[i]
      BY <1>2, <2>3
    <3>2. i \in 1..(n + 1) /\ n + 1 \in 1..(n + 1)
      BY <2>1
    <3>3. f[i] \in Int /\ f[n + 1] \in Int
      BY <2>1, <3>2
    <3>4. CASE f[n + 1] <= f[i]
      <4>1. ASSUME NEW j \in 1..(n + 1) PROVE f[j] <= f[i]
        <5>1. j \in 1..n \/ j = n + 1
          BY <2>1
        <5> QED BY <5>1, <3>1, <3>4
      <4>2. \E k \in 1..(n + 1) : \A j \in 1..(n + 1) : f[j] <= f[k]
        BY ONLY <3>2, <4>1
      <4> QED BY <2>1, <4>2
    <3>5. CASE f[n + 1] > f[i]
      <4>1. ASSUME NEW j \in 1..(n + 1) PROVE f[j] <= f[n + 1]
        <5>1. CASE j = n + 1
          BY <5>1, <3>3
        <5>2. CASE j # n + 1
          <6>1. j \in 1..n
            BY <2>1, <5>2
          <6>2. f[j] <= f[i]
            BY <3>1, <6>1
          <6>3. f[j] \in Int
            BY <2>1
          <6> QED BY ONLY <6>2, <6>3, <3>5, <3>3
        <5> QED BY <5>1, <5>2
      <4>2. \E k \in 1..(n + 1) : \A j \in 1..(n + 1) : f[j] <= f[k]
        BY ONLY <3>2, <4>1
      <4> QED BY <2>1, <4>2
    <3> QED BY <3>3, <3>4, <3>5
  <2> QED BY <2>2, <2>3
<1>3. N \in S
  <2> HIDE DEF S
  <2> QED BY <1>1, <1>2, Induction
<1> QED BY <1>3

\* The library's maximum is the largest of the numbers.
LEMMA MaxIsLargest ==
  ASSUME NEW N \in Nat \ {0}, NEW f \in [1..N -> Int]
  PROVE  LET all == {f[i] : i \in 1..N} IN
         /\ \E i \in 1..N : Max(all) = f[i]
         /\ \A i \in 1..N : f[i] <= Max(all)
<1> DEFINE all == {f[i] : i \in 1..N}
<1>1. PICK i \in 1..N : \A j \in 1..N : f[j] <= f[i]
  BY LargestExists
<1>2. f[i] \in all /\ \A y \in all : f[i] >= y
  BY <1>1
<1>3. Max(all) \in all /\ \A y \in all : Max(all) >= y
  <2> HIDE DEF all
  <2> QED BY <1>2 DEF Max
<1>4. \E j \in 1..N : Max(all) = f[j]
  BY <1>3
<1>5. ASSUME NEW j \in 1..N PROVE f[j] <= Max(all)
  <2>1. Max(all) >= f[j] /\ f[j] \in Int /\ Max(all) \in Int
    BY <1>3
  <2> QED BY <2>1
<1> QED BY <1>4, <1>5

-----------------------------------------------------------------------------
(* The rounds of plan_reduction *)

\* A tree for the positions after lo and up to hi, whose requests fit.
IsTree(t, lo, hi, tokens, child, budget, overhead) ==
  (\E sp : Spans(t, sp, lo, hi)) /\ FitsPlan(t, tokens, child, budget, overhead)

\* A round's trees have all positions, one tree after the other.
Borders(c, trees, tokens, child, budget, overhead) ==
  /\ c \in [0..Len(trees) -> Nat] /\ c[0] = 0 /\ c[Len(trees)] = Len(tokens)
  /\ \A k \in 1..Len(trees) : IsTree(trees[k], c[k - 1], c[k], tokens, child, budget, overhead)

IsLevel(trees, tokens, child, budget, overhead) ==
  /\ trees \in Seq(Seq(Nodes)) /\ trees # <<>>
  /\ \E c : Borders(c, trees, tokens, child, budget, overhead)

\* Equal planned reports cost their number times their size.
LEMMA CostOfEquals ==
  ASSUME NEW size \in Nat, NEW costs \in Seq(Nat), \A i \in 1..Len(costs) : costs[i] = size,
         NEW a \in Nat, NEW b \in 0..Len(costs), a <= b
  PROVE  Cost(costs, a, b) = (b - a) * size
<1> DEFINE s == [i \in 1..(b - a) |-> costs[a + i]]
<1>1. b - a \in Nat /\ \A i \in 1..(b - a) : costs[a + i] = size
  OBVIOUS
<1>2. AllBetween(s, size, size) /\ Len(s) = b - a
  BY <1>1 DEF AllBetween
<1> HIDE DEF s
<1>3. Between(Sum(s), b - a, size, size)
  BY <1>2, SumBetween
<1>4. (b - a) * size \in Int
  BY <1>1
<1> QED BY <1>3, <1>4 DEF Between, Cost, s

\* A span is not empty.
LEMMA SpansGrow ==
  ASSUME NEW t, NEW sp, NEW lo, NEW hi, Spans(t, sp, lo, hi)
  PROVE  lo \in Nat /\ hi \in Nat /\ lo < hi /\ t \in Seq(Nodes) /\ t # <<>>
<1>1. t \in Seq(Nodes) /\ t # <<>> /\ sp \in Seq(Span) /\ Len(sp) = Len(t)
  BY DEF Spans
<1>2. Len(t) \in 1..Len(t)
  BY <1>1, EmptySeq
<1>3. sp[Len(t)] \in Span
  BY <1>1, <1>2, ElementOfSeq
<1> QED BY <1>1, <1>2, <1>3 DEF Spans, Span

IsParentTree(t, lo, hi, tokens, child, budget, overhead) ==
  t \in Seq(Nodes) /\ IsTree(t, lo, hi, tokens, child, budget, overhead)

\* The parent that a round makes of consecutive trees.
LEMMA RoundParent ==
  ASSUME NEW tokens, NEW child \in Nat, NEW budget \in Int, NEW overhead \in Nat,
         NEW trees, IsLevel(trees, tokens, child, budget, overhead),
         NEW c, Borders(c, trees, tokens, child, budget, overhead),
         NEW a \in Nat, NEW b \in 0..Len(trees), a < b,
         (b - a) * (child + overhead) <= budget
  PROVE  IsParentTree(Parent([k \in DOMAIN Run(a, b) |-> trees[Run(a, b)[k]]]), c[a], c[b],
                      tokens, child, budget, overhead)
<1> DEFINE below == [k \in DOMAIN Run(a, b) |-> trees[Run(a, b)[k]]]
           M == b - a
           d == [k \in 0..M |-> c[a + k]]
<1>1. /\ trees \in Seq(Seq(Nodes)) /\ Len(trees) \in Nat
      /\ c \in [0..Len(trees) -> Nat] /\ M \in Nat \ {0} /\ b \in Nat
  BY DEF IsLevel, Borders
<1>2. Run(a, b) \in Seq(Nat) /\ Len(Run(a, b)) = M /\ DOMAIN Run(a, b) = 1..M
      /\ \A k \in 1..M : Run(a, b)[k] = a + k
  BY <1>1 DEF Run
<1>3. ASSUME NEW k \in 1..M
      PROVE  below[k] = trees[a + k] /\ a + k \in 1..Len(trees) /\ below[k] \in Seq(Nodes)
  <2>1. a + k \in 1..Len(trees)
    BY <1>1
  <2> QED BY <1>1, <1>2, <2>1, ElementOfSeq
<1>4. below = [k \in 1..M |-> below[k]]
  BY <1>2
<1> HIDE DEF below
<1>5. below \in Seq(Seq(Nodes)) /\ Len(below) = M /\ below # <<>>
  <2>1. below \in [1..M -> Seq(Nodes)]
    BY <1>3, <1>4
  <2>2. below \in Seq(Seq(Nodes)) /\ Len(below) = M
    BY <1>1, <2>1, FunctionIsSequence DEF SequenceOf
  <2> QED BY <1>1, <2>2
<1>6. ASSUME NEW k \in 0..M PROVE d[k] = c[a + k] /\ d[k] \in Nat
  <2>1. a + k \in 0..Len(trees)
    BY <1>1
  <2> QED BY <1>1, <2>1
<1>7. d \in [0..M -> Nat]
  BY <1>6
<1> HIDE DEF d
<1>8. ASSUME NEW k \in 1..M
      PROVE  IsTree(below[k], d[k - 1], d[k], tokens, child, budget, overhead)
  <2>1. k - 1 \in 0..M /\ k \in 0..M /\ a + (k - 1) = (a + k) - 1
    BY <1>1
  <2>2. d[k - 1] = c[(a + k) - 1] /\ d[k] = c[a + k]
    BY <1>6, <2>1
  <2> QED BY <1>3, <2>2 DEF Borders
<1>9. \E sp : Spans(Parent(below), sp, d[0], d[M])
  <2>1. d \in [0..Len(below) -> Nat]
    BY <1>5, <1>7
  <2>2. \A k \in 1..Len(below) : \E sp : Spans(below[k], sp, d[k - 1], d[k])
    BY <1>5, <1>8 DEF IsTree
  <2>3. \E sp : Spans(Parent(below), sp, d[0], d[Len(below)])
    BY <1>5, <2>1, <2>2, ParentSpans
  <2> QED BY <1>5, <2>3
<1>10. FitsPlan(Parent(below), tokens, child, budget, overhead)
  <2>1. \A k \in 1..Len(below) : FitsPlan(below[k], tokens, child, budget, overhead)
    BY <1>5, <1>8 DEF IsTree
  <2>2. Len(below) * (child + overhead) <= budget
    BY <1>5
  <2> QED BY <1>5, <2>1, <2>2, ParentFits
<1>11. d[0] = c[a] /\ d[M] = c[b]
  <2>1. 0 \in 0..M /\ M \in 0..M /\ a + 0 = a /\ a + M = b
    BY <1>1
  <2> QED BY <1>6, <2>1
<1>12. IsTree(Parent(below), c[a], c[b], tokens, child, budget, overhead)
  BY <1>9, <1>10, <1>11 DEF IsTree
<1>13. Parent(below) \in Seq(Nodes)
  BY <1>9, SpansGrow
<1> QED BY <1>12, <1>13 DEF below, IsParentTree

\* Cuts that once take two positions are fewer than the positions.
LEMMA CutsJump ==
  ASSUME NEW N \in Nat, NEW c \in [0..N -> Nat], \A k \in 1..N : c[k - 1] < c[k],
         NEW g \in 1..N, c[g] - c[g - 1] >= 2
  PROVE  c[0] + N < c[N]
<1> DEFINE S == {k \in 0..N : c[0] + k <= c[k] /\ (k >= g => c[0] + k < c[k])}
<1>1. 0 \in S
  OBVIOUS
<1>2. ASSUME NEW k \in 0..(N - 1), k \in S PROVE k + 1 \in S
  <2>1. k + 1 \in 1..N /\ k + 1 \in 0..N /\ k \in 0..N /\ (k + 1) - 1 = k
    OBVIOUS
  <2>2. c[k] \in Nat /\ c[k + 1] \in Nat /\ c[0] \in Nat /\ c[k] < c[k + 1]
    BY <2>1
  <2>3. c[0] + k <= c[k] /\ (k >= g => c[0] + k < c[k])
    BY <1>2
  <2>4. c[0] + (k + 1) <= c[k + 1]
    BY <2>1, <2>2, <2>3
  <2>5. ASSUME k + 1 >= g PROVE c[0] + (k + 1) < c[k + 1]
    <3>1. CASE k >= g
      BY <3>1, <2>1, <2>2, <2>3
    <3>2. CASE k + 1 = g
      <4>1. c[k + 1] - c[k] >= 2
        BY <3>2, <2>1
      <4> QED BY <4>1, <2>1, <2>2, <2>3
    <3> QED BY <2>5, <3>1, <3>2, <2>1
  <2> QED BY <2>1, <2>4, <2>5
<1>3. N \in S
  <2> HIDE DEF S
  <2> QED BY <1>1, <1>2, Induction
<1>4. N \in Nat /\ g <= N
  OBVIOUS
<1> QED BY <1>3, <1>4

\* What a round makes of a level of several trees: an error, which two planned reports
\* that do not fit together explain, or a level of fewer trees.
LEMMA RoundSteps ==
  ASSUME NEW tokens, NEW child \in Nat \ {0}, NEW budget \in Int, NEW overhead \in Nat,
         NEW trees, IsLevel(trees, tokens, child, budget, overhead), Len(trees) > 1
  PROVE  LET next == Round(trees, child + overhead, budget) IN
         \/ next = <<Unplannable>> /\ 2 * (child + overhead) > budget
         \/ /\ IsLevel(next, tokens, child, budget, overhead)
            /\ Len(next) < Len(trees) /\ 2 * (child + overhead) <= budget
<1> DEFINE size == child + overhead
           N == Len(trees)
           costs == [k \in DOMAIN trees |-> size]
           groups == Chunk(costs, budget)
           parents == [g \in DOMAIN groups |->
                         Parent([k \in DOMAIN groups[g] |-> trees[groups[g][k]]])]
           lengths == {Len(groups[g]) : g \in DOMAIN groups}
           next == Round(trees, size, budget)
<1>1. /\ size \in Nat \ {0} /\ N \in Nat /\ N >= 2 /\ DOMAIN trees = 1..N
      /\ trees \in Seq(Seq(Nodes))
  BY DEF IsLevel
<1>2. PICK c : Borders(c, trees, tokens, child, budget, overhead)
  BY DEF IsLevel
<1>3. next = IF size > budget \/ Max(lengths) < 2 THEN <<Unplannable>> ELSE parents
  BY DEF Round
<1> HIDE DEF size, next
<1>4. CASE size > budget
  <2>1. next = <<Unplannable>> /\ 2 * size > budget
    BY <1>1, <1>3, <1>4
  <2> QED BY <2>1 DEF size, next
<1>5. CASE ~(size > budget)
  <2>1. /\ costs \in Seq(Nat) /\ Len(costs) = N /\ costs # <<>>
        /\ \A i \in 1..Len(costs) : costs[i] = size /\ costs[i] <= budget
    <3>1. costs \in [1..N -> Nat] /\ \A i \in 1..N : costs[i] = size /\ costs[i] <= budget
      BY <1>1, <1>5
    <3>2. costs \in Seq(Nat) /\ Len(costs) = N
      BY <1>1, <3>1, FunctionIsSequence DEF SequenceOf
    <3> QED BY <1>1, <3>1, <3>2
  <2> HIDE DEF costs
  <2>2. PICK d : /\ CutAt(d, groups, costs, budget)
                 /\ groups # <<>>
                 /\ d[Len(groups)] = Len(costs)
                 /\ Greedy(d, Len(groups) - 1, costs, budget)
    BY <2>1, ChunkCuts
  <2> HIDE DEF groups
  <2> DEFINE G == Len(groups)
  <2>3. /\ groups \in Seq(Seq(Nat)) /\ G \in Nat \ {0} /\ DOMAIN groups = 1..G
        /\ d \in [0..G -> 0..N] /\ d[0] = 0 /\ d[G] = N
    BY <2>1, <2>2, EmptySeq DEF CutAt
  <2>4. ASSUME NEW g \in 1..G
        PROVE  /\ d[g - 1] \in Nat /\ d[g] \in 0..N /\ d[g] \in Nat /\ d[g - 1] < d[g]
               /\ groups[g] = Run(d[g - 1], d[g]) /\ Len(groups[g]) = d[g] - d[g - 1]
               /\ (d[g] - d[g - 1]) * size <= budget
    <3>1. g - 1 \in 0..G /\ g \in 0..G
      BY <2>3
    <3>2. d[g - 1] \in 0..N /\ d[g] \in 0..N
      BY <2>3, <3>1
    <3>3. d[g - 1] \in Nat /\ d[g] \in Nat
      BY <1>1, <3>2
    <3>4. d[g - 1] < d[g] /\ groups[g] = Run(d[g - 1], d[g]) /\ Cost(costs, d[g - 1], d[g]) <= budget
      BY <2>2 DEF CutAt
    <3>5. Len(groups[g]) = d[g] - d[g - 1]
      <4>1. d[g - 1] <= d[g]
        BY <3>3, <3>4
      <4>2. Run(d[g - 1], d[g]) \in Seq(Nat) /\ Len(Run(d[g - 1], d[g])) = d[g] - d[g - 1]
        BY <3>3, <4>1, RunIsASequence
      <4> QED BY <3>4, <4>2
    <3>6. Cost(costs, d[g - 1], d[g]) = (d[g] - d[g - 1]) * size
      <4>1. d[g - 1] <= d[g]
        BY <3>3, <3>4
      <4>2. d[g] \in 0..Len(costs) /\ size \in Nat /\ \A i \in 1..Len(costs) : costs[i] = size
        BY <1>1, <2>1, <3>2
      <4> QED BY ZenonT(60), <2>1, <3>3, <4>1, <4>2, CostOfEquals
    <3> QED BY <3>2, <3>3, <3>4, <3>5, <3>6
  <2>5. /\ \E g \in 1..G : Max(lengths) = Len(groups[g])
        /\ \A g \in 1..G : Len(groups[g]) <= Max(lengths)
    <3> DEFINE f == [g \in 1..G |-> Len(groups[g])]
    <3>1. f \in [1..G -> Int]
      BY <2>4
    <3>2. lengths = {f[g] : g \in 1..G}
      BY <2>3
    <3>3. /\ \E g \in 1..G : Max({f[i] : i \in 1..G}) = f[g]
          /\ \A g \in 1..G : f[g] <= Max({f[i] : i \in 1..G})
      <4> HIDE DEF f, G
      <4> QED BY <2>3, <3>1, MaxIsLargest
    <3> QED BY <3>2, <3>3
  <2> HIDE DEF lengths
  <2>6. CASE Max(lengths) < 2
    <3>1. \A g \in 1..G : d[g] - d[g - 1] = 1
      <4> TAKE g \in 1..G
      <4> DEFINE n == d[g] - d[g - 1]
      <4>1. n \in Nat /\ n >= 1 /\ Len(groups[g]) = n
        BY SMTT(60), <2>4
      <4>2. Len(groups[g]) <= Max(lengths) /\ \E h \in 1..G : Max(lengths) = Len(groups[h])
        BY <2>5
      <4>3. Max(lengths) \in Int
        BY <2>4, <4>2
      <4> HIDE DEF n
      <4>4. n = 1
        BY <4>1, <4>2, <4>3, <2>6
      <4> QED BY <4>4 DEF n
    <3>2. 1 \in 1..G /\ 1 - 1 = 0
      BY <2>3
    <3>3. d[1] = 1
      BY <2>3, <3>1, <3>2, <2>4
    <3>4. G >= 2
      <4>1. d[1] # d[G]
        <5>1. d[G] = N
          BY <2>3
        <5>2. N # 1
          <6> HIDE DEF N
          <6> QED BY <1>1
        <5> QED BY <3>3, <5>1, <5>2
      <4>2. G # 1
        BY <4>1
      <4> HIDE DEF G
      <4> QED BY <2>3, <4>2
    <3>5. Cost(costs, 0, 1) + costs[1 + 1] > budget
      <4>1. 1 \in 1..(Len(groups) - 1)
        BY <2>3, <3>4
      <4>2. Cost(costs, d[1 - 1], d[1]) + costs[d[1] + 1] > budget
        BY <2>2, <4>1 DEF Greedy
      <4> QED BY <2>3, <3>2, <3>3, <4>2
    <3>6. Cost(costs, 0, 1) = size /\ costs[1 + 1] = size
      <4>1. 1 \in 0..Len(costs) /\ 0 \in Nat /\ 0 <= 1 /\ 2 \in 1..Len(costs)
        BY <1>1, <2>1
      <4>2. Cost(costs, 0, 1) = (1 - 0) * size
        BY <1>1, <2>1, <4>1, CostOfEquals
      <4> QED BY <1>1, <2>1, <4>1, <4>2
    <3>7. 2 * size > budget
      BY <1>1, <3>5, <3>6
    <3>8. next = <<Unplannable>>
      BY <1>3, <2>6
    <3> QED BY <3>7, <3>8 DEF size, next
  <2>7. CASE ~(Max(lengths) < 2)
    <3>1. PICK g0 \in 1..G : Max(lengths) = Len(groups[g0])
      BY <2>5
    <3>2. d[g0] - d[g0 - 1] >= 2
      BY <2>4, <2>7, <3>1
    <3>3. 2 * size <= budget
      <4> DEFINE n == d[g0] - d[g0 - 1]
      <4>1. n \in Nat /\ n >= 2 /\ n * size <= budget
        BY <2>4, <3>2
      <4> HIDE DEF n
      <4>2. n * size = 2 * size + (n - 2) * size /\ (n - 2) * size >= 0
        BY <1>1, <4>1
      <4>3. n * size \in Int /\ 2 * size \in Int /\ (n - 2) * size \in Int
        BY <1>1, <4>1
      <4> QED BY <4>1, <4>2, <4>3
    <3>4. d[0] + G < d[G]
      <4>1. d \in [0..G -> Nat]
        BY <1>1, <2>3
      <4>2. \A k \in 1..G : d[k - 1] < d[k]
        BY <2>4
      <4> QED BY <2>3, <3>2, <4>1, <4>2, CutsJump
    <3>5. ASSUME NEW g \in 1..G
          PROVE  /\ parents[g] \in Seq(Nodes)
                 /\ IsTree(parents[g], c[d[g - 1]], c[d[g]], tokens, child, budget, overhead)
      <4>1. parents[g] = Parent([k \in DOMAIN Run(d[g - 1], d[g]) |-> trees[Run(d[g - 1], d[g])[k]]])
        BY <2>3, <2>4
      <4>2. (d[g] - d[g - 1]) * (child + overhead) <= budget
        BY <2>4 DEF size
      <4>3. d[g - 1] \in Nat /\ d[g] \in 0..Len(trees) /\ d[g - 1] < d[g]
        BY <2>4
      <4>4. IsParentTree(Parent([k \in DOMAIN Run(d[g - 1], d[g]) |-> trees[Run(d[g - 1], d[g])[k]]]),
                         c[d[g - 1]], c[d[g]], tokens, child, budget, overhead)
        BY <1>2, <4>2, <4>3, RoundParent
      <4> QED BY <4>1, <4>4 DEF IsParentTree
    <3>6. parents \in Seq(Seq(Nodes)) /\ Len(parents) = G /\ parents # <<>>
      <4>1. parents \in [1..G -> Seq(Nodes)]
        BY <2>3, <3>5
      <4> HIDE DEF parents
      <4>2. parents \in Seq(Seq(Nodes)) /\ Len(parents) = G
        BY <2>3, <4>1, FunctionIsSequence DEF SequenceOf
      <4> QED BY <2>3, <4>2
    <3> DEFINE b == [g \in 0..G |-> c[d[g]]]
    <3>7. c \in [0..N -> Nat] /\ c[0] = 0 /\ c[N] = Len(tokens)
      BY <1>2 DEF Borders
    <3>8. b \in [0..G -> Nat] /\ \A g \in 0..G : b[g] = c[d[g]]
      <4>1. \A g \in 0..G : c[d[g]] \in Nat
        BY <2>3, <3>7
      <4> QED BY <4>1
    <3> HIDE DEF b, parents
    <3>9. b[0] = 0 /\ b[G] = Len(tokens)
      <4>1. 0 \in 0..G /\ G \in 0..G
        BY <2>3
      <4> QED BY <2>3, <3>7, <3>8, <4>1
    <3>10. ASSUME NEW g \in 1..G
           PROVE  IsTree(parents[g], b[g - 1], b[g], tokens, child, budget, overhead)
      <4>1. g - 1 \in 0..G /\ g \in 0..G
        BY <2>3
      <4>2. b[g - 1] = c[d[g - 1]] /\ b[g] = c[d[g]]
        BY <3>8, <4>1
      <4> QED BY <3>5, <4>2
    <3>11. IsLevel(parents, tokens, child, budget, overhead)
      BY <3>6, <3>8, <3>9, <3>10 DEF IsLevel, Borders
    <3>12. next = parents
      BY <1>3, <1>5, <2>7
    <3>13. Len(parents) < Len(trees)
      BY <2>3, <3>4, <3>6
    <3> QED BY <3>3, <3>11, <3>12, <3>13 DEF size, next
  <2> QED BY <2>6, <2>7
<1> QED BY <1>4, <1>5

\* A leaf has the positions of its group, and fits when their costs do.
LEMMA LeafIsTree ==
  ASSUME NEW tokens \in Seq(Nat), NEW child \in Nat, NEW budget \in Int, NEW overhead \in Nat,
         NEW a \in Nat, NEW b \in 0..Len(tokens), a < b,
         NEW costs, costs = [i \in DOMAIN tokens |-> tokens[i] + overhead],
         Cost(costs, a, b) <= budget
  PROVE  IsParentTree(Leaf(Run(a, b)), a, b, tokens, child, budget, overhead)
<1> DEFINE node == [items |-> Run(a, b), children |-> <<>>]
           t == <<node>>
           sp == <<[from |-> a, to |-> b]>>
<1>1. Run(a, b) \in Seq(Nat) /\ Len(Run(a, b)) = b - a /\ a <= b /\ b \in Nat
  <2>1. a <= b /\ b \in Nat
    OBVIOUS
  <2>2. Run(a, b) \in Seq(Nat) /\ Len(Run(a, b)) = b - a
    BY <2>1, RunIsASequence
  <2> QED BY <2>1, <2>2
<1>2. t \in Seq(Nodes) /\ t # <<>> /\ Len(t) = 1 /\ t[1] = node
  <2>1. node \in Nodes
    BY <1>1 DEF Nodes
  <2> HIDE DEF node
  <2> QED BY <2>1
<1>3. sp \in Seq(Span) /\ Len(sp) = 1 /\ sp[1].from = a /\ sp[1].to = b
  BY <1>1 DEF Span
<1> HIDE DEF t, sp
<1>4. \A n \in 1..Len(t) :
        a <= sp[n].from /\ sp[n].from < sp[n].to /\ sp[n].to <= b /\ IsLeaf(t, sp, n)
  <2> TAKE n \in 1..Len(t)
  <2>1. n = 1
    BY <1>2
  <2> QED BY <1>2, <1>3, <2>1 DEF IsLeaf
<1>5. Spans(t, sp, a, b)
  <2>1. \A n \in 1..Len(t) : n = 1 /\ n = Len(t) /\ t[n].children = <<>>
    BY <1>2
  <2>2. \A n \in 1..Len(t) : InPlace(t, sp, a, n) /\ OneParent(t, n)
    BY <1>3, <2>1 DEF InPlace, OneParent
  <2> QED BY <1>2, <1>3, <1>4, <2>2 DEF Spans
<1>6. FitsPlan(t, tokens, child, budget, overhead)
  <2>1. Sum([k \in DOMAIN Run(a, b) |-> tokens[Run(a, b)[k]] + overhead]) = Cost(costs, a, b)
    <3>1. DOMAIN Run(a, b) = 1..(b - a)
      BY <1>1
    <3>2. \A k \in 1..(b - a) : tokens[Run(a, b)[k]] + overhead = costs[a + k]
      <4> TAKE k \in 1..(b - a)
      <4>1. a + k \in 1..Len(tokens) /\ a + k \in DOMAIN tokens
        BY <1>1
      <4> QED BY <4>1 DEF Run
    <3>3. [k \in DOMAIN Run(a, b) |-> tokens[Run(a, b)[k]] + overhead]
            = [k \in 1..(b - a) |-> costs[a + k]]
      BY <3>1, <3>2
    <3> QED BY <3>3 DEF Cost
  <2>2. Len(<<>>) * (child + overhead) = 0
    OBVIOUS
  <2>3. Cost(costs, a, b) \in Nat
    <3>1. costs \in Seq(Nat) /\ Len(costs) = Len(tokens)
      <4>1. costs \in [1..Len(tokens) -> Nat]
        OBVIOUS
      <4> QED BY <4>1, FunctionIsSequence DEF SequenceOf
    <3> QED BY <1>1, <3>1, CostIsASize
  <2>4. FitsNode(node, tokens, child, budget, overhead)
    BY <2>1, <2>2, <2>3 DEF FitsNode
  <2>5. \A n \in DOMAIN t : t[n] = node
    BY <1>2
  <2> HIDE DEF node
  <2> QED BY <2>4, <2>5 DEF FitsPlan
<1>7. Leaf(Run(a, b)) = t
  BY DEF Leaf, t
<1> QED BY <1>2, <1>5, <1>6, <1>7 DEF IsParentTree, IsTree

\* The first level has a leaf for each group, and no more than there are inputs.
LEMMA FirstLevel ==
  ASSUME NEW tokens \in Seq(Nat), tokens # <<>>, NEW child \in Nat, NEW budget \in Int,
         NEW overhead \in Nat,
         NEW costs, costs = [i \in DOMAIN tokens |-> tokens[i] + overhead],
         \A i \in DOMAIN costs : costs[i] <= budget,
         NEW leaves,
         leaves = LET groups == Chunk(costs, budget) IN [g \in DOMAIN groups |-> Leaf(groups[g])]
  PROVE  IsLevel(leaves, tokens, child, budget, overhead) /\ Len(leaves) <= Len(tokens)
<1> DEFINE N == Len(tokens)
           groups == Chunk(costs, budget)
<1>1. costs \in Seq(Nat) /\ Len(costs) = N /\ costs # <<>> /\ N \in Nat
      /\ \A i \in 1..Len(costs) : costs[i] <= budget
  <2>1. costs \in [1..N -> Nat] /\ N \in Nat \ {0}
    BY EmptySeq
  <2>2. costs \in Seq(Nat) /\ Len(costs) = N
    BY <2>1, FunctionIsSequence DEF SequenceOf
  <2> QED BY <2>1, <2>2
<1>2. PICK d : /\ CutAt(d, groups, costs, budget)
               /\ groups # <<>>
               /\ d[Len(groups)] = Len(costs)
  BY <1>1, ChunkCuts
<1> HIDE DEF groups
<1> DEFINE G == Len(groups)
<1>3. /\ groups \in Seq(Seq(Nat)) /\ G \in Nat \ {0} /\ DOMAIN groups = 1..G
      /\ d \in [0..G -> 0..N] /\ d[0] = 0 /\ d[G] = N
  BY <1>1, <1>2, EmptySeq DEF CutAt
<1>4. ASSUME NEW g \in 1..G
      PROVE  /\ d[g - 1] < d[g]
             /\ IsParentTree(leaves[g], d[g - 1], d[g], tokens, child, budget, overhead)
  <2>1. g - 1 \in 0..G /\ g \in 0..G
    BY <1>3
  <2>2. d[g - 1] \in Nat /\ d[g] \in 0..Len(tokens)
    <3>1. d[g - 1] \in 0..N /\ d[g] \in 0..N
      BY <1>3, <2>1
    <3> QED BY <1>1, <3>1
  <2>3. d[g - 1] < d[g] /\ groups[g] = Run(d[g - 1], d[g]) /\ Cost(costs, d[g - 1], d[g]) <= budget
    BY <1>2 DEF CutAt
  <2>4. IsParentTree(Leaf(Run(d[g - 1], d[g])), d[g - 1], d[g], tokens, child, budget, overhead)
    BY <2>2, <2>3, LeafIsTree
  <2>5. leaves[g] = Leaf(groups[g])
    BY <1>3 DEF groups
  <2> QED BY <2>3, <2>4, <2>5
<1>5. leaves \in Seq(Seq(Nodes)) /\ Len(leaves) = G
  <2>1. leaves = [g \in 1..G |-> leaves[g]]
    <3>1. leaves = [g \in DOMAIN groups |-> Leaf(groups[g])]
      BY DEF groups
    <3> QED BY <1>3, <3>1
  <2>2. leaves \in [1..G -> Seq(Nodes)]
    BY <1>4, <2>1 DEF IsParentTree
  <2> QED BY <1>3, <2>2, FunctionIsSequence DEF SequenceOf
<1>6. d \in [0..G -> Nat]
  BY <1>1, <1>3
<1>7. Borders(d, leaves, tokens, child, budget, overhead)
  BY <1>3, <1>4, <1>5, <1>6 DEF Borders, IsParentTree
<1>8. leaves # <<>>
  BY <1>3, <1>5
<1>9. G <= N
  <2>1. \A k \in 1..G : d[k - 1] < d[k]
    BY <1>4
  <2>2. \A k \in 0..G : d[0] + k <= d[k]
    BY <1>3, <1>6, <2>1, CutsGrow
  <2>3. G \in 0..G
    BY <1>3
  <2> QED BY <1>3, <2>2, <2>3
<1> QED BY <1>5, <1>7, <1>8, <1>9 DEF IsLevel

\* A level, or the error that two planned reports that do not fit together explain.
LevelOrError(trees, tokens, child, budget, overhead) ==
  \/ trees = <<Unplannable>> /\ 2 * (child + overhead) > budget
  \/ IsLevel(trees, tokens, child, budget, overhead)

\* The levels of plan_reduction, as its loop makes one of the other.
IsLevels(f, leaves, tokens, child, budget, overhead) ==
  /\ f[0] = leaves
  /\ \A n \in 1..Len(tokens) :
       f[n] = IF Len(f[n - 1]) = 1 THEN f[n - 1] ELSE Round(f[n - 1], child + overhead, budget)
  /\ \A n \in 0..Len(tokens) : LevelOrError(f[n], tokens, child, budget, overhead)

\* Each level of plan_reduction is a level of trees or the error.
LEMMA Levels ==
  ASSUME NEW tokens \in Seq(Nat), NEW child \in Nat \ {0}, NEW budget \in Int,
         NEW overhead \in Nat, NEW leaves, IsLevel(leaves, tokens, child, budget, overhead)
  PROVE  LET level[n \in 0..Len(tokens)] ==
               IF n = 0 THEN leaves
               ELSE IF Len(level[n - 1]) = 1 THEN level[n - 1]
               ELSE Round(level[n - 1], child + overhead, budget)
         IN IsLevels(level, leaves, tokens, child, budget, overhead)
<1> DEFINE N == Len(tokens)
           size == child + overhead
           Good(L) == LevelOrError(L, tokens, child, budget, overhead)
           T == {L \in Seq(Seq(Nodes)) : Good(L)}
           next(L) == IF Len(L) = 1 THEN L ELSE Round(L, size, budget)
           step == [x \in T \X (1..N) |-> next(x[1])]
           level[n \in 0..N] ==
             IF n = 0 THEN leaves
             ELSE IF Len(level[n - 1]) = 1 THEN level[n - 1]
             ELSE Round(level[n - 1], size, budget)
<1>1. N \in Nat
  OBVIOUS
<1>2. leaves \in T
  BY DEF LevelOrError, IsLevel
<1>3. ASSUME NEW L \in T PROVE next(L) \in T
  <2>1. CASE Len(L) = 1
    BY <2>1
  <2>2. CASE Len(L) # 1
    <3>1. IsLevel(L, tokens, child, budget, overhead)
      <4>1. L # <<Unplannable>>
        BY <2>2
      <4> QED BY <4>1 DEF LevelOrError
    <3>2. Len(L) > 1
      <4>1. L \in Seq(Seq(Nodes)) /\ L # <<>>
        BY <3>1 DEF IsLevel
      <4>2. Len(L) \in Nat \ {0}
        BY <4>1, EmptySeq
      <4> DEFINE n == Len(L)
      <4>3. n \in Nat \ {0} /\ n # 1
        BY <2>2, <4>2
      <4> HIDE DEF n
      <4>4. n > 1
        BY <4>3
      <4> QED BY <4>4 DEF n
    <3> DEFINE r == Round(L, child + overhead, budget)
    <3>3. \/ r = <<Unplannable>> /\ 2 * (child + overhead) > budget
          \/ IsLevel(r, tokens, child, budget, overhead)
      BY <3>1, <3>2, RoundSteps
    <3>4. r \in Seq(Seq(Nodes))
      <4>1. <<Unplannable>> \in Seq(Seq(Nodes))
        BY DEF Unplannable
      <4> QED BY <3>3, <4>1 DEF IsLevel
    <3>5. Good(r)
      BY <3>3 DEF LevelOrError
    <3>6. next(L) = r
      BY <2>2
    <3> HIDE DEF r, next, Good
    <3> QED BY <3>4, <3>5, <3>6
  <2> QED BY <2>1, <2>2
<1>4. step \in Steps(T, N) /\ \A L \in T, n \in 1..N : step[<<L, n>>] = next(L)
  <2> HIDE DEF next, T, N
  <2> QED BY <1>3 DEF Steps
<1>5. PICK f : Iterates(f, N, T, leaves, step)
  <2> HIDE DEF step, N, T
  <2> QED BY <1>1, <1>2, <1>4, Recursion
<1> HIDE DEF step, T
<1>6. ASSUME NEW n \in 1..N PROVE f[n] = next(f[n - 1])
  <2>1. n - 1 \in 0..N
    BY <1>1
  <2>2. f[n - 1] \in T
    BY <1>5, <2>1 DEF Iterates
  <2> HIDE DEF next
  <2> QED BY <1>4, <1>5, <2>2 DEF Iterates
<1>7. f = [n \in 0..N |-> IF n = 0 THEN leaves
                          ELSE IF Len(f[n - 1]) = 1 THEN f[n - 1]
                          ELSE Round(f[n - 1], size, budget)]
  <2>1. ASSUME NEW n \in 0..N
        PROVE  f[n] = IF n = 0 THEN leaves
                      ELSE IF Len(f[n - 1]) = 1 THEN f[n - 1]
                      ELSE Round(f[n - 1], size, budget)
    <3>1. n = 0 \/ n \in 1..N
      BY <1>1
    <3> QED BY <1>5, <1>6, <3>1 DEF Iterates
  <2> QED BY <1>5, <2>1 DEF Iterates
<1>8. level = [n \in 0..N |-> IF n = 0 THEN leaves
                              ELSE IF Len(level[n - 1]) = 1 THEN level[n - 1]
                              ELSE Round(level[n - 1], size, budget)]
  BY <1>7
<1> HIDE DEF level
<1>9. level[0] = leaves
  BY <1>1, <1>8
<1>10. ASSUME NEW n \in 1..N
       PROVE  level[n] = IF Len(level[n - 1]) = 1 THEN level[n - 1]
                         ELSE Round(level[n - 1], size, budget)
  <2>1. n \in 0..N /\ n # 0
    BY <1>1
  <2> QED BY <1>8, <2>1, Zenon
<1>11. \A n \in 0..N : level[n] \in T
  <2> DEFINE S == {n \in 0..N : level[n] \in T}
  <2>1. 0 \in S
    BY <1>1, <1>2, <1>9
  <2>2. ASSUME NEW n \in 0..(N - 1), n \in S PROVE n + 1 \in S
    <3>1. n + 1 \in 1..N /\ n + 1 \in 0..N /\ (n + 1) - 1 = n /\ level[n] \in T
      BY <1>1, <2>2
    <3>2. level[n + 1] = next(level[n])
      BY <1>10, <3>1
    <3> HIDE DEF next
    <3> QED BY <1>3, <3>1, <3>2
  <2>3. \A n \in 0..N : n \in S
    <3> HIDE DEF S
    <3> QED BY <1>1, <2>1, <2>2, Induction
  <2> QED BY <2>3
<1>12. \A n \in 0..N : Good(level[n])
  BY <1>11 DEF T
<1>13. IsLevels(level, leaves, tokens, child, budget, overhead)
  BY <1>9, <1>10, <1>12 DEF IsLevels
<1> QED BY <1>13 DEF level

\* Each round leaves fewer trees, so that the last level is one tree or the error.
LEMMA LastLevel ==
  ASSUME NEW tokens \in Seq(Nat), NEW child \in Nat \ {0}, NEW budget \in Int,
         NEW overhead \in Nat, NEW leaves, Len(leaves) <= Len(tokens),
         IsLevel(leaves, tokens, child, budget, overhead),
         NEW f, IsLevels(f, leaves, tokens, child, budget, overhead)
  PROVE  \/ f[Len(tokens)] = <<Unplannable>> /\ 2 * (child + overhead) > budget
         \/ /\ IsLevel(f[Len(tokens)], tokens, child, budget, overhead)
            /\ Len(f[Len(tokens)]) = 1
<1> DEFINE N == Len(tokens)
           S == {n \in 0..N : Len(f[n]) = 1 \/ Len(f[n]) + n <= N}
<1>1. N \in Nat
  OBVIOUS
<1>2. ASSUME NEW n \in 0..N
      PROVE  /\ Len(f[n]) \in Nat \ {0}
             /\ LevelOrError(f[n], tokens, child, budget, overhead)
  <2>1. LevelOrError(f[n], tokens, child, budget, overhead)
    BY DEF IsLevels
  <2>2. CASE f[n] = <<Unplannable>>
    BY <2>1, <2>2
  <2>3. CASE IsLevel(f[n], tokens, child, budget, overhead)
    <3>1. f[n] \in Seq(Seq(Nodes)) /\ f[n] # <<>>
      BY <2>3 DEF IsLevel
    <3> QED BY <2>1, <3>1, EmptySeq
  <2> QED BY <2>1, <2>2, <2>3 DEF LevelOrError
<1>3. 0 \in S
  <2>1. f[0] = leaves
    BY DEF IsLevels
  <2>2. 0 \in 0..N /\ Len(f[0]) \in Nat
    BY <1>1, <1>2
  <2> QED BY <1>1, <2>1, <2>2
<1>4. ASSUME NEW n \in 0..(N - 1), n \in S PROVE n + 1 \in S
  <2>1. n + 1 \in 1..N /\ n + 1 \in 0..N /\ n \in 0..N /\ (n + 1) - 1 = n
    BY <1>1
  <2>2. f[n + 1] = IF Len(f[n]) = 1 THEN f[n] ELSE Round(f[n], child + overhead, budget)
    BY <2>1 DEF IsLevels
  <2>3. CASE Len(f[n]) = 1
    BY <2>1, <2>2, <2>3
  <2>4. CASE Len(f[n]) # 1
    <3>1. Len(f[n]) + n <= N /\ Len(f[n]) \in Nat \ {0}
      BY <1>2, <1>4, <2>1, <2>4
    <3>2. IsLevel(f[n], tokens, child, budget, overhead)
      <4>1. Len(<<Unplannable>>) = 1
        OBVIOUS
      <4>2. f[n] # <<Unplannable>>
        BY <2>4, <4>1, Zenon
      <4> QED BY <4>2, <1>2, <2>1, <4>1 DEF LevelOrError
    <3>3. Len(f[n]) > 1
      <4> DEFINE l == Len(f[n])
      <4>1. l \in Nat \ {0} /\ l # 1
        BY <2>4, <3>1
      <4> HIDE DEF l
      <4>2. l > 1
        BY <4>1
      <4> QED BY <4>2 DEF l
    <3> DEFINE r == Round(f[n], child + overhead, budget)
    <3>4. r = <<Unplannable>> \/ Len(r) < Len(f[n])
      BY <3>2, <3>3, RoundSteps
    <3>5. f[n + 1] = r
      BY <2>2, <2>4
    <3> HIDE DEF r
    <3>6. CASE f[n + 1] = <<Unplannable>>
      BY <2>1, <3>6
    <3>7. CASE Len(f[n + 1]) < Len(f[n])
      <4>1. Len(f[n + 1]) \in Nat
        BY <1>2, <2>1
      <4>2. Len(f[n + 1]) + (n + 1) <= N
        <5> DEFINE l == Len(f[n])
                   m == Len(f[n + 1])
        <5>1. l \in Nat /\ m \in Nat /\ m < l /\ l + n <= N /\ n \in Nat
          BY <3>1, <3>7, <4>1
        <5> HIDE DEF l, m, N
        <5>2. m + (n + 1) <= N
          BY <1>1, <5>1
        <5> QED BY <5>2 DEF m
      <4> QED BY <2>1, <4>2
    <3> QED BY <3>4, <3>5, <3>6, <3>7
  <2> QED BY <2>3, <2>4
<1>5. N \in S
  <2> HIDE DEF S
  <2> QED BY <1>1, <1>3, <1>4, Induction
<1>6. N \in 0..N
  BY <1>1
<1>7. Len(f[N]) = 1
  <2>1. Len(f[N]) \in Nat \ {0}
    BY <1>2, <1>6
  <2>2. Len(f[N]) = 1 \/ Len(f[N]) + N <= N
    BY <1>5
  <2> HIDE DEF N
  <2> QED BY <1>1, <2>1, <2>2
<1>8. LevelOrError(f[N], tokens, child, budget, overhead)
  BY <1>2, <1>6
<1> QED BY <1>7, <1>8 DEF LevelOrError

\* More inputs cost more.
LEMMA CostGrows ==
  ASSUME NEW costs \in Seq(Nat), NEW a \in 0..Len(costs), NEW b \in 0..Len(costs), a <= b
  PROVE  Cost(costs, 0, a) <= Cost(costs, 0, b)
<1> DEFINE N == Len(costs)
           f == [n \in 0..N |-> Cost(costs, 0, n)]
<1>1. N \in Nat
  OBVIOUS
<1>2. ASSUME NEW n \in 0..N PROVE Cost(costs, 0, n) \in Nat
  BY CostIsASize
<1>3. f \in [0..N -> Int]
  BY <1>2
<1>4. ASSUME NEW n \in 1..N PROVE f[n - 1] <= f[n]
  <2>1. n - 1 \in 0..(N - 1) /\ n - 1 \in 0..N /\ n \in 0..N /\ (n - 1) + 1 = n /\ 0 <= n - 1
    BY <1>1
  <2>2. Cost(costs, 0, (n - 1) + 1) = Cost(costs, 0, n - 1) + costs[(n - 1) + 1]
    BY <2>1, CostAppended
  <2>3. costs[n] \in Nat /\ Cost(costs, 0, n - 1) \in Nat
    BY <1>2, <2>1, ElementOfSeq
  <2> QED BY <2>1, <2>2, <2>3
<1>5. f[a] <= f[b]
  <2> HIDE DEF f, N
  <2>1. a \in 0..N /\ b \in 0..N
    BY DEF N
  <2> QED BY <1>1, <1>3, <1>4, <2>1, Monotone
<1> QED BY <1>5

\* The costs of all inputs are their sizes and what rendering adds to each.
LEMMA SumOfCosts ==
  ASSUME NEW tokens \in Seq(Nat), NEW overhead \in Nat
  PROVE  Cost([i \in DOMAIN tokens |-> tokens[i] + overhead], 0, Len(tokens))
           = Sum(tokens) + overhead * Len(tokens)
<1> DEFINE N == Len(tokens)
           costs == [i \in DOMAIN tokens |-> tokens[i] + overhead]
<1>1. N \in Nat /\ tokens \in [1..N -> Nat] /\ costs \in [1..N -> Nat] /\ costs \in Seq(Nat) /\ Len(costs) = N
  OBVIOUS
<1> DEFINE S == {n \in 0..N : Cost(costs, 0, n) = Cost(tokens, 0, n) + overhead * n}
<1>2. 0 \in S
  <2>1. Cost(costs, 0, 0) = 0 /\ Cost(tokens, 0, 0) = 0
    BY CostOfNothing
  <2> QED BY <1>1, <2>1
<1>3. ASSUME NEW n \in 0..(N - 1), n \in S PROVE n + 1 \in S
  <2>1. n \in 0..N /\ n + 1 \in 0..N /\ n + 1 \in 1..N /\ 0 <= n
    BY <1>1
  <2>2. Cost(costs, 0, n + 1) = Cost(costs, 0, n) + costs[n + 1]
    BY ZenonT(60), <1>1, <2>1, CostAppended
  <2>3. Cost(tokens, 0, n + 1) = Cost(tokens, 0, n) + tokens[n + 1]
    BY <1>1, <2>1, CostAppended
  <2>4. costs[n + 1] = tokens[n + 1] + overhead /\ tokens[n + 1] \in Nat
    BY <1>1, <2>1
  <2>5. Cost(tokens, 0, n) \in Nat
    BY <1>1, <2>1, CostIsASize
  <2>6. Cost(costs, 0, n) = Cost(tokens, 0, n) + overhead * n
    BY <1>3
  <2>7. overhead * (n + 1) = overhead * n + overhead /\ overhead * n \in Int
    BY <2>1
  <2> HIDE DEF costs
  <2>8. Cost(costs, 0, n + 1) = Cost(tokens, 0, n + 1) + overhead * (n + 1)
    BY <2>2, <2>3, <2>4, <2>5, <2>6, <2>7
  <2> QED BY <2>1, <2>8
<1>4. N \in S
  <2> HIDE DEF S
  <2> QED BY <1>1, <1>2, <1>3, Induction
<1>5. Cost(tokens, 0, N) = Sum(tokens)
  <2>1. [i \in 1..(N - 0) |-> tokens[0 + i]] = tokens
    <3>1. N - 0 = N /\ \A i \in 1..N : 0 + i = i
      BY <1>1
    <3> HIDE DEF N
    <3> QED BY <1>1, <3>1
  <2> QED BY <2>1 DEF Cost
<1> QED BY <1>4, <1>5

\* The inputs are one group exactly when they fit together.
LEMMA OneGroup ==
  ASSUME NEW costs \in Seq(Nat), costs # <<>>, NEW budget \in Int,
         \A i \in 1..Len(costs) : costs[i] <= budget
  PROVE  Len(Chunk(costs, budget)) = 1 <=> Cost(costs, 0, Len(costs)) <= budget
<1> DEFINE N == Len(costs)
           groups == Chunk(costs, budget)
           G == Len(groups)
<1>1. PICK c : /\ CutAt(c, groups, costs, budget)
               /\ groups # <<>>
               /\ c[G] = N
               /\ Greedy(c, G - 1, costs, budget)
  BY ChunkCuts
<1> HIDE DEF groups
<1>2. N \in Nat /\ G \in Nat \ {0} /\ c \in [0..G -> 0..N] /\ c[0] = 0
  BY <1>1, EmptySeq DEF CutAt
<1>3. ASSUME G = 1 PROVE Cost(costs, 0, N) <= budget
  <2>1. 1 \in 1..G /\ 1 - 1 = 0
    BY <1>3
  <2>2. Cost(costs, c[1 - 1], c[1]) <= budget
    BY <1>1, <2>1 DEF CutAt
  <2> QED BY <1>1, <1>2, <1>3, <2>1, <2>2
<1>4. ASSUME G # 1 PROVE ~(Cost(costs, 0, N) <= budget)
  <2>1. 1 \in 1..(G - 1) /\ 1 \in 1..G /\ 2 \in 1..G /\ 1 \in 0..G /\ 2 \in 0..G
        /\ 1 - 1 = 0 /\ 2 - 1 = 1
    <3> HIDE DEF G
    <3> QED BY <1>2, <1>4
  <2>2. c[1] \in 0..N /\ c[2] \in 0..N /\ c[1] < c[2]
    <3>1. c[2 - 1] < c[2]
      BY <1>1, <2>1 DEF CutAt
    <3> QED BY <1>2, <2>1, <3>1
  <2> DEFINE a == c[1]
  <2>3. a \in 0..(N - 1) /\ a + 1 \in 0..N /\ a \in 0..N /\ N \in 0..N /\ a + 1 <= N /\ 0 <= a
    BY <1>2, <2>2
  <2>4. Cost(costs, 0, a) + costs[a + 1] > budget
    <3>1. Cost(costs, c[1 - 1], c[1]) + costs[c[1] + 1] > budget
      BY <1>1, <2>1 DEF Greedy
    <3> QED BY <1>2, <2>1, <3>1
  <2> HIDE DEF a
  <2>5. Cost(costs, 0, a + 1) = Cost(costs, 0, a) + costs[a + 1]
    BY <2>3, CostAppended
  <2>6. Cost(costs, 0, a + 1) <= Cost(costs, 0, N)
    BY <2>3, CostGrows
  <2>7. Cost(costs, 0, a + 1) \in Nat /\ Cost(costs, 0, N) \in Nat
    <3>1. 0 <= a + 1 /\ 0 <= N
      BY <1>2, <2>3
    <3> QED BY <2>3, <3>1, CostIsASize
  <2> HIDE DEF N
  <2> QED BY <2>4, <2>5, <2>6, <2>7
<1> QED BY <1>3, <1>4 DEF groups

\* Once one tree is left, the levels stay as they are.
LEMMA LevelStays ==
  ASSUME NEW tokens \in Seq(Nat), NEW child, NEW budget, NEW overhead, NEW leaves,
         NEW f, IsLevels(f, leaves, tokens, child, budget, overhead),
         NEW m \in 0..Len(tokens), Len(f[m]) = 1
  PROVE  f[Len(tokens)] = f[m]
<1> DEFINE N == Len(tokens)
           S == {n \in 0..N : n >= m => f[n] = f[m]}
<1>1. N \in Nat /\ m \in 0..N
  OBVIOUS
<1>2. 0 \in S
  <2>1. 0 >= m => m = 0
    BY <1>1
  <2> QED BY <1>1, <2>1
<1>3. ASSUME NEW n \in 0..(N - 1), n \in S PROVE n + 1 \in S
  <2>1. n + 1 \in 1..N /\ n + 1 \in 0..N /\ (n + 1) - 1 = n /\ (n + 1 >= m => n >= m \/ n + 1 = m)
    BY <1>1
  <2>2. f[n + 1] = IF Len(f[n]) = 1 THEN f[n] ELSE Round(f[n], child + overhead, budget)
    BY <2>1 DEF IsLevels
  <2>3. ASSUME n + 1 >= m PROVE f[n + 1] = f[m]
    <3>1. CASE n >= m
      <4>1. f[n] = f[m]
        BY <1>3, <3>1
      <4> QED BY <2>2, <4>1
    <3>2. CASE n + 1 = m
      BY <3>2
    <3> QED BY <2>1, <2>3, <3>1, <3>2
  <2> QED BY <2>1, <2>3
<1>4. N \in S
  <2> HIDE DEF S
  <2> QED BY <1>1, <1>2, <1>3, Induction
<1> QED BY <1>1, <1>4

\* plan_reduction returns a tree of all inputs, in order, whose requests fit; it fails
\* only when an input does not fit alone, or two planned reports do not fit together
\* although they have to.
LEMMA PlanSpans ==
  ASSUME NEW tokens \in Seq(Nat), NEW child \in Nat \ {0}, NEW budget \in Int,
         NEW overhead \in Nat
  PROVE  LET tree == plan_reduction(tokens, child, budget, overhead) IN
         IF MustFail(tokens, child, budget, overhead) THEN tree = Unplannable
         ELSE IsTree(tree, 0, Len(tokens), tokens, child, budget, overhead)
<1> DEFINE N == Len(tokens)
           size == child + overhead
           tree == plan_reduction(tokens, child, budget, overhead)
           costs == [i \in DOMAIN tokens |-> tokens[i] + overhead]
           leaves == LET groups == Chunk(costs, budget) IN [g \in DOMAIN groups |-> Leaf(groups[g])]
           level[n \in 0..N] ==
             IF n = 0 THEN leaves
             ELSE IF Len(level[n - 1]) = 1 THEN level[n - 1]
             ELSE Round(level[n - 1], size, budget)
           fails == tokens = <<>> \/ budget <= 0 \/ \E i \in DOMAIN costs : costs[i] > budget
           must == MustFail(tokens, child, budget, overhead)
<1>1. tree = IF fails THEN Unplannable ELSE level[N][1]
  BY DEF plan_reduction
<1>2. must <=> fails \/ (Sum(tokens) + overhead * N > budget /\ 2 * size > budget)
  BY DEF MustFail
<1>3. DOMAIN costs = DOMAIN tokens
  OBVIOUS
<1> HIDE DEF tree, must
<1>4. CASE fails
  BY <1>1, <1>2, <1>4 DEF tree, must
<1>5. CASE ~fails
  <2>1. tokens # <<>> /\ (\A i \in DOMAIN costs : costs[i] <= budget) /\ N \in Nat \ {0}
    <3>1. \A i \in DOMAIN costs : costs[i] \in Int
      OBVIOUS
    <3>2. tokens # <<>> /\ ~(\E i \in DOMAIN costs : costs[i] > budget)
      BY <1>5
    <3> HIDE DEF costs, fails
    <3> QED BY <3>1, <3>2, EmptySeq
  <2>2. /\ costs \in Seq(Nat) /\ Len(costs) = N /\ costs # <<>>
        /\ \A i \in 1..Len(costs) : costs[i] <= budget
    <3>1. costs \in [1..N -> Nat]
      OBVIOUS
    <3>2. costs \in Seq(Nat) /\ Len(costs) = N
      BY <2>1, <3>1, FunctionIsSequence DEF SequenceOf
    <3> HIDE DEF costs, N
    <3> QED BY <2>1, <3>2
  <2>3. IsLevel(leaves, tokens, child, budget, overhead) /\ Len(leaves) <= Len(tokens)
    <3>1. child \in Nat
      OBVIOUS
    <3> QED BY <2>1, <3>1, FirstLevel
  <2>4. Len(leaves) = 1 <=> Cost(costs, 0, N) <= budget
    <3> DEFINE groups == Chunk(costs, budget)
    <3>1. Len(groups) = 1 <=> Cost(costs, 0, N) <= budget
      <4> HIDE DEF costs, N
      <4> QED BY <2>2, OneGroup
    <3>2. groups \in Seq(Seq(Nat))
      <4> HIDE DEF costs, N
      <4>1. PICK c : CutAt(c, groups, costs, budget)
        BY <2>2, ChunkCuts
      <4> QED BY <4>1 DEF CutAt
    <3>3. Len(leaves) = Len(groups)
      <4> HIDE DEF groups
      <4>1. Len([g \in DOMAIN groups |-> Leaf(groups[g])]) = Len(groups)
        BY <3>2
      <4> QED BY <4>1 DEF groups
    <3> QED BY <3>1, <3>3
  <2>5. Cost(costs, 0, N) = Sum(tokens) + overhead * N
    BY SumOfCosts
  <2>6. Cost(costs, 0, N) \in Nat /\ size \in Nat
    <3>1. N \in 0..Len(costs) /\ 0 <= N
      BY <2>1, <2>2
    <3> HIDE DEF costs
    <3> QED BY <2>2, <3>1, CostIsASize
  <2>7. IsLevels(level, leaves, tokens, child, budget, overhead)
    <3> HIDE DEF leaves
    <3> QED BY <2>3, Levels
  <2> HIDE DEF level, leaves, costs, fails
  <2>8. tree = level[N][1]
    BY <1>1, <1>5
  <2>9. level[0] = leaves /\ 0 \in 0..N /\ 1 \in 0..N /\ 1 \in 1..N
    BY <2>1, <2>7 DEF IsLevels
  <2>10. ASSUME IsLevel(level[N], tokens, child, budget, overhead), Len(level[N]) = 1
         PROVE  IsTree(tree, 0, Len(tokens), tokens, child, budget, overhead)
    <3>1. PICK c : Borders(c, level[N], tokens, child, budget, overhead)
      BY <2>10 DEF IsLevel
    <3>2. c[0] = 0 /\ c[1] = Len(tokens)
      BY <2>10, <3>1 DEF Borders
    <3>3. 1 \in 1..Len(level[N]) /\ 1 - 1 = 0
      BY <2>10
    <3>4. IsTree(level[N][1], c[1 - 1], c[1], tokens, child, budget, overhead)
      BY <3>1, <3>3 DEF Borders
    <3> QED BY <2>8, <3>2, <3>3, <3>4
  <2>11. CASE Cost(costs, 0, N) <= budget
    <3>1. ~must
      <4> DEFINE total == Cost(costs, 0, N)
      <4>1. ~(total > budget)
        <5>1. total \in Nat /\ total <= budget
          BY <2>6, <2>11
        <5> HIDE DEF total
        <5> QED BY <5>1
      <4> QED BY <1>2, <1>5, <2>5, <4>1
    <3>2. level[N] = leaves /\ Len(leaves) = 1
      BY <2>4, <2>7, <2>9, <2>11, LevelStays
    <3> QED BY <2>3, <2>10, <3>1, <3>2 DEF must, tree
  <2>12. CASE ~(Cost(costs, 0, N) <= budget) /\ 2 * size > budget
    <3>1. must
      <4> DEFINE total == Cost(costs, 0, N)
      <4>1. total > budget
        <5>1. total \in Nat /\ ~(total <= budget)
          BY <2>6, <2>12
        <5> HIDE DEF total
        <5> QED BY <5>1
      <4> QED BY <1>2, <2>5, <2>12, <4>1
    <3>2. Len(leaves) # 1 /\ Len(leaves) > 1
      <4> DEFINE l == Len(leaves)
      <4>1. l \in Nat \ {0} /\ l # 1
        BY <2>3, <2>4, <2>12, EmptySeq DEF IsLevel
      <4> HIDE DEF l
      <4>2. l > 1
        BY <4>1
      <4> QED BY <4>1, <4>2 DEF l
    <3> DEFINE r == Round(leaves, child + overhead, budget)
    <3>3. r = <<Unplannable>>
      <4>1. \/ r = <<Unplannable>> /\ 2 * (child + overhead) > budget
            \/ 2 * (child + overhead) <= budget
        BY <2>3, <3>2, RoundSteps
      <4>2. ~(2 * size <= budget)
        <5>1. 2 * size \in Int /\ 2 * size > budget
          BY <2>6, <2>12
        <5> HIDE DEF size
        <5> QED BY <5>1
      <4> QED BY <4>1, <4>2
    <3>4. level[1] = r
      <4>1. level[1] = IF Len(level[1 - 1]) = 1 THEN level[1 - 1]
                       ELSE Round(level[1 - 1], child + overhead, budget)
        BY <2>7, <2>9 DEF IsLevels
      <4>2. 1 - 1 = 0
        OBVIOUS
      <4> QED BY <2>9, <3>2, <4>1, <4>2
    <3> HIDE DEF r
    <3>5. Len(level[1]) = 1
      BY <3>3, <3>4
    <3>6. level[N] = level[1]
      BY <2>7, <2>9, <3>5, LevelStays
    <3>7. tree = Unplannable
      BY <2>8, <3>3, <3>4, <3>6
    <3> QED BY <3>1, <3>7 DEF must, tree
  <2>13. CASE ~(Cost(costs, 0, N) <= budget) /\ ~(2 * size > budget)
    <3>1. ~must
      BY <1>2, <1>5, <2>13
    <3>2. \/ level[N] = <<Unplannable>> /\ 2 * (child + overhead) > budget
          \/ IsLevel(level[N], tokens, child, budget, overhead) /\ Len(level[N]) = 1
      BY <2>3, <2>7, LastLevel
    <3> QED BY <2>10, <2>13, <3>1, <3>2 DEF must, tree
  <2> QED BY <2>11, <2>12, <2>13
<1> QED BY <1>4, <1>5

-----------------------------------------------------------------------------
(* What a tree with spans covers *)

\* Where the positions of the first n requests end.
EndsAt(t, sp) == [n \in 0..Len(t) |-> IF n = 0 THEN 0 ELSE sp[n].to]

\* A request's positions begin where those of the requests before it end.
Follows(ends, t, sp, size, n) ==
  /\ ends[n] = sp[n].to /\ ends[n - 1] <= ends[n]
  /\ t[n].children = <<>> => ends[n - 1] = sp[n].from
  /\ t[n].children # <<>> => ends[n - 1] = sp[n].to

IsEnds(ends, t, sp, size) ==
  /\ ends \in [0..Len(t) -> 0..size] /\ ends[0] = 0 /\ ends[Len(t)] = size
  /\ \A n \in 1..Len(t) : Follows(ends, t, sp, size, n)

IsSpan(t, sp, n, size) ==
  /\ t[n] \in Nodes /\ t[n].items \in Seq(Nat) /\ t[n].children \in Seq(Nat)
  /\ sp[n].from \in Nat /\ sp[n].to \in Nat /\ sp[n].from < sp[n].to /\ sp[n].to <= size

\* Every node of a tree with spans has a span that is not empty.
LEMMA SpansOfNodes ==
  ASSUME NEW t, NEW sp, NEW size, Spans(t, sp, 0, size)
  PROVE  size \in Nat /\ Len(t) \in Nat \ {0} /\ \A n \in 1..Len(t) : IsSpan(t, sp, n, size)
<1>1. t \in Seq(Nodes) /\ t # <<>> /\ sp \in Seq(Span) /\ Len(sp) = Len(t)
  BY DEF Spans
<1>2. size \in Nat
  BY SpansGrow
<1>3. Len(t) \in Nat \ {0}
  BY <1>1, EmptySeq
<1>4. ASSUME NEW n \in 1..Len(t) PROVE IsSpan(t, sp, n, size)
  <2>1. t[n] \in Nodes /\ sp[n] \in Span
    BY <1>1, ElementOfSeq
  <2>2. sp[n].from < sp[n].to /\ sp[n].to <= size
    BY DEF Spans
  <2> QED BY <2>1, <2>2 DEF Nodes, Span, IsSpan
<1> QED BY <1>2, <1>3, <1>4

\* The places where requests end rise from 0 to the number of inputs.
LEMMA EndsExist ==
  ASSUME NEW t, NEW sp, NEW size, Spans(t, sp, 0, size)
  PROVE  IsEnds(EndsAt(t, sp), t, sp, size)
<1> DEFINE N == Len(t)
           ends == EndsAt(t, sp)
<1>1. size \in Nat /\ N \in Nat \ {0} /\ \A n \in 1..N : IsSpan(t, sp, n, size)
  BY SpansOfNodes
<1> HIDE DEF N
<1>2. ends = [n \in 0..N |-> IF n = 0 THEN 0 ELSE sp[n].to]
  BY DEF EndsAt, N
<1> HIDE DEF ends
<1>3. ends[0] = 0 /\ \A n \in 1..N : ends[n] = sp[n].to
  <2>1. 0 \in 0..N /\ \A n \in 1..N : n \in 0..N /\ n # 0
    BY <1>1
  <2> QED BY <1>2, <2>1
<1>4. ends \in [0..N -> 0..size]
  <2>1. ASSUME NEW n \in 0..N PROVE (IF n = 0 THEN 0 ELSE sp[n].to) \in 0..size
    <3>1. n = 0 \/ n \in 1..N
      BY <1>1
    <3>2. CASE n = 0
      BY <1>1, <3>2
    <3>3. CASE n \in 1..N
      BY <1>1, <3>3 DEF IsSpan
    <3> QED BY <3>1, <3>2, <3>3
  <2> QED BY <1>2, <2>1
<1>5. ends[N] = size
  <2>1. N \in 1..N
    BY <1>1
  <2>2. sp[N].to = size
    BY DEF Spans, N
  <2> QED BY <1>3, <2>1, <2>2
<1>6. ASSUME NEW n \in 1..N PROVE Follows(ends, t, sp, size, n)
  <2>1. InPlace(t, sp, 0, n)
    BY DEF Spans, N
  <2>2. ends[n] = sp[n].to /\ sp[n].from \in Nat /\ sp[n].to \in Nat /\ sp[n].from < sp[n].to
    BY <1>1, <1>3 DEF IsSpan
  <2>3. ends[n - 1] = IF n = 1 THEN 0 ELSE sp[n - 1].to
    <3>1. CASE n = 1
      <4>1. n - 1 = 0
        BY <3>1
      <4> QED BY <1>3, <3>1, <4>1
    <3>2. CASE n # 1
      <4>1. n - 1 \in 1..N
        BY <1>1, <3>2
      <4> QED BY <1>3, <3>2, <4>1
    <3> QED BY <3>1, <3>2
  <2>4. CASE t[n].children = <<>>
    <3>1. ends[n - 1] = sp[n].from
      BY <2>1, <2>3, <2>4 DEF InPlace
    <3> QED BY <2>2, <2>4, <3>1 DEF Follows
  <2>5. CASE t[n].children # <<>>
    <3>1. n > 1 /\ sp[n].to = sp[n - 1].to
      BY <2>1, <2>5 DEF InPlace
    <3>2. ends[n - 1] = sp[n].to
      BY <1>1, <2>3, <3>1
    <3> QED BY <2>2, <2>5, <3>2 DEF Follows
  <2> QED BY <2>4, <2>5
<1> QED BY <1>3, <1>4, <1>5, <1>6 DEF IsEnds, ends, N

Positions(size) == [i \in 1..size |-> i]

\* The items of the requests, one after the other, are all positions in order.
LEMMA ItemsInOrder ==
  ASSUME NEW t, NEW sp, NEW size, Spans(t, sp, 0, size)
  PROVE  FlattenSeq([n \in DOMAIN t |-> t[n].items]) = Positions(size)
<1> DEFINE N == Len(t)
           ends == EndsAt(t, sp)
           q == Positions(size)
           s == [n \in DOMAIN t |-> t[n].items]
<1>1. size \in Nat /\ N \in Nat \ {0} /\ (\A n \in 1..N : IsSpan(t, sp, n, size)) /\ DOMAIN t = 1..N
  BY SpansOfNodes DEF Spans
<1>2. IsEnds(ends, t, sp, size)
  BY EndsExist
<1>3. q \in Seq(Nat) /\ Len(q) = size /\ \A i \in 1..size : q[i] = i
  BY <1>1 DEF Positions
<1>4. s \in Seq(Seq(Nat)) /\ Len(s) = N /\ \A n \in 1..N : s[n] = t[n].items
  <2>1. s \in [1..N -> Seq(Nat)]
    <3> HIDE DEF N
    <3> QED BY <1>1 DEF IsSpan
  <2>2. s \in Seq(Seq(Nat)) /\ Len(s) = N
    <3> HIDE DEF s, N
    <3> QED BY <1>1, <2>1, FunctionIsSequence DEF SequenceOf
  <2>3. \A n \in 1..N : s[n] = t[n].items
    BY <1>1
  <2> QED BY <2>2, <2>3
<1> HIDE DEF N, ends, q, s
<1>5. /\ ends \in [0..N -> 0..size] /\ ends[0] = 0 /\ ends[N] = size
      /\ \A n \in 1..N : Follows(ends, t, sp, size, n)
  BY <1>2 DEF IsEnds, N
<1>6. ASSUME NEW n \in 1..N
      PROVE  ends[n - 1] <= ends[n] /\ s[n] = SubSeq(q, ends[n - 1] + 1, ends[n])
  <2> DEFINE a == ends[n - 1]
             b == ends[n]
  <2>1. a \in 0..size /\ b \in 0..size
    <3>1. n - 1 \in 0..N /\ n \in 0..N
      BY <1>1
    <3> QED BY <1>5, <3>1
  <2>2. a <= b /\ b = sp[n].to
    BY <1>5 DEF Follows
  <2>3. IsLeaf(t, sp, n) \/ IsInner(t, sp, n)
    BY DEF Spans, N
  <2>4. CASE IsLeaf(t, sp, n)
    <3>1. a = sp[n].from
      BY <1>5, <2>4 DEF Follows, IsLeaf
    <3>2. s[n] = [i \in 1..(b - a) |-> a + i]
      BY <1>4, <2>2, <2>4, <3>1 DEF IsLeaf, Run
    <3> HIDE DEF a, b
    <3>3. SubSeq(q, a + 1, b) = [i \in 1..(b - a) |-> a + i]
      <4> DEFINE r == SubSeq(q, a + 1, b)
                 run == Run(a, b)
      <4>1. a \in Nat /\ b \in Nat /\ b <= size /\ a <= b
        BY <1>1, <2>1, <2>2 DEF a, b
      <4>2. /\ r \in Seq(Nat) /\ Len(r) = b - a
            /\ \A i \in 1..(b - a) : r[i] = a + i
        <5>1. /\ r \in Seq(Nat)
              /\ Len(r) = IF a + 1 <= b THEN b - (a + 1) + 1 ELSE 0
              /\ \A i \in 1..(b - (a + 1) + 1) : r[i] = q[(a + 1) + i - 1]
          <6>1. \A i \in (a + 1)..b : q[i] \in Nat
            BY <1>3, <4>1
          <6>2. a + 1 \in Int /\ b \in Int
            BY <4>1
          <6> QED BY <6>1, <6>2, SubSeqProperties
        <5>2. b - (a + 1) + 1 = b - a /\ (~(a + 1 <= b) => b - a = 0)
          BY <4>1
        <5>3. \A i \in 1..(b - a) : (a + 1) + i - 1 = a + i /\ a + i \in 1..size
          BY <4>1, <1>1
        <5> HIDE DEF r
        <5>4. Len(r) = b - a
          BY <5>1, <5>2
        <5>5. ASSUME NEW i \in 1..(b - a) PROVE r[i] = a + i
          BY <1>3, <5>1, <5>2, <5>3
        <5> QED BY <5>1, <5>4, <5>5
      <4>3. run \in Seq(Nat) /\ Len(run) = b - a /\ \A i \in 1..(b - a) : run[i] = a + i
        BY <4>1, RunIsASequence DEF Run
      <4>4. run = [i \in 1..(b - a) |-> a + i]
        BY DEF Run
      <4> HIDE DEF r, run
      <4>5. \A i \in 1..Len(r) : r[i] = run[i]
        BY <4>2, <4>3
      <4>6. r = run
        BY <4>2, <4>3, <4>5, SeqEqual
      <4> QED BY <4>4, <4>6 DEF r
    <3> QED BY <2>2, <3>2, <3>3 DEF a, b
  <2>5. CASE IsInner(t, sp, n)
    <3>1. t[n].items = <<>> /\ t[n].children # <<>>
      BY <2>5 DEF IsInner
    <3>2. a = b
      BY <1>5, <2>2, <3>1 DEF Follows
    <3>3. SubSeq(q, b + 1, b) = <<>>
      <4> HIDE DEF b
      <4>1. b + 1 \in Int /\ b \in Int /\ b < b + 1
        BY <2>1, <1>1
      <4> QED BY <4>1, SubSeqEmpty
    <3> QED BY <1>4, <2>2, <3>1, <3>2, <3>3
  <2> QED BY <2>3, <2>4, <2>5
<1>7. FlattenSeq(s) = SubSeq(q, ends[0] + 1, ends[N])
  <2>1. ends \in [0..Len(s) -> 0..Len(q)]
    BY <1>3, <1>4, <1>5
  <2>2. \A k \in 1..Len(s) : ends[k - 1] <= ends[k] /\ s[k] = SubSeq(q, ends[k - 1] + 1, ends[k])
    BY <1>4, <1>6
  <2>3. FlattenSeq(s) = SubSeq(q, ends[0] + 1, ends[Len(s)])
    BY ZenonT(60), <1>3, <1>4, <2>1, <2>2, FlattenPieces
  <2> QED BY <1>4, <2>3
<1>8. SubSeq(q, 1, size) = q
  BY <1>3, SubSeqFull
<1>9. SubSeq(q, ends[0] + 1, ends[N]) = SubSeq(q, 1, size)
  BY <1>5
<1> QED BY <1>7, <1>8, <1>9 DEF s, q

\* Siblings are in the order of their positions, and after no node above them.
LEMMA SiblingsInOrder ==
  ASSUME NEW t, NEW sp, NEW size, Spans(t, sp, 0, size),
         NEW n \in 1..Len(t), t[n].children # <<>>,
         NEW c \in 1..Len(t[n].children), NEW d \in 1..Len(t[n].children), c < d
  PROVE  t[n].children[c] < t[n].children[d]
<1> DEFINE N == Len(t)
           ends == EndsAt(t, sp)
           kids == t[n].children
           K == Len(kids)
           f == [k \in 0..K |-> IF k = 0 THEN sp[n].from ELSE sp[kids[k]].to]
<1>1. size \in Nat /\ N \in Nat \ {0} /\ \A m \in 1..N : IsSpan(t, sp, m, size)
  BY SpansOfNodes
<1>2. IsEnds(ends, t, sp, size)
  BY EndsExist
<1>3. IsInner(t, sp, n)
  BY DEF Spans, IsLeaf
<1>4. kids \in Seq(Nat) /\ K \in Nat
  BY <1>1 DEF IsSpan
<1>5. ASSUME NEW k \in 1..K
      PROVE  kids[k] \in 1..N /\ sp[kids[k]].from = (IF k = 1 THEN sp[n].from ELSE sp[kids[k - 1]].to)
  <2>1. kids[k] \in 1..(n - 1) /\ sp[kids[k]].from = (IF k = 1 THEN sp[n].from ELSE sp[kids[k - 1]].to)
    BY <1>3 DEF IsInner
  <2> HIDE DEF N, kids
  <2>2. n \in 1..N
    BY DEF N
  <2> QED BY <1>1, <2>1, <2>2
<1> HIDE DEF N, ends, kids, K
<1>6. sp[n].from \in Int /\ \A k \in 1..K : sp[kids[k]].from \in Int /\ sp[kids[k]].to \in Int
                                           /\ sp[kids[k]].from < sp[kids[k]].to
  <2>1. n \in 1..N
    BY DEF N
  <2> QED BY SMTT(60), <1>1, <1>5, <2>1 DEF IsSpan
<1>7. f[0] = sp[n].from /\ \A k \in 1..K : f[k] = sp[kids[k]].to
  <2>1. 0 \in 0..K /\ \A k \in 1..K : k \in 0..K /\ k # 0
    BY <1>4
  <2> QED BY <2>1
<1>8. f \in [0..K -> Int]
  BY <1>4, <1>6
<1> HIDE DEF f
<1>9. ASSUME NEW k \in 1..K PROVE f[k - 1] < f[k]
  <2>1. f[k - 1] = sp[kids[k]].from
    <3>1. CASE k = 1
      <4>1. k - 1 = 0
        BY <3>1
      <4> QED BY <1>5, <1>7, <3>1, <4>1
    <3>2. CASE k # 1
      <4>1. k - 1 \in 1..K
        BY <1>4, <3>2
      <4> QED BY <1>5, <1>7, <3>2, <4>1
    <3> QED BY <3>1, <3>2
  <2> QED BY <1>6, <1>7, <2>1
<1>10. c \in 1..K /\ d \in 1..K
  BY DEF K, kids
<1>11. sp[kids[c]].to < sp[kids[d]].to
  <2>1. c \in 0..K /\ d - 1 \in 0..K /\ c <= d - 1 /\ d \in 0..K
    BY <1>4, <1>10
  <2>2. \A k \in 1..K : f[k - 1] <= f[k]
    <3> TAKE k \in 1..K
    <3>1. k - 1 \in 0..K /\ k \in 0..K
      BY <1>4
    <3>2. f[k - 1] \in Int /\ f[k] \in Int /\ f[k - 1] < f[k]
      BY <1>8, <1>9, <3>1
    <3> QED BY <3>2
  <2>3. f[c] <= f[d - 1]
    BY <1>4, <1>8, <2>1, <2>2, Monotone
  <2>4. f[d - 1] < f[d] /\ f[c] \in Int /\ f[d - 1] \in Int /\ f[d] \in Int
    BY <1>8, <1>9, <1>10, <2>1
  <2>5. f[c] < f[d]
    BY <2>3, <2>4
  <2> QED BY <1>7, <1>10, <2>5
<1>12. kids[c] < kids[d]
  <2> SUFFICES ASSUME ~(kids[c] < kids[d]) PROVE FALSE
    OBVIOUS
  <2> DEFINE i == kids[d]
             j == kids[c]
  <2>1. i \in 1..N /\ j \in 1..N
    BY <1>5, <1>10
  <2>2. i <= j /\ i \in 0..N /\ j \in 0..N
    <3>1. ~(j < i)
      OBVIOUS
    <3> HIDE DEF i, j
    <3> QED BY <1>1, <2>1, <3>1
  <2>3. ends \in [0..N -> Int] /\ \A k \in 1..N : ends[k - 1] <= ends[k]
    <3>1. ends \in [0..N -> 0..size] /\ \A k \in 1..N : ends[k - 1] <= ends[k]
      BY <1>2 DEF IsEnds, Follows, N
    <3> QED BY <1>1, <3>1
  <2>4. ends[i] = sp[i].to /\ ends[j] = sp[j].to
    BY <1>2, <2>1 DEF IsEnds, Follows, N
  <2> HIDE DEF i, j
  <2>5. ends[i] <= ends[j]
    BY <1>1, <2>2, <2>3, Monotone
  <2>6. sp[j].to < sp[i].to
    BY <1>11 DEF i, j
  <2>7. sp[i].to \in Int /\ sp[j].to \in Int
    <3>1. IsSpan(t, sp, i, size) /\ IsSpan(t, sp, j, size)
      BY <1>1, <2>1
    <3>2. sp[i].to \in Nat /\ sp[j].to \in Nat
      BY <3>1 DEF IsSpan
    <3> QED BY <3>2
  <2> QED BY <2>4, <2>5, <2>6, <2>7
<1> QED BY <1>12 DEF kids

\* Whoever has node c as a child is executed after it.
LEMMA ChildrenBefore ==
  ASSUME NEW t, NEW sp, NEW size, Spans(t, sp, 0, size),
         NEW n \in 1..Len(t), NEW c \in Children(t, n)
  PROVE  c \in 1..(n - 1)
<1>1. t[n].children \in Seq(Nat)
  BY SpansOfNodes DEF IsSpan
<1>2. PICK k \in 1..Len(t[n].children) : c = t[n].children[k]
  BY <1>1 DEF Children, ToSet
<1>3. IsLeaf(t, sp, n) \/ IsInner(t, sp, n)
  BY DEF Spans
<1>4. ~IsLeaf(t, sp, n)
  BY <1>2 DEF IsLeaf
<1> QED BY <1>2, <1>3, <1>4 DEF IsInner

ParentsOf(t, n) == {m \in DOMAIN t : n \in Children(t, m)}

\* Every node but the root has one parent, and the root none.
LEMMA CountOfParents ==
  ASSUME NEW t, NEW sp, NEW size, Spans(t, sp, 0, size), NEW n \in 1..Len(t)
  PROVE  Cardinality(ParentsOf(t, n)) = IF n = Len(t) THEN 0 ELSE 1
<1>1. DOMAIN t = 1..Len(t) /\ Len(t) \in Nat
  BY SpansOfNodes DEF Spans
<1>2. CASE n = Len(t)
  <2>1. ASSUME NEW m \in 1..Len(t) PROVE n \notin Children(t, m)
    <3>1. n \notin 1..(m - 1)
      BY <1>1, <1>2
    <3> QED BY <3>1, ChildrenBefore
  <2>2. ParentsOf(t, n) = {}
    BY <1>1, <2>1 DEF ParentsOf
  <2> QED BY <1>2, <2>2, FS_EmptySet
<1>3. CASE n # Len(t)
  <2>1. OneParent(t, n)
    BY DEF Spans
  <2>2. PICK m \in 1..Len(t) : GivenOnlyTo(t, n, m)
    BY <1>3, <2>1 DEF OneParent
  <2>3. ParentsOf(t, n) = {m}
    BY <1>1, <2>2 DEF ParentsOf, GivenOnlyTo
  <2> QED BY <1>3, <2>3, FS_Singleton
<1> QED BY <1>2, <1>3

\* A tree with spans has every position once and in order, and each request but the last
\* is given to exactly one.
LEMMA SpansCover ==
  ASSUME NEW t, NEW sp, NEW size, Spans(t, sp, 0, size)
  PROVE  CoversInOrder(t, size)
<1>1. DOMAIN t = 1..Len(t) /\ \A n \in 1..Len(t) : IsSpan(t, sp, n, size)
  BY SpansOfNodes DEF Spans
<1>2. ASSUME NEW n \in 1..Len(t)
      PROVE  (t[n].items = <<>>) # (t[n].children = <<>>)
  <2>1. IsLeaf(t, sp, n) \/ IsInner(t, sp, n)
    BY DEF Spans
  <2>2. CASE IsLeaf(t, sp, n)
    <3>1. Run(sp[n].from, sp[n].to) # <<>>
      <4> DEFINE a == sp[n].from
                 b == sp[n].to
      <4>1. a \in Nat /\ b \in Nat /\ a < b
        BY <1>1 DEF IsSpan
      <4> HIDE DEF a, b
      <4>2. Len(Run(a, b)) = b - a /\ b - a # 0
        <5>1. a <= b /\ b - a # 0
          BY <4>1
        <5> QED BY <4>1, <5>1, RunIsASequence
      <4>3. Run(a, b) # <<>>
        BY <4>2
      <4> QED BY <4>3 DEF a, b
    <3>2. t[n].items # <<>> /\ t[n].children = <<>>
      BY <2>2, <3>1 DEF IsLeaf
    <3> QED BY <3>2, Zenon
  <2>3. CASE IsInner(t, sp, n)
    <3>1. t[n].items = <<>> /\ t[n].children # <<>>
      BY <2>3 DEF IsInner
    <3> QED BY <3>1, Zenon
  <2> QED BY <2>1, <2>2, <2>3
<1>3. ASSUME NEW n \in 1..Len(t),
             NEW c \in DOMAIN t[n].children, NEW d \in DOMAIN t[n].children, c < d
      PROVE  t[n].children[c] < t[n].children[d]
  <2>1. t[n].children \in Seq(Nat)
    BY <1>1 DEF IsSpan
  <2>2. c \in 1..Len(t[n].children) /\ d \in 1..Len(t[n].children) /\ t[n].children # <<>>
    BY <2>1
  <2> QED BY <1>3, <2>2, SiblingsInOrder
<1>4. ASSUME NEW n \in 1..Len(t), NEW c \in Children(t, n) PROVE c < n
  <2>1. c \in 1..(n - 1)
    BY ChildrenBefore
  <2> QED BY <2>1
<1>5. ASSUME NEW n \in 1..Len(t)
      PROVE  Cardinality({m \in DOMAIN t : n \in Children(t, m)}) = IF n = Len(t) THEN 0 ELSE 1
  BY CountOfParents DEF ParentsOf
<1>6. FlattenSeq([n \in DOMAIN t |-> t[n].items]) = [i \in 1..size |-> i]
  BY ItemsInOrder DEF Positions
<1> QED BY <1>1, <1>2, <1>3, <1>4, <1>5, <1>6 DEF CoversInOrder

-----------------------------------------------------------------------------
(* Routing and the plan of a window *)

\* The library's minimum of some numbers is one of them.
LEMMA MinIsAMember == ASSUME NEW S \in SUBSET Nat, S # {} PROVE Min(S) \in S
<1>1. PICK x \in S : \A y \in S : <<y, x>> \notin OpToRel(<, Nat)
  BY WFMin, NatLessThanWellFounded
<1>2. \A y \in S : x <= y
  <2> TAKE y \in S
  <2>1. x \in Nat /\ y \in Nat
    OBVIOUS
  <2>2. <<y, x>> \in Nat \X Nat
    BY <2>1
  <2>3. <<y, x>> \notin {ss \in Nat \X Nat : ss[1] < ss[2]}
    BY <1>1 DEF OpToRel
  <2>4. ~(y < x)
    BY <2>2, <2>3
  <2> QED BY <2>1, <2>4
<1> QED BY <1>2 DEF Min

\* What the largest candidate has room for, besides the envelope.
Largest == Max(ToSet(Budgets))
Room == Largest - Envelope

\* Some model has the largest budget, and none a larger one.
LEMMA LargestBudget ==
  Largest \in Nat /\ (\E m \in Models : Budgets[m] = Largest) /\ \A m \in Models : Budgets[m] <= Largest
<1> DEFINE N == Len(Budgets)
<1>1. N \in Nat \ {0} /\ Budgets \in [1..N -> Nat] /\ Models = 1..N
  BY AggregateConstants, EmptySeq DEF Models
<1>2. ToSet(Budgets) = {Budgets[i] : i \in 1..N}
  BY <1>1 DEF ToSet
<1>3. /\ \E i \in 1..N : Max({Budgets[j] : j \in 1..N}) = Budgets[i]
      /\ \A i \in 1..N : Budgets[i] <= Max({Budgets[j] : j \in 1..N})
  <2>1. Budgets \in [1..N -> Int]
    BY <1>1
  <2> HIDE DEF N
  <2> QED BY <1>1, <2>1, MaxIsLargest
<1>4. (\E i \in 1..N : Largest = Budgets[i]) /\ \A i \in 1..N : Budgets[i] <= Largest
  BY <1>2, <1>3 DEF Largest
<1>5. Largest \in Nat
  <2>1. PICK i \in 1..N : Largest = Budgets[i]
    BY <1>4
  <2> HIDE DEF N
  <2> QED BY <1>1, <2>1
<1> QED BY <1>1, <1>4, <1>5

\* Routing takes one of the models, and fails only above the largest budget.
LEMMA Routes ==
  ASSUME NEW tokens
  PROVE  route(tokens) \in SUBSET Models /\ (tokens <= Largest => route(tokens) # {})
<1> DEFINE fitting == {m \in Models : tokens <= Budgets[m]}
<1>1. fitting \in SUBSET Models /\ Models \subseteq Nat
  BY AggregateConstants DEF Models
<1>2. route(tokens) = IF fitting = {} THEN {} ELSE {Min(fitting)}
  BY DEF route
<1>3. tokens <= Largest => fitting # {}
  BY LargestBudget
<1> HIDE DEF fitting
<1>4. fitting # {} => Min(fitting) \in fitting
  BY <1>1, MinIsAMember
<1>5. route(tokens) \in SUBSET Models
  BY <1>1, <1>2, <1>4
<1> QED BY <1>2, <1>3, <1>5

\* A plan is a tree of the window, whose requests fit the largest candidate.
PlanOf(tree, sizes) ==
  IsTree(tree, 0, Len(sizes), sizes, ChildTokens, Room, Separator)

\* The plan of a window, of one request or of many, is a tree of all its inputs.
LEMMA PlanIsTree ==
  ASSUME NEW sizes \in Seq(Nat), sizes # <<>>
  PROVE  Plan(sizes) = Unplannable \/ PlanOf(Plan(sizes), sizes)
<1> DEFINE N == Len(sizes)
<1>1. N \in Nat \ {0} /\ N \in 0..N /\ DOMAIN sizes = 1..N
  BY EmptySeq
<1>2. ChildTokens \in Nat \ {0} /\ Envelope \in Nat /\ Separator \in Nat /\ Room \in Int
  BY AggregateConstants, LargestBudget DEF Room
<1>3. CASE route(estimate(sizes)) # {}
  <2> DEFINE costs == [i \in DOMAIN sizes |-> sizes[i] + Separator]
  <2>1. costs \in [1..N -> Nat] /\ costs \in Seq(Nat)
    BY <1>1, <1>2
  <2>2. Sum(costs) \in Nat
    BY <2>1, SumOfSizes
  <2>3. estimate(sizes) = Envelope + Sum(costs)
    BY DEF estimate
  <2>4. Cost(costs, 0, N) = Sum(costs)
    <3>1. [i \in 1..(N - 0) |-> costs[0 + i]] = costs
      <4>1. \A i \in 1..N : costs[0 + i] = costs[i]
        BY <1>1
      <4>2. N - 0 = N
        BY <1>1
      <4> HIDE DEF costs, N
      <4> QED BY <2>1, <4>1, <4>2
    <3> QED BY <3>1 DEF Cost
  <2>5. Envelope + Sum(costs) <= Largest
    <3>1. PICK m \in Models : Envelope + Sum(costs) <= Budgets[m]
      BY <1>3, <2>3 DEF route
    <3>2. Budgets[m] <= Largest /\ Budgets[m] \in Nat /\ Largest \in Nat
      BY LargestBudget, AggregateConstants DEF Models
    <3> HIDE DEF costs
    <3> QED BY <1>2, <2>2, <3>1, <3>2
  <2>6. Cost(costs, 0, N) <= Room
    <3> HIDE DEF costs, N
    <3> QED BY <1>2, <2>2, <2>4, <2>5, LargestBudget DEF Room
  <2>7. IsParentTree(Leaf(Run(0, N)), 0, N, sizes, ChildTokens, Room, Separator)
    <3>1. ChildTokens \in Nat /\ 0 \in Nat /\ 0 < N
      BY <1>1, <1>2
    <3> QED BY <1>1, <1>2, <2>6, <3>1, LeafIsTree
  <2>8. Run(0, N) = [i \in DOMAIN sizes |-> i]
    <3>1. N - 0 = N /\ \A i \in 1..N : 0 + i = i
      BY <1>1
    <3> QED BY <1>1, <3>1 DEF Run
  <2>9. Plan(sizes) = Leaf(Run(0, N))
    BY <1>3, <2>8 DEF Plan
  <2> QED BY <2>7, <2>9 DEF IsParentTree, PlanOf
<1>4. CASE ~(route(estimate(sizes)) # {})
  <2>1. Plan(sizes) = plan_reduction(sizes, ChildTokens, Room, Separator)
    BY <1>4 DEF Plan, Room, Largest
  <2> QED BY <1>2, <2>1, PlanSpans DEF PlanOf
<1> QED BY <1>3, <1>4

-----------------------------------------------------------------------------
(* The pull request reports under a stored report *)

\* Stored rows, whose reports were made of reports stored before them.
RowsOK(rows) ==
  /\ rows \in Seq(Rows)
  /\ \A i \in 1..Len(rows) : \A k \in 1..Len(rows[i].inputs) :
       rows[i].inputs[k].kind = "aggregate" => rows[i].inputs[k].id < i

\* What an input of row i contributes.
Part(s, input, i) ==
  IF input.kind = "pr" THEN <<input>>
  ELSE IF input.id < i THEN s[input.id] ELSE <<>>

Parts(s, inputs, i) == [k \in DOMAIN inputs |-> Part(s, inputs[k], i)]

\* s gives the sources of each of the rows.
SourcesOf(s, rows) ==
  /\ s \in [0..Len(rows) -> Seq(Inputs)] /\ s[0] = <<>>
  /\ \A i \in 1..Len(rows) : s[i] = FlattenSeq(Parts(s, rows[i].inputs, i))

SourcesFrom(rows) ==
  LET sources[i \in 0..Len(rows)] ==
        IF i = 0 THEN <<>>
        ELSE FlattenSeq([k \in DOMAIN rows[i].inputs |->
               LET input == rows[i].inputs[k] IN
               IF input.kind = "pr" THEN <<input>>
               ELSE IF input.id < i THEN sources[input.id] ELSE <<>>])
  IN sources

\* The sources of the stored reports are those of their rows.
LEMMA SourcesOfReports == Sources = SourcesFrom(reports)
  BY DEF Sources, SourcesFrom

\* The same after a step.
LEMMA SourcesOfReportsAfter == Sources' = SourcesFrom(reports')
  BY DEF Sources, SourcesFrom

\* Sequences that are put together of the same elements.
LEMMA FlattenIsASequence == ASSUME NEW X, NEW s \in Seq(Seq(X)) PROVE FlattenSeq(s) \in Seq(X)
<1>1. PICK f \in [0..Len(s) -> Seq(X)] :
        /\ f[0] = <<>>
        /\ \A n \in 1..Len(s) : f[n] = f[n - 1] \o s[n]
        /\ FlattenSeq(s) = f[Len(s)]
  BY FlattenByParts
<1>2. Len(s) \in 0..Len(s)
  OBVIOUS
<1> QED BY <1>1, <1>2

\* The parts of a row only depend on the sources of the rows before it.
LEMMA PartsAreSequences ==
  ASSUME NEW N \in Nat, NEW s \in [0..N -> Seq(Inputs)], NEW inputs \in Seq(Inputs), NEW i \in 1..(N + 1)
  PROVE  Parts(s, inputs, i) \in Seq(Seq(Inputs)) /\ Len(Parts(s, inputs, i)) = Len(inputs)
<1>1. Len(inputs) \in Nat /\ DOMAIN inputs = 1..Len(inputs)
  OBVIOUS
<1>2. ASSUME NEW k \in 1..Len(inputs) PROVE Part(s, inputs[k], i) \in Seq(Inputs)
  <2>1. inputs[k] \in Inputs
    BY ElementOfSeq
  <2>2. inputs[k].id \in Nat \ {0} /\ <<inputs[k]>> \in Seq(Inputs) /\ <<>> \in Seq(Inputs)
    BY <2>1 DEF Inputs
  <2>3. inputs[k].id < i => s[inputs[k].id] \in Seq(Inputs)
    BY <2>2
  <2> QED BY <2>2, <2>3 DEF Part
<1>3. Parts(s, inputs, i) \in [1..Len(inputs) -> Seq(Inputs)]
  BY <1>1, <1>2 DEF Parts
<1> QED BY <1>1, <1>3, FunctionIsSequence DEF SequenceOf

\* What a report is made of depends on the reports before it only.
LEMMA PartsAgree ==
  ASSUME NEW s, NEW r, NEW inputs \in Seq(Inputs), NEW i \in Nat,
         \A j \in 1..(i - 1) : s[j] = r[j]
  PROVE  Parts(s, inputs, i) = Parts(r, inputs, i)
<1>1. ASSUME NEW k \in DOMAIN inputs PROVE Part(s, inputs[k], i) = Part(r, inputs[k], i)
  <2>1. inputs[k] \in Inputs
    BY ElementOfSeq
  <2>2. inputs[k].id \in Nat \ {0}
    BY <2>1 DEF Inputs
  <2>3. inputs[k].id < i => inputs[k].id \in 1..(i - 1)
    BY <2>2
  <2> QED BY <2>3 DEF Part
<1> QED BY <1>1 DEF Parts

\* Every row has sources: they are found row by row.
LEMMA SourcesExist ==
  ASSUME NEW rows \in Seq(Rows) PROVE SourcesOf(SourcesFrom(rows), rows)
<1> DEFINE N == Len(rows)
           T == [0..N -> Seq(Inputs)]
           none == [i \in 0..N |-> <<>>]
           body(s, i) == FlattenSeq(Parts(s, rows[i].inputs, i))
           next(s, i) == [s EXCEPT ![i] = body(s, i)]
           step == [x \in T \X (1..N) |-> next(x[1], x[2])]
           sources[i \in 0..N] ==
             IF i = 0 THEN <<>>
             ELSE FlattenSeq([k \in DOMAIN rows[i].inputs |->
                    LET input == rows[i].inputs[k] IN
                    IF input.kind = "pr" THEN <<input>>
                    ELSE IF input.id < i THEN sources[input.id] ELSE <<>>])
<1>1. N \in Nat
  OBVIOUS
<1>2. ASSUME NEW i \in 1..N PROVE rows[i].inputs \in Seq(Inputs)
  <2>1. rows[i] \in Rows
    BY ElementOfSeq
  <2> QED BY <2>1 DEF Rows
<1>3. ASSUME NEW s \in T, NEW i \in 1..N PROVE body(s, i) \in Seq(Inputs)
  <2>1. i \in 1..(N + 1)
    BY <1>1
  <2>2. Parts(s, rows[i].inputs, i) \in Seq(Seq(Inputs))
    BY <1>1, <1>2, <2>1, PartsAreSequences
  <2> QED BY <2>2, FlattenIsASequence
<1>4. none \in T
  OBVIOUS
<1>5. step \in Steps(T, N) /\ \A s \in T, i \in 1..N : step[<<s, i>>] = next(s, i)
  <2>1. \A s \in T, i \in 1..N : next(s, i) \in T
    <3> HIDE DEF body
    <3> QED BY <1>3
  <2> HIDE DEF next, T
  <2> QED BY <2>1 DEF Steps
<1>6. PICK f : Iterates(f, N, T, none, step)
  <2> HIDE DEF step, T, none, N
  <2> QED BY <1>1, <1>4, <1>5, Recursion
<1> DEFINE g == f[N]
<1> HIDE DEF step
<1>7. ASSUME NEW n \in 0..N PROVE f[n] \in T
  BY <1>6 DEF Iterates
<1>8. ASSUME NEW n \in 1..N
      PROVE  /\ f[n][n] = body(f[n - 1], n)
             /\ \A i \in 0..N : i # n => f[n][i] = f[n - 1][i]
  <2>1. n - 1 \in 0..N /\ n \in 0..N
    BY <1>1
  <2>2. f[n - 1] \in T
    BY <1>7, <2>1
  <2>3. f[n] = next(f[n - 1], n)
    <3> HIDE DEF next, T
    <3> QED BY <1>5, <1>6, <2>2 DEF Iterates
  <2> HIDE DEF body
  <2> QED BY <2>1, <2>2, <2>3
<1> HIDE DEF T, body
\* What is found for a row is not changed afterwards.
<1>9. ASSUME NEW i \in 0..N PROVE \A n \in 0..N : n >= i => f[n][i] = f[i][i]
  <2> DEFINE S == {n \in 0..N : n >= i => f[n][i] = f[i][i]}
  <2>1. 0 \in S
    BY <1>1
  <2>2. ASSUME NEW n \in 0..(N - 1), n \in S PROVE n + 1 \in S
    <3>1. n + 1 \in 1..N /\ n + 1 \in 0..N /\ (n + 1) - 1 = n
      BY <1>1
    <3>2. CASE n + 1 = i
      BY <3>1, <3>2
    <3>3. CASE n + 1 # i
      <4>1. f[n + 1][i] = f[n][i]
        BY <1>8, <3>1, <3>3
      <4> QED BY <2>2, <3>1, <3>3, <4>1
    <3> QED BY <3>2, <3>3
  <2>3. \A n \in 0..N : n \in S
    <3> HIDE DEF S, N
    <3> QED BY <1>1, <2>1, <2>2, Induction
  <2> QED BY <2>3
<1>10. N \in 0..N /\ g \in T
  BY <1>1, <1>7
<1>11. g[0] = <<>>
  <2>1. 0 \in 0..N /\ N >= 0
    BY <1>1
  <2>2. f[N][0] = f[0][0]
    BY <1>9, <1>10, <2>1
  <2>3. f[0][0] = <<>>
    BY <1>6, <2>1 DEF Iterates
  <2> QED BY <2>2, <2>3
<1>12. ASSUME NEW i \in 1..N PROVE g[i] = body(g, i)
  <2>1. i \in 0..N /\ i - 1 \in 0..N /\ N >= i /\ i \in Nat
    BY <1>1
  <2>2. g[i] = body(f[i - 1], i)
    BY <1>8, <1>9, <1>10, <2>1
  <2>3. ASSUME NEW j \in 1..(i - 1) PROVE f[i - 1][j] = g[j]
    <3>1. j \in 0..N /\ i - 1 >= j /\ N >= j
      BY <1>1, <2>1
    <3> QED BY <1>9, <1>10, <2>1, <3>1
  <2>4. Parts(f[i - 1], rows[i].inputs, i) = Parts(g, rows[i].inputs, i)
    <3> HIDE DEF g
    <3> QED BY <1>2, <2>1, <2>3, PartsAgree
  <2> QED BY <2>2, <2>4 DEF body
<1> HIDE DEF g
<1>13. g = [i \in 0..N |-> IF i = 0 THEN <<>>
              ELSE FlattenSeq([k \in DOMAIN rows[i].inputs |->
                     LET input == rows[i].inputs[k] IN
                     IF input.kind = "pr" THEN <<input>>
                     ELSE IF input.id < i THEN g[input.id] ELSE <<>>])]
  <2>1. ASSUME NEW i \in 0..N
        PROVE  g[i] = IF i = 0 THEN <<>>
                      ELSE FlattenSeq([k \in DOMAIN rows[i].inputs |->
                             LET input == rows[i].inputs[k] IN
                             IF input.kind = "pr" THEN <<input>>
                             ELSE IF input.id < i THEN g[input.id] ELSE <<>>])
    <3>1. i = 0 \/ i \in 1..N
      BY <1>1
    <3> QED BY <1>11, <1>12, <3>1 DEF body, Parts, Part
  <2>2. g = [i \in 0..N |-> g[i]]
    BY SMTT(60), <1>10 DEF T
  <2> QED BY <2>1, <2>2
<1>14. sources = [i \in 0..N |-> IF i = 0 THEN <<>>
              ELSE FlattenSeq([k \in DOMAIN rows[i].inputs |->
                     LET input == rows[i].inputs[k] IN
                     IF input.kind = "pr" THEN <<input>>
                     ELSE IF input.id < i THEN sources[input.id] ELSE <<>>])]
  BY <1>13
<1> HIDE DEF sources
<1>15. sources[0] = <<>>
  BY <1>1, <1>14
<1>16. ASSUME NEW i \in 1..N PROVE sources[i] = body(sources, i)
  <2>1. i \in 0..N /\ i # 0
    BY <1>1
  <2>2. sources[i] = FlattenSeq([k \in DOMAIN rows[i].inputs |->
                       LET input == rows[i].inputs[k] IN
                       IF input.kind = "pr" THEN <<input>>
                       ELSE IF input.id < i THEN sources[input.id] ELSE <<>>])
    BY <1>14, <2>1, Zenon
  <2> QED BY <2>2 DEF body, Parts, Part
\* Both are the same.
<1>17. \A i \in 0..N : sources[i] = g[i]
  <2> DEFINE S == {i \in 0..N : \A j \in 0..i : sources[j] = g[j]}
  <2>1. 0 \in S
    BY <1>1, <1>11, <1>15
  <2>2. ASSUME NEW i \in 0..(N - 1), i \in S PROVE i + 1 \in S
    <3>1. i + 1 \in 1..N /\ i + 1 \in 0..N /\ (i + 1) - 1 = i /\ i + 1 \in Nat
      BY <1>1
    <3>2. \A j \in 1..((i + 1) - 1) : sources[j] = g[j]
      BY <2>2, <3>1
    <3>3. Parts(sources, rows[i + 1].inputs, i + 1) = Parts(g, rows[i + 1].inputs, i + 1)
      BY <1>2, <3>1, <3>2, PartsAgree
    <3>4. sources[i + 1] = g[i + 1]
      BY <1>12, <1>16, <3>1, <3>3 DEF body
    <3>5. \A j \in 0..(i + 1) : j \in 0..i \/ j = i + 1
      OBVIOUS
    <3> QED BY <2>2, <3>1, <3>4, <3>5
  <2>3. \A i \in 0..N : i \in S
    <3> HIDE DEF S, N
    <3> QED BY <1>1, <2>1, <2>2, Induction
  <2>4. \A i \in 0..N : i \in 0..i
    OBVIOUS
  <2> QED BY <2>3, <2>4
<1>18. sources = g
  <2>1. g = [i \in 0..N |-> g[i]] /\ sources = [i \in 0..N |-> sources[i]]
    BY <1>10, <1>14 DEF T
  <2> QED BY <1>17, <2>1
<1>19. SourcesOf(g, rows)
  BY <1>10, <1>11, <1>12 DEF SourcesOf, T, body
<1>20. SourcesFrom(rows) = sources
  BY DEF SourcesFrom, sources
<1> QED BY <1>18, <1>19, <1>20

SameUpTo(r, s, n) == \A i \in 0..n : r[i] = s[i]

\* A row that is stored later does not change them.
LEMMA SourcesGrow ==
  ASSUME NEW rows, NEW more, RowsOK(rows), NEW row \in Rows, more = Append(rows, row),
         NEW s, NEW r, SourcesOf(s, rows), SourcesOf(r, more)
  PROVE  SameUpTo(r, s, Len(rows))
<1> DEFINE N == Len(rows)
<1>1. /\ N \in Nat /\ rows \in Seq(Rows) /\ Len(more) = N + 1
      /\ \A i \in 1..N : more[i] = rows[i] /\ i \in 1..Len(more)
  <2>1. rows \in Seq(Rows)
    BY DEF RowsOK
  <2>2. Appended(more, rows, row, Rows)
    BY <2>1, Appending
  <2> QED BY <2>1, <2>2 DEF Appended
<1> DEFINE S == {i \in 0..N : \A j \in 0..i : r[j] = s[j]}
<1>2. 0 \in S
  BY <1>1 DEF SourcesOf
<1>3. ASSUME NEW i \in 0..(N - 1), i \in S PROVE i + 1 \in S
  <2>1. i + 1 \in 1..N /\ i + 1 \in 0..N /\ (i + 1) - 1 = i /\ i + 1 \in Nat
    BY <1>1
  <2>2. rows[i + 1].inputs \in Seq(Inputs) /\ more[i + 1] = rows[i + 1] /\ i + 1 \in 1..Len(more)
    <3>1. rows[i + 1] \in Rows
      BY <1>1, <2>1, ElementOfSeq
    <3> QED BY <1>1, <2>1, <3>1 DEF Rows
  <2>3. \A j \in 1..((i + 1) - 1) : r[j] = s[j]
    BY <1>3, <2>1
  <2>4. Parts(r, rows[i + 1].inputs, i + 1) = Parts(s, rows[i + 1].inputs, i + 1)
    BY <2>1, <2>2, <2>3, PartsAgree
  <2>5. r[i + 1] = s[i + 1]
    BY <2>1, <2>2, <2>4 DEF SourcesOf
  <2>6. \A j \in 0..(i + 1) : j \in 0..i \/ j = i + 1
    OBVIOUS
  <2> QED BY <1>3, <2>1, <2>5, <2>6
<1>4. \A i \in 0..N : i \in S
  <2> HIDE DEF S, N
  <2> QED BY <1>1, <1>2, <1>3, Induction
<1>5. \A i \in 0..N : i \in 0..i
  OBVIOUS
<1> QED BY <1>4, <1>5 DEF SameUpTo

-----------------------------------------------------------------------------
(* What a command knows of its plan and of the reports it has used *)

\* The inputs of the request that is next, of the command with the record c.
NextNode(c) == c.plan[Len(c.results) + 1]
GivenTo(c) ==
  IF NextNode(c).children = <<>>
  THEN [k \in DOMAIN NextNode(c).items |-> c.supplied[NextNode(c).items[k]]]
  ELSE [k \in DOMAIN NextNode(c).children |-> AggregateInput(c.results[NextNode(c).children[k]])]

SizeOf(input, rows, sizes) == IF input.kind = "pr" THEN sizes[input.id] ELSE rows[input.id].tokens

SpansOf(tree, sizes) == CHOOSE sp : Spans(tree, sp, 0, Len(sizes))
Piece(q, span) == SubSeq(q, span.from + 1, span.to)

\* One pull request report for each size, in order.
Resolved(supplied, sizes) ==
  /\ supplied \in Seq(Inputs) /\ Len(supplied) = Len(sizes)
  /\ \A i \in 1..Len(sizes) : supplied[i].kind = "pr" /\ supplied[i].id = i

\* The result of node n is published, and made of what the node's span holds.
Holds(i, span, supplied, rows) ==
  /\ i \in 1..Len(rows) /\ rows[i].status = "published"
  /\ SourcesFrom(rows)[i] = Piece(supplied, span)

Working(c, rows, sizes) ==
  /\ c.plan = Plan(sizes) /\ c.plan # Unplannable /\ Resolved(c.supplied, sizes)
  /\ c.results \in Seq(Nat \ {0}) /\ Len(c.results) <= Len(c.plan)
  /\ \A n \in 1..Len(c.results) :
       Holds(c.results[n], SpansOf(c.plan, sizes)[n], c.supplied, rows)

\* A plan that was made is a tree of the window.
LEMMA PlanInHand ==
  ASSUME NEW sizes \in Seq(Nat), sizes # <<>>, NEW c, c.plan = Plan(sizes), c.plan # Unplannable
  PROVE  /\ Spans(c.plan, SpansOf(c.plan, sizes), 0, Len(sizes))
         /\ FitsPlan(c.plan, sizes, ChildTokens, Room, Separator)
         /\ c.plan \in Seq(Nodes) /\ Len(c.plan) \in Nat \ {0}
<1>1. PlanOf(c.plan, sizes)
  BY PlanIsTree
<1>2. Spans(c.plan, SpansOf(c.plan, sizes), 0, Len(sizes))
  BY <1>1 DEF PlanOf, IsTree, SpansOf
<1>3. c.plan \in Seq(Nodes) /\ c.plan # <<>>
  BY <1>2 DEF Spans
<1>4. Len(c.plan) \in Nat \ {0}
  BY <1>3, EmptySeq
<1> QED BY <1>1, <1>2, <1>3, <1>4 DEF PlanOf, IsTree

\* The next node is a leaf, or its children are done.
NodeOK(node, span, done, sizes) ==
  /\ node \in Nodes /\ span \in Span /\ span.from < span.to /\ span.to <= Len(sizes)
  /\ FitsNode(node, sizes, ChildTokens, Room, Separator)
  /\ \/ node.children = <<>> /\ node.items = Run(span.from, span.to)
     \/ /\ node.items = <<>> /\ node.children # <<>>
        /\ \A k \in 1..Len(node.children) : node.children[k] \in 1..done

\* The node that is next is a node of the plan, with its span and with children that are done.
LEMMA NextIsANode ==
  ASSUME NEW sizes \in Seq(Nat), sizes # <<>>, NEW c, NEW rows, Working(c, rows, sizes),
         Len(c.results) < Len(c.plan)
  PROVE  NodeOK(NextNode(c), SpansOf(c.plan, sizes)[Len(c.results) + 1], Len(c.results), sizes)
<1> DEFINE sp == SpansOf(c.plan, sizes)
           n == Len(c.results) + 1
<1>1. /\ Spans(c.plan, sp, 0, Len(sizes)) /\ FitsPlan(c.plan, sizes, ChildTokens, Room, Separator)
      /\ c.plan \in Seq(Nodes) /\ Len(c.plan) \in Nat
  BY PlanInHand DEF Working
<1>2. n \in 1..Len(c.plan) /\ n - 1 = Len(c.results) /\ n \in DOMAIN c.plan
  BY <1>1 DEF Working
<1> HIDE DEF sp, n
<1>3. c.plan[n] \in Nodes /\ sp[n] \in Span
  BY <1>1, <1>2, ElementOfSeq DEF Spans
<1>4. FitsNode(c.plan[n], sizes, ChildTokens, Room, Separator)
  BY <1>1, <1>2 DEF FitsPlan
<1>5. /\ sp[n].from < sp[n].to /\ sp[n].to <= Len(sizes)
      /\ IsLeaf(c.plan, sp, n) \/ IsInner(c.plan, sp, n)
  BY <1>1, <1>2 DEF Spans
<1>6. IsInner(c.plan, sp, n) =>
        /\ c.plan[n].items = <<>> /\ c.plan[n].children # <<>>
        /\ \A k \in 1..Len(c.plan[n].children) : c.plan[n].children[k] \in 1..Len(c.results)
  BY <1>2 DEF IsInner
<1>7. NodeOK(c.plan[n], sp[n], Len(c.results), sizes)
  BY <1>3, <1>4, <1>5, <1>6 DEF NodeOK, IsLeaf
<1> QED BY <1>7 DEF NextNode, n, sp

\* The next request is given pull request reports, or reports that are stored.
IsGiven(inputs, bound) ==
  /\ inputs \in Seq(Inputs)
  /\ \A k \in 1..Len(inputs) : inputs[k].kind = "aggregate" => inputs[k].id < bound

\* A node is given reports that exist: resolved ones, or results of its children.
LEMMA GivenInputs ==
  ASSUME NEW sizes \in Seq(Nat), sizes # <<>>, NEW c, NEW rows \in Seq(Rows),
         Working(c, rows, sizes), Len(c.results) < Len(c.plan)
  PROVE  IsGiven(GivenTo(c), Len(rows) + 1)
<1> DEFINE node == NextNode(c)
           span == SpansOf(c.plan, sizes)[Len(c.results) + 1]
<1>1. NodeOK(node, span, Len(c.results), sizes)
  BY NextIsANode
<1> HIDE DEF node, span
<1>2. /\ node \in Nodes /\ node.items \in Seq(Nat) /\ node.children \in Seq(Nat)
      /\ span.from \in Nat /\ span.to \in Nat /\ Len(rows) \in Nat
  BY <1>1 DEF NodeOK, Nodes, Span
<1>3. CASE node.children = <<>>
  <2>1. node.items = Run(span.from, span.to)
    BY <1>1, <1>3 DEF NodeOK
  <2> DEFINE M == span.to - span.from
  <2>2. M \in Nat /\ \A k \in 1..M : span.from + k \in 1..Len(sizes)
    <3> DEFINE from == span.from
               to == span.to
               N == Len(sizes)
    <3>1. from \in Nat /\ to \in Nat /\ from < to /\ to <= N /\ N \in Nat
      BY <1>1, <1>2 DEF NodeOK
    <3> HIDE DEF from, to, N
    <3>2. to - from \in Nat /\ \A k \in 1..(to - from) : from + k \in 1..N
      BY <3>1
    <3> QED BY <3>2 DEF from, to, N
  <2>3. /\ DOMAIN node.items = 1..M
        /\ \A k \in 1..M : node.items[k] = span.from + k
    BY <1>2, <2>1 DEF Run
  <2>4. GivenTo(c) = [k \in 1..M |-> c.supplied[span.from + k]]
    BY <1>3, <2>3 DEF GivenTo, node
  <2>5. ASSUME NEW k \in 1..M
        PROVE  c.supplied[span.from + k] \in Inputs /\ c.supplied[span.from + k].kind = "pr"
    <3>1. span.from + k \in 1..Len(sizes)
      BY <2>2
    <3>2. Resolved(c.supplied, sizes)
      BY DEF Working
    <3> QED BY <3>1, <3>2, ElementOfSeq DEF Resolved
  <2> HIDE DEF M
  <2>6. GivenTo(c) \in [1..M -> Inputs]
    BY <2>4, <2>5
  <2>7. GivenTo(c) \in Seq(Inputs) /\ Len(GivenTo(c)) = M
    BY <2>2, <2>6, FunctionIsSequence DEF SequenceOf
  <2>8. \A k \in 1..M : GivenTo(c)[k].kind = "pr"
    BY <2>4, <2>5
  <2> QED BY <2>7, <2>8 DEF IsGiven
<1>4. CASE node.children # <<>>
  <2> DEFINE M == Len(node.children)
  <2>1. M \in Nat /\ DOMAIN node.children = 1..M
    BY <1>2
  <2>2. GivenTo(c) = [k \in 1..M |-> AggregateInput(c.results[node.children[k]])]
    BY <1>4, <2>1 DEF GivenTo, node
  <2>3. ASSUME NEW k \in 1..M
        PROVE  /\ AggregateInput(c.results[node.children[k]]) \in Inputs
               /\ AggregateInput(c.results[node.children[k]]).id < Len(rows) + 1
    <3>1. node.children[k] \in 1..Len(c.results)
      BY <1>1, <1>4 DEF NodeOK
    <3>2. c.results[node.children[k]] \in 1..Len(rows)
      BY <3>1 DEF Working, Holds
    <3> DEFINE r == c.results[node.children[k]]
    <3> DEFINE N == Len(rows)
    <3>3. r \in 1..N /\ N \in Nat
      BY <1>2, <3>2
    <3> HIDE DEF r, N
    <3>4. r \in Nat \ {0} /\ r < N + 1
      BY <3>3
    <3>5. r \in Nat \ {0} /\ r < Len(rows) + 1
      BY <3>4 DEF N
    <3>6. AggregateInput(r) \in Inputs /\ AggregateInput(r).id < Len(rows) + 1
      BY <3>5 DEF AggregateInput, Inputs
    <3> QED BY <3>6 DEF r
  <2> HIDE DEF M
  <2>4. GivenTo(c) \in [1..M -> Inputs]
    BY <2>2, <2>3
  <2>5. GivenTo(c) \in Seq(Inputs) /\ Len(GivenTo(c)) = M
    BY <2>1, <2>4, FunctionIsSequence DEF SequenceOf
  <2>6. \A k \in 1..M : GivenTo(c)[k].id < Len(rows) + 1
    BY <2>2, <2>3
  <2> QED BY <2>5, <2>6 DEF IsGiven
<1> QED BY <1>3, <1>4

\* One element is a piece.
LEMMA SinglePiece ==
  ASSUME NEW X, NEW q \in Seq(X), NEW i \in 1..Len(q)
  PROVE  SubSeq(q, i, i) = <<q[i]>>
<1>1. SubSeq(q, i, i) = [j \in 1..1 |-> q[i + j - 1]]
  BY DEF SubSeq
<1>2. ASSUME NEW j \in 1..1 PROVE q[i + j - 1] = q[i]
  <2>1. j = 1 /\ i + j - 1 = i
    OBVIOUS
  <2> QED BY <2>1
<1>3. <<q[i]>> = [j \in 1..1 |-> q[i]]
  OBVIOUS
<1> QED BY <1>1, <1>2, <1>3

\* A report that is made of what its node was given holds its node's piece.
LEMMA GivenCovers ==
  ASSUME NEW sizes \in Seq(Nat), sizes # <<>>, NEW c, NEW rows, Working(c, rows, sizes),
         Len(c.results) < Len(c.plan),
         NEW more, NEW s, SourcesOf(s, more),
         \A n \in 1..Len(c.results) :
           s[c.results[n]] = Piece(c.supplied, SpansOf(c.plan, sizes)[n]),
         NEW i \in 1..Len(more), more[i].inputs = GivenTo(c), IsGiven(GivenTo(c), i)
  PROVE  s[i] = Piece(c.supplied, SpansOf(c.plan, sizes)[Len(c.results) + 1])
<1> DEFINE n == Len(c.results) + 1
           sp == SpansOf(c.plan, sizes)
           node == NextNode(c)
           span == sp[n]
           q == c.supplied
           parts == Parts(s, GivenTo(c), i)
<1>1. NodeOK(node, span, Len(c.results), sizes)
  BY NextIsANode
<1>2. Resolved(q, sizes) /\ q \in Seq(Inputs) /\ Len(q) = Len(sizes)
  BY DEF Working, Resolved
<1>3. s \in [0..Len(more) -> Seq(Inputs)] /\ s[i] = FlattenSeq(parts)
  BY DEF SourcesOf
<1>4. Spans(c.plan, sp, 0, Len(sizes)) /\ c.plan \in Seq(Nodes) /\ Len(c.plan) \in Nat
  BY PlanInHand DEF Working
<1>5. n \in 1..Len(c.plan) /\ c.plan[n] = node
  BY SMTT(60), <1>4 DEF Working, NextNode
<1> HIDE DEF node, span, q
<1>6. /\ node.items \in Seq(Nat) /\ node.children \in Seq(Nat)
      /\ span.from \in Nat /\ span.to \in Nat /\ span.from < span.to /\ span.to <= Len(q)
      /\ Len(q) \in Nat
  BY <1>1, <1>2 DEF NodeOK, Nodes, Span
<1>7. CASE node.children = <<>>
  <2> DEFINE M == span.to - span.from
             d == [k \in 0..M |-> span.from + k]
             p == [k \in 1..M |-> <<q[span.from + k]>>]
  <2>1. node.items = Run(span.from, span.to)
    BY <1>1, <1>7 DEF NodeOK
  <2>2. /\ M \in Nat /\ span.from + M = span.to
        /\ \A k \in 1..M : span.from + k \in 1..Len(q)
        /\ \A k \in 0..M : span.from + k \in 0..Len(q)
    <3> DEFINE from == span.from
               to == span.to
               N == Len(q)
    <3>1. from \in Nat /\ to \in Nat /\ from < to /\ to <= N /\ N \in Nat
      BY <1>6
    <3> HIDE DEF from, to, N
    <3>2. /\ to - from \in Nat /\ from + (to - from) = to
          /\ \A k \in 1..(to - from) : from + k \in 1..N
          /\ \A k \in 0..(to - from) : from + k \in 0..N
      BY <3>1
    <3> QED BY <3>2 DEF from, to, N
  <2>3. DOMAIN node.items = 1..M /\ \A k \in 1..M : node.items[k] = span.from + k
    BY <1>6, <2>1 DEF Run
  <2>4. GivenTo(c) = [k \in 1..M |-> q[span.from + k]]
    BY <1>7, <2>3 DEF GivenTo, node, q
  <2>5. ASSUME NEW k \in 1..M
        PROVE  Part(s, GivenTo(c)[k], i) = <<q[span.from + k]>> /\ q[span.from + k] \in Inputs
    <3>1. span.from + k \in 1..Len(q)
      BY <2>2
    <3>2. q[span.from + k].kind = "pr" /\ q[span.from + k] \in Inputs
      BY <1>2, <3>1, ElementOfSeq DEF Resolved
    <3>3. GivenTo(c)[k] = q[span.from + k]
      BY <2>4
    <3> QED BY <3>2, <3>3 DEF Part
  <2>6. DOMAIN GivenTo(c) = 1..M
    BY <2>4
  <2>7. parts = p
    BY <2>5, <2>6 DEF Parts
  <2> HIDE DEF parts
  <2>8. p \in Seq(Seq(Inputs)) /\ Len(p) = M
    <3>1. \A k \in 1..M : <<q[span.from + k]>> \in Seq(Inputs)
      BY <2>5
    <3>2. p \in [1..M -> Seq(Inputs)]
      BY <3>1
    <3> HIDE DEF p, M
    <3> QED BY <2>2, <3>2, FunctionIsSequence DEF SequenceOf
  <2>9. d \in [0..M -> 0..Len(q)] /\ d[0] = span.from /\ d[M] = span.to
    <3>1. 0 \in 0..M /\ M \in 0..M /\ span.from + 0 = span.from
      BY SMTT(60), <1>6, <2>2
    <3> QED BY <2>2, <3>1
  <2>10. ASSUME NEW k \in 1..M
         PROVE  d[k - 1] <= d[k] /\ p[k] = SubSeq(q, d[k - 1] + 1, d[k])
    <3>1. k - 1 \in 0..M /\ k \in 0..M
      BY <2>2
    <3>2. d[k - 1] = span.from + (k - 1) /\ d[k] = span.from + k
      BY <3>1
    <3>3. span.from + (k - 1) + 1 = span.from + k /\ span.from + (k - 1) <= span.from + k
      <4> DEFINE from == span.from
      <4>1. from \in Nat /\ k \in Int
        BY <1>6
      <4> HIDE DEF from
      <4>2. from + (k - 1) + 1 = from + k /\ from + (k - 1) <= from + k
        BY <4>1
      <4> QED BY <4>2 DEF from
    <3>4. SubSeq(q, span.from + k, span.from + k) = <<q[span.from + k]>>
      BY <1>2, <2>2, SinglePiece
    <3>5. p[k] = <<q[span.from + k]>>
      OBVIOUS
    <3> HIDE DEF d, p
    <3> QED BY <3>2, <3>3, <3>4, <3>5
  <2> HIDE DEF d, p, M
  <2>11. FlattenSeq(p) = SubSeq(q, d[0] + 1, d[M])
    <3>1. d \in [0..Len(p) -> 0..Len(q)]
      BY <2>8, <2>9
    <3>2. \A k \in 1..Len(p) : d[k - 1] <= d[k] /\ p[k] = SubSeq(q, d[k - 1] + 1, d[k])
      BY <2>8, <2>10
    <3>3. FlattenSeq(p) = SubSeq(q, d[0] + 1, d[Len(p)])
      BY <1>2, <2>8, <3>1, <3>2, FlattenPieces
    <3> QED BY <2>8, <3>3
  <2> QED BY <1>3, <2>7, <2>9, <2>11 DEF Piece, q, span
<1>8. CASE node.children # <<>>
  <2> DEFINE M == Len(node.children)
             kids == node.children
             d == [k \in 0..M |-> IF k = 0 THEN span.from ELSE sp[kids[k]].to]
             p == [k \in 1..M |-> Piece(q, sp[kids[k]])]
  <2>1. IsInner(c.plan, sp, n)
    <3>1. IsLeaf(c.plan, sp, n) \/ IsInner(c.plan, sp, n)
      BY <1>4, <1>5 DEF Spans
    <3>2. ~IsLeaf(c.plan, sp, n)
      BY <1>5, <1>8 DEF IsLeaf
    <3> QED BY <3>1, <3>2
  <2>2. /\ \A k \in 1..M : sp[kids[k]].from = IF k = 1 THEN span.from ELSE sp[kids[k - 1]].to
        /\ sp[kids[M]].to = span.to
    BY <1>5, <2>1 DEF IsInner, span
  <2>3. M \in Nat \ {0} /\ DOMAIN kids = 1..M
    BY <1>6, <1>8, EmptySeq
  <2> HIDE DEF sp, n
  <2>4. ASSUME NEW k \in 1..M
        PROVE  /\ kids[k] \in 1..Len(c.results)
               /\ sp[kids[k]].from \in Nat /\ sp[kids[k]].to \in 0..Len(q)
               /\ sp[kids[k]].from < sp[kids[k]].to
               /\ s[c.results[kids[k]]] = Piece(q, sp[kids[k]])
               /\ c.results[kids[k]] < i
    <3>1. kids[k] \in 1..Len(c.results)
      BY <1>1, <1>8 DEF NodeOK
    <3>2. kids[k] \in 1..Len(c.plan)
      <4>1. Len(c.results) \in Nat /\ Len(c.results) <= Len(c.plan)
        BY DEF Working
      <4> QED BY SMTT(60), <1>4, <3>1, <4>1
    <3>3. sp[kids[k]] \in Span /\ sp[kids[k]].from < sp[kids[k]].to /\ sp[kids[k]].to <= Len(sizes)
      <4>1. sp \in Seq(Span) /\ kids[k] \in 1..Len(sp)
        BY <1>4, <3>2 DEF Spans
      <4>2. sp[kids[k]] \in Span
        BY <4>1, ElementOfSeq
      <4> QED BY <1>4, <3>2, <4>2 DEF Spans
    <3>4. sp[kids[k]].from \in Nat /\ sp[kids[k]].to \in Nat
      BY <3>3 DEF Span
    <3>5. sp[kids[k]].to \in 0..Len(q)
      <4> DEFINE to == sp[kids[k]].to
      <4>1. to \in Nat /\ to <= Len(q)
        BY <1>2, <3>3, <3>4
      <4> HIDE DEF to
      <4>2. to \in 0..Len(q)
        BY <1>6, <4>1
      <4> QED BY <4>2 DEF to
    <3>6. s[c.results[kids[k]]] = Piece(q, sp[kids[k]])
      BY <3>1 DEF q, sp
    <3>7. c.results[kids[k]] < i
      <4>1. GivenTo(c) = [j \in DOMAIN kids |-> AggregateInput(c.results[kids[j]])]
        BY <1>8 DEF GivenTo, node
      <4>2. DOMAIN GivenTo(c) = 1..M /\ GivenTo(c)[k] = AggregateInput(c.results[kids[k]])
        BY <2>3, <4>1
      <4>3. k \in 1..Len(GivenTo(c))
        BY <4>2 DEF IsGiven
      <4>4. GivenTo(c)[k].kind = "aggregate" /\ GivenTo(c)[k].id = c.results[kids[k]]
        BY <4>2 DEF AggregateInput
      <4> QED BY <4>3, <4>4 DEF IsGiven
    <3> QED BY <3>1, <3>3, <3>4, <3>5, <3>6, <3>7
  <2>5. parts = p
    <3>1. GivenTo(c) = [j \in 1..M |-> AggregateInput(c.results[kids[j]])]
      BY <1>8, <2>3 DEF GivenTo, node
    <3>2. ASSUME NEW k \in 1..M PROVE Part(s, GivenTo(c)[k], i) = Piece(q, sp[kids[k]])
      <4>1. GivenTo(c)[k] = AggregateInput(c.results[kids[k]])
        BY <3>1
      <4>2. GivenTo(c)[k].kind # "pr" /\ GivenTo(c)[k].id = c.results[kids[k]]
        BY <4>1 DEF AggregateInput
      <4> QED BY <2>4, <4>2 DEF Part
    <3> QED BY <3>1, <3>2 DEF Parts
  <2> HIDE DEF parts
  <2>6. ASSUME NEW k \in 1..M PROVE p[k] \in Seq(Inputs)
    <3>1. s[c.results[kids[k]]] \in Seq(Inputs)
      <4>1. kids[k] \in 1..Len(c.results) /\ c.results[kids[k]] < i
        BY <2>4
      <4>2. c.results[kids[k]] \in Nat
        BY <4>1, ElementOfSeq DEF Working
      <4> DEFINE r == c.results[kids[k]]
      <4>3. r \in Nat /\ r < i
        BY <4>1, <4>2
      <4> HIDE DEF r
      <4>4. r \in 0..Len(more)
        BY <4>3
      <4>5. s[r] \in Seq(Inputs)
        BY <1>3, <4>4
      <4> QED BY <4>5 DEF r
    <3> QED BY <2>4, <3>1
  <2>7. p \in Seq(Seq(Inputs)) /\ Len(p) = M
    <3>1. p \in [1..M -> Seq(Inputs)]
      BY <2>6
    <3>2. M \in Nat
      BY <2>3
    <3> HIDE DEF p, M
    <3> QED BY <3>1, <3>2, FunctionIsSequence DEF SequenceOf
  <2>8. /\ d \in [0..M -> 0..Len(q)] /\ d[0] = span.from /\ d[M] = span.to
        /\ \A k \in 1..M : d[k] = sp[kids[k]].to
    <3>1. span.from \in 0..Len(q)
      <4> DEFINE from == span.from
                 to == span.to
                 N == Len(q)
      <4>1. from \in Nat /\ to \in Nat /\ from < to /\ to <= N /\ N \in Nat
        BY <1>6
      <4> HIDE DEF from, to, N
      <4>2. from \in 0..N
        BY <4>1
      <4> QED BY <4>2 DEF from, N
    <3>2. ASSUME NEW k \in 0..M
          PROVE  (IF k = 0 THEN span.from ELSE sp[kids[k]].to) \in 0..Len(q)
      <4>1. k # 0 => k \in 1..M
        BY <2>3
      <4> QED BY <2>4, <3>1, <4>1
    <3>3. 0 \in 0..M /\ M \in 0..M /\ M # 0 /\ \A k \in 1..M : k \in 0..M /\ k # 0
      BY <2>3
    <3> QED BY <2>2, <3>2, <3>3
  <2>9. ASSUME NEW k \in 1..M
        PROVE  d[k - 1] <= d[k] /\ p[k] = SubSeq(q, d[k - 1] + 1, d[k])
    <3>1. d[k - 1] = sp[kids[k]].from
      <4>1. CASE k = 1
        BY <2>2, <2>8, <4>1
      <4>2. CASE k # 1
        <5>1. k - 1 \in 1..M
          BY <2>3, <4>2
        <5>2. d[k - 1] = sp[kids[k - 1]].to
          BY <2>8, <5>1
        <5> QED BY <2>2, <4>2, <5>2
      <4> QED BY <4>1, <4>2
    <3>2. d[k] = sp[kids[k]].to
      BY <2>8
    <3>3. p[k] = SubSeq(q, sp[kids[k]].from + 1, sp[kids[k]].to)
      BY DEF Piece
    <3>4. d[k - 1] <= d[k]
      <4> DEFINE x == d[k - 1]
                 y == d[k]
      <4>1. y \in 0..Len(q) /\ x < y /\ x \in Nat
        BY <2>4, <3>1, <3>2
      <4> HIDE DEF x, y
      <4>2. x <= y
        BY <1>6, <4>1
      <4> QED BY <4>2 DEF x, y
    <3> HIDE DEF d, p
    <3> QED BY <3>1, <3>2, <3>3, <3>4
  <2> HIDE DEF d, p, M
  <2>10. FlattenSeq(p) = SubSeq(q, d[0] + 1, d[M])
    <3>1. d \in [0..Len(p) -> 0..Len(q)]
      BY <2>7, <2>8
    <3>2. \A k \in 1..Len(p) : d[k - 1] <= d[k] /\ p[k] = SubSeq(q, d[k - 1] + 1, d[k])
      BY <2>7, <2>9
    <3>3. FlattenSeq(p) = SubSeq(q, d[0] + 1, d[Len(p)])
      BY <1>2, <2>7, <3>1, <3>2, FlattenPieces
    <3> QED BY <2>7, <3>3
  <2> QED BY <1>3, <2>5, <2>8, <2>10 DEF Piece, q, span, sp, n
<1> QED BY <1>7, <1>8

\* A planned request is routed unless a report is larger than what was reserved for it.
SizesOf(c, rows, sizes) ==
  LET inputs == GivenTo(c) IN [i \in DOMAIN inputs |-> SizeOf(inputs[i], rows, sizes)]

\* A planned request cannot be routed only when a child outgrew its reservation.
LEMMA GivenRoutes ==
  ASSUME NEW sizes \in Seq(Nat), sizes # <<>>, NEW c, NEW rows \in Seq(Rows),
         Working(c, rows, sizes), Len(c.results) < Len(c.plan),
         route(estimate(SizesOf(c, rows, sizes))) = {}
  PROVE  \E n \in ToSet(NextNode(c).children) : rows[c.results[n]].tokens > ChildTokens
<1> DEFINE node == NextNode(c)
           span == SpansOf(c.plan, sizes)[Len(c.results) + 1]
           q == c.supplied
           given == SizesOf(c, rows, sizes)
           need == [i \in DOMAIN given |-> given[i] + Separator]
<1> SUFFICES ASSUME \A n \in ToSet(node.children) : ~(rows[c.results[n]].tokens > ChildTokens)
             PROVE  FALSE
  OBVIOUS
<1>1. NodeOK(node, span, Len(c.results), sizes)
  BY NextIsANode
<1>2. Resolved(q, sizes)
  BY DEF Working
<1>3. /\ ChildTokens \in Nat \ {0} /\ Envelope \in Nat /\ Separator \in Nat
      /\ Room \in Int /\ Largest \in Nat
  BY AggregateConstants, LargestBudget DEF Room
<1> HIDE DEF node, span, q
<1>4. /\ node.items \in Seq(Nat) /\ node.children \in Seq(Nat)
      /\ span.from \in Nat /\ span.to \in Nat /\ span.from < span.to /\ span.to <= Len(sizes)
      /\ Len(sizes) \in Nat
  BY <1>1 DEF NodeOK, Nodes, Span
<1>5. Sum([k \in DOMAIN node.items |-> sizes[node.items[k]] + Separator])
        + Len(node.children) * (ChildTokens + Separator) <= Room
  BY <1>1 DEF NodeOK, FitsNode
<1>6. need \in Seq(Nat) /\ Sum(need) <= Room
  <2>1. CASE node.children = <<>>
    <3> DEFINE M == span.to - span.from
    <3>1. node.items = Run(span.from, span.to)
      BY <1>1, <2>1 DEF NodeOK
    <3>2. M \in Nat /\ \A k \in 1..M : span.from + k \in 1..Len(sizes)
      <4> DEFINE from == span.from
                 to == span.to
                 N == Len(sizes)
      <4>1. from \in Nat /\ to \in Nat /\ from < to /\ to <= N /\ N \in Nat
        BY <1>4
      <4> HIDE DEF from, to, N
      <4>2. to - from \in Nat /\ \A k \in 1..(to - from) : from + k \in 1..N
        BY <4>1
      <4> QED BY <4>2 DEF from, to, N
    <3>3. DOMAIN node.items = 1..M /\ \A k \in 1..M : node.items[k] = span.from + k
      BY <1>4, <3>1 DEF Run
    <3>4. GivenTo(c) = [k \in 1..M |-> q[span.from + k]]
      BY <2>1, <3>3 DEF GivenTo, node, q
    <3>5. ASSUME NEW k \in 1..M
          PROVE  SizeOf(GivenTo(c)[k], rows, sizes) = sizes[node.items[k]] /\ sizes[node.items[k]] \in Nat
      <4>1. span.from + k \in 1..Len(sizes)
        BY <3>2
      <4>2. q[span.from + k].kind = "pr" /\ q[span.from + k].id = span.from + k
        BY <1>2, <4>1 DEF Resolved
      <4>3. GivenTo(c)[k] = q[span.from + k] /\ node.items[k] = span.from + k
        BY <3>3, <3>4
      <4>4. sizes[span.from + k] \in Nat
        BY <4>1, ElementOfSeq
      <4> QED BY <4>2, <4>3, <4>4 DEF SizeOf
    <3>6. DOMAIN given = 1..M /\ \A k \in 1..M : given[k] = sizes[node.items[k]]
      BY <3>4, <3>5 DEF SizesOf
    <3> HIDE DEF given
    <3>7. need = [k \in DOMAIN node.items |-> sizes[node.items[k]] + Separator]
      BY <3>3, <3>6
    <3>8. need \in [1..M -> Nat]
      BY SMTT(60), <1>3, <3>5, <3>6
    <3> HIDE DEF need, M
    <3>9. need \in Seq(Nat)
      BY <3>2, <3>8, FunctionIsSequence DEF SequenceOf
    <3>10. Len(node.children) * (ChildTokens + Separator) = 0
      <4>1. Len(node.children) = 0 /\ ChildTokens + Separator \in Int
        BY <1>3, <2>1
      <4> QED BY <4>1
    <3>11. Sum(need) \in Nat
      BY <3>9, SumOfSizes
    <3>12. Sum(need) + 0 <= Room
      BY <1>5, <3>7, <3>10
    <3> QED BY <3>9, <3>11, <3>12
  <2>2. CASE node.children # <<>>
    <3> DEFINE M == Len(node.children)
               most == ChildTokens + Separator
    <3>1. M \in Nat /\ DOMAIN node.children = 1..M
      BY <1>4
    <3>2. GivenTo(c) = [k \in 1..M |-> AggregateInput(c.results[node.children[k]])]
      BY <2>2, <3>1 DEF GivenTo, node
    <3>3. ASSUME NEW k \in 1..M
          PROVE  /\ SizeOf(GivenTo(c)[k], rows, sizes) \in Nat
                 /\ SizeOf(GivenTo(c)[k], rows, sizes) <= ChildTokens
      <4>1. node.children[k] \in 1..Len(c.results)
        BY <1>1, <2>2 DEF NodeOK
      <4>2. c.results[node.children[k]] \in 1..Len(rows)
        BY <4>1 DEF Working, Holds
      <4>3. rows[c.results[node.children[k]]] \in Rows
        BY <4>2, ElementOfSeq
      <4>4. rows[c.results[node.children[k]]].tokens \in Nat
        BY <4>3 DEF Rows
      <4>5. node.children[k] \in ToSet(node.children)
        BY <3>1 DEF ToSet
      <4>6. ~(rows[c.results[node.children[k]]].tokens > ChildTokens)
        BY <4>5
      <4>7. SizeOf(GivenTo(c)[k], rows, sizes) = rows[c.results[node.children[k]]].tokens
        <5>1. GivenTo(c)[k] = AggregateInput(c.results[node.children[k]])
          BY <3>2
        <5> QED BY <5>1 DEF AggregateInput, SizeOf
      <4> DEFINE x == rows[c.results[node.children[k]]].tokens
      <4>8. x \in Nat /\ ~(x > ChildTokens)
        BY <4>4, <4>6
      <4> HIDE DEF x
      <4>9. x <= ChildTokens
        BY <1>3, <4>8
      <4> QED BY <4>7, <4>8, <4>9 DEF x
    <3>4. DOMAIN given = 1..M /\ \A k \in 1..M : given[k] = SizeOf(GivenTo(c)[k], rows, sizes)
      BY <3>2 DEF SizesOf
    <3> HIDE DEF given
    <3>5. \A k \in 1..M : given[k] \in Nat /\ given[k] <= ChildTokens
      BY <3>3, <3>4
    <3>6. need = [k \in 1..M |-> need[k]] /\ \A k \in 1..M : need[k] = given[k] + Separator
      BY <3>4
    <3> HIDE DEF need, M
    <3>7. ASSUME NEW k \in 1..M PROVE need[k] \in Nat /\ 0 <= need[k] /\ need[k] <= most
      <4>1. given[k] \in Nat /\ given[k] <= ChildTokens /\ need[k] = given[k] + Separator
        BY <3>5, <3>6
      <4> QED BY <1>3, <4>1
    <3>8. need \in Seq(Nat) /\ Len(need) = M
      <4>1. need \in [1..M -> Nat]
        BY <3>6, <3>7
      <4> QED BY <3>1, <4>1, FunctionIsSequence DEF SequenceOf
    <3>9. AllBetween(need, 0, most)
      <4>1. need \in Seq(Int)
        BY <3>8
      <4> QED BY <3>7, <3>8, <4>1 DEF AllBetween
    <3>10. Between(Sum(need), M, 0, most)
      <4>1. 0 \in Int /\ most \in Int
        BY <1>3
      <4> HIDE DEF most
      <4> QED BY <3>8, <3>9, <4>1, SumBetween
    <3>11. Sum([k \in DOMAIN node.items |-> sizes[node.items[k]] + Separator]) = 0
      <4>1. node.items = <<>>
        BY <1>1, <2>2 DEF NodeOK
      <4>2. [k \in DOMAIN node.items |-> sizes[node.items[k]] + Separator] = <<>>
        BY <4>1
      <4> QED BY <4>2, SumOfNothing
    <3>12. Sum(need) \in Nat
      BY <3>8, SumOfSizes
    <3>13. 0 + M * most <= Room
      BY <1>5, <3>11 DEF M
    <3>14. Sum(need) <= M * most /\ M * most \in Int
      <4>1. most \in Int
        BY <1>3
      <4> HIDE DEF most
      <4> QED BY <3>1, <3>10, <4>1 DEF Between
    <3> HIDE DEF most
    <3>15. Sum(need) <= Room
      BY <1>3, <3>12, <3>13, <3>14
    <3> QED BY <3>8, <3>15
  <2> QED BY <2>1, <2>2
<1>7. estimate(given) = Envelope + Sum(need)
  BY DEF estimate
<1> HIDE DEF need
<1>8. Sum(need) \in Nat
  BY <1>6, SumOfSizes
<1>9. Envelope + Sum(need) \in Nat /\ Envelope + Sum(need) <= Largest
  BY SMTT(60), <1>3, <1>6, <1>8 DEF Room
<1>10. route(estimate(given)) # {}
  BY <1>7, <1>9, Routes
<1> QED BY <1>10

-----------------------------------------------------------------------------
(* The invariant *)

ProcessOf(sizes) ==
  [pc : {"idle", "node", "generate", "done", "failed", "unroutable"},
   force : BOOLEAN, plan : {<<>>, Plan(sizes)}, supplied : Seq(Inputs),
   results : Seq(Nat \ {0}), model : Models \cup {0}, before : 0..MaxReports]

\* What the lookup of a waiting request did not find.
NotFound(c, rows) ==
  /\ c.before <= Len(rows)
  /\ ~c.force => \A i \in 1..c.before :
       rows[i].status = "published" => ~Matches(rows[i], GivenTo(c), c.model)

\* A report that is larger than what was reserved for it is an input of the next request.
TooLarge(c, rows) ==
  \E n \in ToSet(NextNode(c).children) : rows[c.results[n]].tokens > ChildTokens

ProcOK(c, rows, sizes) ==
  /\ c \in ProcessOf(sizes)
  /\ c.pc # "idle" => Working(c, rows, sizes)
  /\ c.pc \in {"node", "generate", "failed", "unroutable"} => Len(c.results) < Len(c.plan)
  /\ c.pc = "done" => Len(c.results) = Len(c.plan)
  /\ c.pc = "generate" => c.model \in Models /\ NotFound(c, rows)
  /\ c.pc = "unroutable" => TooLarge(c, rows)

Inv ==
  /\ window \in Windows /\ versions \in [DOMAIN window -> Nat \ {0}]
  /\ RowsOK(reports) /\ Len(reports) <= MaxReports
  /\ proc \in [Procs -> ProcessOf(window)]
  /\ \A p \in Procs : ProcOK(proc[p], reports, window)

\* What Supplied says of process p is what its command record says.
LEMMA SuppliedIsGiven == \A p : Supplied(p) = GivenTo(proc[p])
  BY DEF Supplied, GivenTo, NextNode, Node, Step

\* The sizes that are estimated for process p are those of its command record.
LEMMA SuppliedSizes ==
  \A p : LET supplied == Supplied(p) IN
         [i \in DOMAIN supplied |-> Size(supplied[i])] = SizesOf(proc[p], reports, window)
  BY SuppliedIsGiven DEF SizesOf, SizeOf, Size

\* A window has at least one report.
LEMMA WindowIsASequence ==
  ASSUME NEW w \in Windows PROVE w \in Seq(Nat) /\ w # <<>> /\ Len(w) \in Nat \ {0}
<1>1. w \in Seq(Nat) /\ w # <<>>
  BY AggregateConstants
<1> QED BY <1>1, EmptySeq

\* A row is stored after the rows that are there.
RowAddedTo(more, rows, row) ==
  /\ RowsOK(more) /\ Len(more) = Len(rows) + 1 /\ Len(rows) \in Nat /\ more[Len(rows) + 1] = row
  /\ \A i \in 1..Len(rows) :
       /\ more[i] = rows[i] /\ i \in 1..Len(more)
       /\ SourcesFrom(more)[i] = SourcesFrom(rows)[i]

\* A row made of stored rows may be stored.
LEMMA RowAdded ==
  ASSUME NEW rows, RowsOK(rows), NEW row \in Rows, IsGiven(row.inputs, Len(rows) + 1)
  PROVE  RowAddedTo(Append(rows, row), rows, row)
<1> DEFINE more == Append(rows, row)
           N == Len(rows)
<1>1. rows \in Seq(Rows) /\ N \in Nat
  BY DEF RowsOK
<1>2. /\ more \in Seq(Rows) /\ Len(more) = N + 1 /\ more[N + 1] = row
      /\ \A i \in 1..N : more[i] = rows[i]
  <2>1. Appended(more, rows, row, Rows)
    BY <1>1, Appending
  <2> QED BY <1>1, <2>1 DEF Appended
<1>3. SourcesOf(SourcesFrom(rows), rows) /\ SourcesOf(SourcesFrom(more), more)
  BY <1>1, <1>2, SourcesExist
<1>4. \A i \in 0..N : SourcesFrom(more)[i] = SourcesFrom(rows)[i]
  <2> DEFINE s == SourcesFrom(rows)
             r == SourcesFrom(more)
  <2>1. SourcesOf(s, rows) /\ SourcesOf(r, more) /\ more = Append(rows, row)
    BY <1>3
  <2> HIDE DEF s, r, more, N
  <2>2. SameUpTo(r, s, Len(rows))
    BY <2>1, SourcesGrow
  <2> QED BY <2>2 DEF SameUpTo, s, r, N
<1> HIDE DEF more
<1>5. ASSUME NEW i \in 1..Len(more), NEW k \in 1..Len(more[i].inputs),
             more[i].inputs[k].kind = "aggregate"
      PROVE  more[i].inputs[k].id < i
  <2>1. CASE i = N + 1
    BY <1>2, <1>5, <2>1 DEF IsGiven
  <2>2. CASE i \in 1..N
    BY <1>2, <1>5, <2>2 DEF RowsOK
  <2> QED BY <1>1, <1>2, <2>1, <2>2
<1>6. \A i \in 1..N : i \in 0..N /\ i \in 1..Len(more)
  BY <1>1, <1>2
<1>7. RowsOK(more)
  BY <1>2, <1>5 DEF RowsOK
<1> QED BY <1>1, <1>2, <1>4, <1>6, <1>7 DEF RowAddedTo, more

\* What a command knows stays true when a row is stored.
LEMMA WorkingGrows ==
  ASSUME NEW sizes, NEW c, NEW rows, Working(c, rows, sizes),
         NEW more, NEW row, RowAddedTo(more, rows, row)
  PROVE  Working(c, more, sizes)
<1>1. ASSUME NEW i, NEW span, Holds(i, span, c.supplied, rows)
      PROVE  Holds(i, span, c.supplied, more)
  BY <1>1 DEF Holds, RowAddedTo
<1> QED BY <1>1 DEF Working

\* What holds of a command still holds when another row is stored.
LEMMA ProcGrows ==
  ASSUME NEW sizes \in Seq(Nat), sizes # <<>>, NEW c, NEW rows, ProcOK(c, rows, sizes),
         NEW more, NEW row, RowAddedTo(more, rows, row)
  PROVE  ProcOK(c, more, sizes)
<1>1. c.pc # "idle" => Working(c, more, sizes)
  BY WorkingGrows DEF ProcOK
<1>2. NotFound(c, rows) /\ c.pc = "generate" => NotFound(c, more)
  <2> SUFFICES ASSUME NotFound(c, rows) PROVE NotFound(c, more)
    OBVIOUS
  <2> DEFINE N == Len(rows)
             b == c.before
  <2>1. b \in Int
    BY DEF ProcOK, ProcessOf
  <2>2. N \in Nat /\ Len(more) = N + 1 /\ b <= N
    BY DEF NotFound, RowAddedTo
  <2>3. b <= Len(more) /\ \A i \in 1..b : i \in 1..N
    <3> HIDE DEF N, b
    <3> QED BY <2>1, <2>2
  <2>4. \A i \in 1..b : more[i] = rows[i]
    BY <2>3 DEF RowAddedTo
  <2> QED BY <2>3, <2>4 DEF NotFound, Matches
<1>3. ASSUME c.pc = "unroutable" PROVE TooLarge(c, more)
  <2>1. PICK n \in ToSet(NextNode(c).children) : rows[c.results[n]].tokens > ChildTokens
    BY <1>3 DEF ProcOK, TooLarge
  <2>2. Working(c, rows, sizes) /\ Len(c.results) < Len(c.plan)
    BY <1>3 DEF ProcOK
  <2>3. NodeOK(NextNode(c), SpansOf(c.plan, sizes)[Len(c.results) + 1], Len(c.results), sizes)
    BY <2>2, NextIsANode
  <2>4. n \in 1..Len(c.results)
    <3>1. NextNode(c).children \in Seq(Nat)
      BY <2>3 DEF NodeOK, Nodes
    <3>2. PICK k \in 1..Len(NextNode(c).children) : n = NextNode(c).children[k]
      BY <2>1, <3>1 DEF ToSet
    <3>3. NextNode(c).children # <<>>
      BY <3>2
    <3> QED BY <2>3, <3>2, <3>3 DEF NodeOK
  <2>5. c.results[n] \in 1..Len(rows)
    BY <2>2, <2>4 DEF Working, Holds
  <2>6. more[c.results[n]] = rows[c.results[n]]
    BY <2>5 DEF RowAddedTo
  <2> QED BY <2>1, <2>6 DEF TooLarge
<1> QED BY <1>1, <1>2, <1>3 DEF ProcOK

\* A report that is made of what the next node was given is its result.
AdvancedBy(c, i) ==
  [c EXCEPT !.pc = IF Len(c.results) + 1 = Len(c.plan) THEN "done" ELSE "node",
            !.results = Append(@, i), !.model = 0, !.before = 0]

\* Advanced is a function of the command record alone.
LEMMA AdvancedIsAdvancedBy == \A p, i : Advanced(p, i) = AdvancedBy(proc[p], i)
  BY DEF Advanced, AdvancedBy, IsRoot, Step

\* A published report of what the node is given is its result, and the next node may begin.
LEMMA Advances ==
  ASSUME NEW sizes \in Seq(Nat), sizes # <<>>, NEW c \in ProcessOf(sizes), NEW rows, RowsOK(rows),
         Working(c, rows, sizes), Len(c.results) < Len(c.plan),
         NEW i \in 1..Len(rows), rows[i].status = "published", rows[i].inputs = GivenTo(c),
         IsGiven(GivenTo(c), i)
  PROVE  ProcOK(AdvancedBy(c, i), rows, sizes)
<1> DEFINE n == Len(c.results) + 1
           sp == SpansOf(c.plan, sizes)
           next == AdvancedBy(c, i)
           s == SourcesFrom(rows)
<1>1. rows \in Seq(Rows) /\ Len(rows) \in Nat /\ SourcesOf(s, rows)
  BY SourcesExist DEF RowsOK
<1>2. s[i] = Piece(c.supplied, sp[n])
  <2>1. \A m \in 1..Len(c.results) : s[c.results[m]] = Piece(c.supplied, sp[m])
    BY DEF Working, Holds
  <2> HIDE DEF s
  <2> QED BY <1>1, <2>1, GivenCovers
<1>3. Holds(i, sp[n], c.supplied, rows)
  BY <1>2 DEF Holds
<1>4. Len(c.plan) \in Nat /\ c.results \in Seq(Nat \ {0}) /\ Len(c.results) \in Nat
  BY PlanInHand DEF Working
<1>5. i \in Nat \ {0}
  BY <1>1
<1>6. /\ Append(c.results, i) \in Seq(Nat \ {0}) /\ Len(Append(c.results, i)) = n
      /\ Append(c.results, i)[n] = i
      /\ \A m \in 1..Len(c.results) : Append(c.results, i)[m] = c.results[m]
  <2>1. Appended(Append(c.results, i), c.results, i, Nat \ {0})
    BY <1>4, <1>5, Appending
  <2> QED BY <2>1 DEF Appended
<1>7. /\ next.plan = c.plan /\ next.supplied = c.supplied /\ next.force = c.force
      /\ next.results = Append(c.results, i) /\ next.model = 0 /\ next.before = 0
      /\ next.pc = IF n = Len(c.plan) THEN "done" ELSE "node"
  BY DEF AdvancedBy, ProcessOf
<1>8. next \in ProcessOf(sizes)
  <2>1. 0 \in 0..MaxReports /\ 0 \in Models \cup {0}
    BY AggregateConstants
  <2> QED BY <1>6, <2>1 DEF AdvancedBy, ProcessOf
<1> HIDE DEF next
<1>9. n <= Len(c.plan) /\ (n # Len(c.plan) => n < Len(c.plan))
  BY <1>4
<1>10. \A m \in 1..n : Holds(next.results[m], sp[m], c.supplied, rows)
  <2> TAKE m \in 1..n
  <2>1. CASE m = n
    BY <1>3, <1>6, <1>7, <2>1
  <2>2. CASE m \in 1..Len(c.results)
    BY <1>6, <1>7, <2>2 DEF Working
  <2> QED BY SMTT(60), <1>4, <2>1, <2>2
<1>11. Working(next, rows, sizes)
  <2>1. Len(next.results) = n
    BY <1>6, <1>7
  <2> HIDE DEF n, sp
  <2>2. next.plan = Plan(sizes) /\ next.plan # Unplannable /\ Resolved(next.supplied, sizes)
    BY <1>7 DEF Working
  <2>3. next.results \in Seq(Nat \ {0}) /\ Len(next.results) <= Len(next.plan)
    BY <1>6, <1>7, <1>9, <2>1
  <2>4. \A m \in 1..Len(next.results) :
          Holds(next.results[m], SpansOf(next.plan, sizes)[m], next.supplied, rows)
    BY <1>7, <1>10, <2>1 DEF sp
  <2> QED BY <2>2, <2>3, <2>4 DEF Working
<1>12. Len(next.results) = n
  BY <1>6, <1>7
<1>13. CASE n = Len(c.plan)
  <2>1. next.pc = "done"
    BY <1>7, <1>13
  <2> QED BY <1>7, <1>8, <1>11, <1>12, <1>13, <2>1 DEF ProcOK, next
<1>14. CASE n # Len(c.plan)
  <2>1. next.pc = "node"
    BY <1>7, <1>14
  <2> QED BY <1>7, <1>8, <1>9, <1>11, <1>12, <1>14, <2>1 DEF ProcOK, next
<1> QED BY <1>13, <1>14

-----------------------------------------------------------------------------
(* Every step keeps the invariant *)

\* An idle process has nothing that could be wrong.
LEMMA IdleIsOK == ASSUME NEW rows, NEW sizes PROVE ProcOK(Idle, rows, sizes)
<1>1. Idle \in ProcessOf(sizes)
  <2>1. 0 \in 0..MaxReports
    BY AggregateConstants
  <2> QED BY <2>1 DEF Idle, ProcessOf
<1> QED BY <1>1 DEF ProcOK, Idle

\* The invariant holds at first.
LEMMA Starts == ASSUME Init PROVE Inv
<1>1. window \in Windows /\ window \in Seq(Nat)
  BY WindowIsASequence DEF Init
<1>2. versions \in [DOMAIN window -> Nat \ {0}]
  BY DEF Init
<1>3. RowsOK(reports) /\ Len(reports) <= MaxReports
  BY AggregateConstants DEF Init, RowsOK
<1>4. \A p \in Procs : ProcOK(proc[p], reports, window)
  BY IdleIsOK DEF Init
<1>5. proc \in [Procs -> ProcessOf(window)]
  <2>1. Idle \in ProcessOf(window)
    BY IdleIsOK DEF ProcOK
  <2> QED BY <2>1 DEF Init
<1> QED BY <1>1, <1>2, <1>3, <1>4, <1>5 DEF Inv

\* A step of process p that stores nothing only has to leave p's record right.
OnlyChanges(p, next) ==
  proc' = [proc EXCEPT ![p] = next] /\ UNCHANGED <<window, versions, reports>>

\* A step that only changes one command keeps the invariant if that command stays as it should.
LEMMA OneRecord ==
  ASSUME Inv, NEW p \in Procs, NEW next, OnlyChanges(p, next), ProcOK(next, reports, window)
  PROVE  Inv'
<1>1. next \in ProcessOf(window)
  BY DEF ProcOK
<1>2. /\ proc' \in [Procs -> ProcessOf(window)] /\ proc'[p] = next
      /\ \A q \in Procs : q # p => proc'[q] = proc[q]
  BY <1>1 DEF Inv, OnlyChanges
<1>3. window' = window /\ versions' = versions /\ reports' = reports
  BY DEF OnlyChanges
<1>4. \A q \in Procs : ProcOK(proc'[q], reports, window)
  BY <1>2 DEF Inv
<1> QED BY <1>2, <1>3, <1>4 DEF Inv

\* A new command has a plan of the whole window and no results yet.
LEMMA BeginKeeps == ASSUME Inv, NEW p \in Procs, Begin(p) PROVE Inv'
<1> DEFINE supplied == [i \in DOMAIN window |-> PrInput(i, versions[i])]
<1>1. PICK force \in BOOLEAN, plan \in {Plan(window)} \ {Unplannable} :
        OnlyChanges(p, [Idle EXCEPT !.pc = "node", !.force = force, !.plan = plan,
                                    !.supplied = supplied])
  BY DEF Begin, OnlyChanges
<1> DEFINE c == [Idle EXCEPT !.pc = "node", !.force = force, !.plan = plan, !.supplied = supplied]
<1>2. window \in Seq(Nat) /\ window # <<>> /\ Len(window) \in Nat \ {0} /\ DOMAIN window = 1..Len(window)
  BY WindowIsASequence DEF Inv
<1>3. Resolved(supplied, window)
  <2>1. ASSUME NEW i \in 1..Len(window)
        PROVE  PrInput(i, versions[i]) \in Inputs /\ supplied[i] = PrInput(i, versions[i])
    <3>1. versions[i] \in Nat
      BY <1>2 DEF Inv
    <3> QED BY <1>2, <3>1 DEF PrInput, Inputs
  <2>2. supplied \in [1..Len(window) -> Inputs]
    BY <1>2, <2>1
  <2>3. supplied \in Seq(Inputs) /\ Len(supplied) = Len(window)
    <3> HIDE DEF supplied
    <3> QED BY <1>2, <2>2, FunctionIsSequence DEF SequenceOf
  <2> QED BY <2>1, <2>3 DEF Resolved, PrInput
<1> HIDE DEF supplied
<1>4. /\ c.pc = "node" /\ c.force = force /\ c.plan = plan /\ c.supplied = supplied
      /\ c.results = <<>> /\ c.model = 0 /\ c.before = 0
  BY DEF Idle
<1>5. c \in ProcessOf(window)
  <2>1. 0 \in 0..MaxReports /\ supplied \in Seq(Inputs)
    BY <1>3, AggregateConstants DEF Resolved
  <2> DEFINE c1 == [Idle EXCEPT !.pc = "node"]
             c2 == [c1 EXCEPT !.force = force]
             c3 == [c2 EXCEPT !.plan = plan]
             c4 == [c3 EXCEPT !.supplied = supplied]
  <2>2. c1 \in ProcessOf(window)
    <3>1. Idle \in ProcessOf(window)
      BY IdleIsOK DEF ProcOK
    <3> QED BY <3>1 DEF ProcessOf
  <2> HIDE DEF c1
  <2>3. c2 \in ProcessOf(window)
    BY <2>2 DEF ProcessOf
  <2> HIDE DEF c2
  <2>4. c3 \in ProcessOf(window)
    BY <2>3 DEF ProcessOf
  <2> HIDE DEF c3
  <2>5. c4 \in ProcessOf(window)
    BY <2>1, <2>4 DEF ProcessOf
  <2> QED BY <2>5 DEF c1, c2, c3
<1> HIDE DEF c
<1>6. Len(c.plan) \in Nat \ {0}
  BY <1>2, <1>4, PlanInHand
<1>7. Len(c.results) = 0
  BY <1>4
<1>8. Working(c, reports, window)
  BY <1>3, <1>4, <1>6, <1>7 DEF Working
<1>9. ProcOK(c, reports, window)
  BY <1>4, <1>5, <1>6, <1>7, <1>8 DEF ProcOK
<1> QED BY SMTT(60), <1>1, <1>9, OneRecord DEF c

\* A command whose request cannot be routed has a child that outgrew its reservation.
LEMMA RoutingFailsKeeps == ASSUME Inv, NEW p \in Procs, RoutingFails(p) PROVE Inv'
<1> DEFINE c == proc[p]
           next == [c EXCEPT !.pc = "unroutable"]
<1>1. c.pc = "node" /\ OnlyChanges(p, next)
  BY DEF RoutingFails, OnlyChanges
<1>2. route(estimate(SizesOf(c, reports, window))) = {}
  BY SuppliedSizes DEF RoutingFails
<1>3. /\ window \in Seq(Nat) /\ window # <<>> /\ reports \in Seq(Rows)
      /\ ProcOK(c, reports, window)
  BY WindowIsASequence DEF Inv, RowsOK
<1>4. Working(c, reports, window) /\ Len(c.results) < Len(c.plan) /\ c \in ProcessOf(window)
  BY <1>1, <1>3 DEF ProcOK
<1> HIDE DEF c
<1>5. TooLarge(c, reports)
  BY <1>2, <1>3, <1>4, GivenRoutes DEF TooLarge
<1>6. /\ next.pc = "unroutable" /\ next.plan = c.plan /\ next.supplied = c.supplied
      /\ next.results = c.results /\ next \in ProcessOf(window)
  BY <1>4 DEF ProcessOf
<1> HIDE DEF next
<1>7. Working(next, reports, window)
  BY <1>4, <1>6 DEF Working
<1>8. TooLarge(next, reports)
  BY <1>5, <1>6 DEF TooLarge, NextNode
<1>9. ProcOK(next, reports, window)
  BY <1>4, <1>6, <1>7, <1>8 DEF ProcOK
<1> QED BY <1>1, <1>9, OneRecord

\* A cached report is a report of the same inputs; nothing that matches is overlooked.
LEMMA LookupKeeps == ASSUME Inv, NEW p \in Procs, Lookup(p) PROVE Inv'
<1> DEFINE c == proc[p]
<1>1. c.pc = "node" /\ UNCHANGED <<window, versions, reports>>
  BY DEF Lookup
<1>2. PICK model \in route(estimate(SizesOf(c, reports, window))) :
        LET cached == IF c.force THEN {} ELSE find(Supplied(p), model) IN
        \/ /\ cached = {}
           /\ proc' = [proc EXCEPT ![p].pc = "generate", ![p].model = model,
                                    ![p].before = Len(reports)]
        \/ \E i \in cached : proc' = [proc EXCEPT ![p] = Advanced(p, i)]
  BY SuppliedSizes DEF Lookup
<1>3. /\ window \in Seq(Nat) /\ window # <<>> /\ reports \in Seq(Rows) /\ RowsOK(reports)
      /\ ProcOK(c, reports, window) /\ Len(reports) \in Nat /\ Len(reports) <= MaxReports
      /\ MaxReports \in Nat
  BY WindowIsASequence, AggregateConstants DEF Inv, RowsOK
<1>4. Working(c, reports, window) /\ Len(c.results) < Len(c.plan) /\ c \in ProcessOf(window)
  BY <1>1, <1>3 DEF ProcOK
<1>5. IsGiven(GivenTo(c), Len(reports) + 1) /\ Supplied(p) = GivenTo(c)
  BY <1>3, <1>4, GivenInputs, SuppliedIsGiven
<1>6. model \in Models
  BY Routes
<1> DEFINE cached == IF c.force THEN {} ELSE find(Supplied(p), model)
\* Nothing was found: the request waits for its answer.
<1>7. ASSUME cached = {},
             proc' = [proc EXCEPT ![p].pc = "generate", ![p].model = model, ![p].before = Len(reports)]
      PROVE  Inv'
  <2> DEFINE next == [c EXCEPT !.pc = "generate", !.model = model, !.before = Len(reports)]
  <2>1. OnlyChanges(p, next)
    BY <1>1, <1>7 DEF OnlyChanges
  <2>2. /\ next.pc = "generate" /\ next.model = model /\ next.before = Len(reports)
        /\ next.plan = c.plan /\ next.supplied = c.supplied /\ next.results = c.results
        /\ next.force = c.force /\ next \in ProcessOf(window)
    <3>1. Len(reports) \in 0..MaxReports
      BY <1>3
    <3> HIDE DEF c
    <3> QED BY <1>4, <1>6, <3>1 DEF ProcessOf
  <2>3. ASSUME ~c.force, NEW i \in 1..Len(reports), reports[i].status = "published"
        PROVE  ~Matches(reports[i], GivenTo(c), model)
    <3>1. find(GivenTo(c), model) = {}
      BY <1>5, <1>7, <2>3
    <3>2. i \in DOMAIN reports
      BY <1>3
    <3> QED BY <2>3, <3>1, <3>2 DEF find, Matching
  <2> HIDE DEF next, c
  <2>4. GivenTo(next) = GivenTo(c)
    BY <2>2 DEF GivenTo, NextNode
  <2>5. NotFound(next, reports)
    BY <1>3, <2>2, <2>3, <2>4 DEF NotFound
  <2>6. Working(next, reports, window)
    BY <1>4, <2>2 DEF Working
  <2>7. ProcOK(next, reports, window)
    BY <1>4, <1>6, <2>2, <2>5, <2>6 DEF ProcOK
  <2> QED BY <2>1, <2>7, OneRecord
\* A stored report is the node's.
<1>8. ASSUME NEW i \in cached, proc' = [proc EXCEPT ![p] = Advanced(p, i)]
      PROVE  Inv'
  <2>1. /\ i \in 1..Len(reports) /\ reports[i].status = "published"
        /\ reports[i].inputs = GivenTo(c)
    <3>1. i \in find(Supplied(p), model)
      BY <1>8
    <3> QED BY <1>3, <1>5, <3>1 DEF find, Matching, Matches
  <2>2. IsGiven(GivenTo(c), i)
    <3>1. \A k \in 1..Len(reports[i].inputs) :
            reports[i].inputs[k].kind = "aggregate" => reports[i].inputs[k].id < i
      BY <1>3, <2>1 DEF RowsOK
    <3> QED BY <1>5, <2>1, <3>1 DEF IsGiven
  <2>3. OnlyChanges(p, AdvancedBy(c, i))
    BY <1>1, <1>8, AdvancedIsAdvancedBy DEF OnlyChanges
  <2> HIDE DEF c
  <2>4. ProcOK(AdvancedBy(c, i), reports, window)
    BY <1>3, <1>4, <2>1, <2>2, Advances
  <2> QED BY <2>3, <2>4, OneRecord
<1> QED BY <1>2, <1>7, <1>8

\* A new row is made of stored rows, and disturbs no other command.
LEMMA GenerateAndSaveKeeps == ASSUME Inv, NEW p \in Procs, GenerateAndSave(p) PROVE Inv'
<1> DEFINE c == proc[p]
<1>1. c.pc = "generate" /\ Len(reports) < MaxReports /\ window' = window /\ versions' = versions
  BY DEF GenerateAndSave
<1>2. PICK outcome \in Outcomes :
        /\ reports' = Append(reports, Row(p, outcome))
        /\ proc' = [proc EXCEPT ![p] =
             IF outcome.status = "published" THEN Advanced(p, Len(reports) + 1)
             ELSE [@ EXCEPT !.pc = "failed"]]
  BY DEF GenerateAndSave
<1>3. /\ window \in Seq(Nat) /\ window # <<>> /\ reports \in Seq(Rows) /\ RowsOK(reports)
      /\ ProcOK(c, reports, window) /\ Len(reports) \in Nat /\ MaxReports \in Nat
  BY WindowIsASequence, AggregateConstants DEF Inv, RowsOK
<1>4. /\ Working(c, reports, window) /\ Len(c.results) < Len(c.plan) /\ c \in ProcessOf(window)
      /\ c.model \in Models
  BY <1>1, <1>3 DEF ProcOK
<1>5. IsGiven(GivenTo(c), Len(reports) + 1) /\ Supplied(p) = GivenTo(c)
  BY <1>3, <1>4, GivenInputs, SuppliedIsGiven
<1> DEFINE row == Row(p, outcome)
           N == Len(reports)
<1>6. row \in Rows /\ row.inputs = GivenTo(c) /\ row.status = outcome.status
  <2>1. outcome \in [status : {"published", "failed"}, tokens : Nat]
    BY AggregateConstants
  <2>2. GivenTo(c) \in Seq(Inputs)
    BY <1>5 DEF IsGiven
  <2> QED BY <1>4, <1>5, <2>1, <2>2 DEF Row, Rows
<1> HIDE DEF row
<1>7. RowAddedTo(reports', reports, row)
  BY <1>2, <1>3, <1>5, <1>6, RowAdded DEF row
<1>8. RowsOK(reports') /\ Len(reports') = N + 1 /\ reports'[N + 1] = row
  BY <1>7 DEF RowAddedTo
<1>9. ASSUME NEW q \in Procs PROVE ProcOK(proc[q], reports', window)
  BY <1>3, <1>7, ProcGrows DEF Inv
<1>10. Working(c, reports', window)
  BY <1>4, <1>7, WorkingGrows
<1> DEFINE next == IF outcome.status = "published" THEN AdvancedBy(c, N + 1)
                   ELSE [c EXCEPT !.pc = "failed"]
<1>11. proc' = [proc EXCEPT ![p] = next]
  BY <1>2, AdvancedIsAdvancedBy
<1>12. ProcOK(next, reports', window)
  <2> HIDE DEF c
  <2>1. CASE outcome.status = "published"
    <3>1. N + 1 \in 1..Len(reports') /\ reports'[N + 1].status = "published"
          /\ reports'[N + 1].inputs = GivenTo(c)
      BY <1>3, <1>6, <1>8, <2>1
    <3>2. ProcOK(AdvancedBy(c, N + 1), reports', window)
      BY <1>3, <1>4, <1>5, <1>8, <1>10, <3>1, Advances
    <3> QED BY <2>1, <3>2
  <2>2. CASE outcome.status # "published"
    <3> DEFINE failed == [c EXCEPT !.pc = "failed"]
    <3>1. /\ failed.pc = "failed" /\ failed.plan = c.plan /\ failed.supplied = c.supplied
          /\ failed.results = c.results /\ failed \in ProcessOf(window)
      BY <1>4 DEF ProcessOf
    <3>2. next = failed
      BY <2>2
    <3> HIDE DEF failed, next
    <3>3. Working(failed, reports', window)
      BY <1>10, <3>1 DEF Working
    <3>4. ProcOK(failed, reports', window)
      BY <1>4, <3>1, <3>3 DEF ProcOK
    <3> QED BY <3>2, <3>4
  <2> QED BY <2>1, <2>2
<1> HIDE DEF next
<1>13. next \in ProcessOf(window)
  BY <1>12 DEF ProcOK
<1>14. /\ proc' \in [Procs -> ProcessOf(window)] /\ proc'[p] = next
       /\ \A q \in Procs : q # p => proc'[q] = proc[q]
  BY <1>11, <1>13 DEF Inv
<1>15. \A q \in Procs : ProcOK(proc'[q], reports', window)
  BY <1>9, <1>12, <1>14
<1>16. Len(reports') <= MaxReports
  BY <1>1, <1>3, <1>8
<1> QED BY <1>1, <1>8, <1>14, <1>15, <1>16 DEF Inv

\* A command that dies leaves its rows behind.
LEMMA CrashKeeps == ASSUME Inv, NEW p \in Procs, Crash(p) PROVE Inv'
<1>1. OnlyChanges(p, Idle)
  BY DEF Crash, OnlyChanges
<1> QED BY <1>1, IdleIsOK, OneRecord

\* A new version changes nothing that a command has resolved.
LEMMA ResummarizeKeeps == ASSUME Inv, NEW i \in DOMAIN window, Resummarize(i) PROVE Inv'
<1>1. versions' = [versions EXCEPT ![i] = @ + 1] /\ UNCHANGED <<window, reports, proc>>
  BY DEF Resummarize
<1>2. versions' \in [DOMAIN window -> Nat \ {0}]
  BY <1>1 DEF Inv
<1> QED BY <1>1, <1>2 DEF Inv

\* Every step keeps the invariant.
LEMMA StepsKeep == ASSUME Inv, [Next]_vars PROVE Inv'
<1>1. CASE UNCHANGED vars
  BY <1>1 DEF Inv, vars
<1>2. CASE Next
  <2>1. ASSUME NEW i \in DOMAIN window, Resummarize(i) PROVE Inv'
    BY <2>1, ResummarizeKeeps
  <2>2. ASSUME NEW p \in Procs, Begin(p) PROVE Inv'
    BY <2>2, BeginKeeps
  <2>3. ASSUME NEW p \in Procs, RoutingFails(p) PROVE Inv'
    BY <2>3, RoutingFailsKeeps
  <2>4. ASSUME NEW p \in Procs, Lookup(p) PROVE Inv'
    BY <2>4, LookupKeeps
  <2>5. ASSUME NEW p \in Procs, GenerateAndSave(p) PROVE Inv'
    BY <2>5, GenerateAndSaveKeeps
  <2>6. ASSUME NEW p \in Procs, Crash(p) PROVE Inv'
    BY <2>6, CrashKeeps
  <2> QED BY <1>2, <2>1, <2>2, <2>3, <2>4, <2>5, <2>6 DEF Next
<1> QED BY <1>1, <1>2

\* In every reachable state the stored reports are made of reports stored before them, and each
\* command holds, node by node of its plan, reports of exactly the inputs planned for the node.
THEOREM Invariance == Spec => []Inv
<1>1. Init => Inv
  BY Starts
<1>2. Inv /\ [Next]_vars => Inv'
  BY StepsKeep
<1> QED BY <1>1, <1>2, PTL DEF Spec

-----------------------------------------------------------------------------
(* Theorems *)

\* The state keeps its types, whatever the windows and budgets, and a command that is
\* at a node is at one of its plan.
THEOREM TypeCorrect == Spec => []TypeOK
<1>1. Inv => TypeOK
  <2> SUFFICES ASSUME Inv PROVE TypeOK
    OBVIOUS
  <2>1. Processes = ProcessOf(window)
    BY DEF Processes, ProcessOf
  <2>2. window \in Seq(Nat) /\ window # <<>> /\ reports \in Seq(Rows)
    BY WindowIsASequence DEF Inv, RowsOK
  <2>3. ASSUME NEW p \in Procs, proc[p].pc \in {"node", "generate"}
        PROVE  Step(p) \in DOMAIN proc[p].plan
    <3> DEFINE c == proc[p]
    <3>1. Working(c, reports, window) /\ Len(c.results) < Len(c.plan)
      BY <2>3 DEF Inv, ProcOK
    <3>2. c.plan \in Seq(Nodes) /\ Len(c.plan) \in Nat /\ Len(c.results) \in Nat
      BY <2>2, <3>1, PlanInHand DEF Working
    <3>3. Len(c.results) + 1 \in DOMAIN c.plan
      <4> HIDE DEF c
      <4> QED BY <3>1, <3>2
    <3> QED BY <3>3 DEF Step
  <2> QED BY <2>1, <2>2, <2>3 DEF TypeOK, Inv
<1> QED BY <1>1, Invariance, PTL

\* CompletedNodesAreReused, for every window, budget and outcome: the reports that a
\* lookup had to look at are only appended to, and what a node is given is decided by
\* its own command.
THEOREM ReuseHolds == Spec => []CompletedNodesAreReused
<1>1. Inv => CompletedNodesAreReused
  <2> SUFFICES ASSUME Inv, NEW p \in Procs, proc[p].pc = "generate", ~proc[p].force,
                      NEW i \in 1..proc[p].before, reports[i].status = "published"
               PROVE  ~Matches(reports[i], Supplied(p), proc[p].model)
    BY DEF CompletedNodesAreReused
  <2>1. NotFound(proc[p], reports)
    BY DEF Inv, ProcOK
  <2> QED BY <2>1, SuppliedIsGiven DEF NotFound
<1> QED BY <1>1, Invariance, PTL

\* PlannedRequestsAreRoutable, for every window and every budget: a request of the plan
\* fits the largest candidate unless a report outgrew what was reserved for it.
THEOREM PlannedRequestsRoute == Spec => []PlannedRequestsAreRoutable
<1>1. Inv => PlannedRequestsAreRoutable
  <2> SUFFICES ASSUME Inv, NEW p \in Procs, proc[p].pc = "unroutable"
               PROVE  \E n \in ToSet(Node(p).children) :
                        reports[proc[p].results[n]].tokens > ChildTokens
    BY DEF PlannedRequestsAreRoutable
  <2>1. TooLarge(proc[p], reports)
    BY DEF Inv, ProcOK
  <2> QED BY <2>1 DEF TooLarge, NextNode, Node, Step
<1> QED BY <1>1, Invariance, PTL

\* ReportsCoverTheWindow, for every window, every tree that is planned for it and every
\* interleaving: what a finished command returns is made of the reports it resolved, each
\* once and in order, although others stored, failed and replaced reports meanwhile.
THEOREM Coverage == Spec => []ReportsCoverTheWindow
<1>1. Inv => ReportsCoverTheWindow
  <2> SUFFICES ASSUME Inv, NEW p \in Procs, proc[p].pc = "done"
               PROVE  LET result == proc[p].results[Len(proc[p].results)] IN
                      reports[result].status = "published" /\ Sources[result] = proc[p].supplied
    BY DEF ReportsCoverTheWindow
  <2> DEFINE c == proc[p]
             L == Len(c.plan)
             sp == SpansOf(c.plan, window)
  <2>1. window \in Seq(Nat) /\ window # <<>> /\ Len(window) \in Nat
    BY WindowIsASequence DEF Inv
  <2>2. Working(c, reports, window) /\ Len(c.results) = L
    BY DEF Inv, ProcOK
  <2> HIDE DEF c
  <2>3. Spans(c.plan, sp, 0, Len(window)) /\ L \in Nat \ {0}
    BY <2>1, <2>2, PlanInHand DEF Working
  <2>4. sp[L].from = 0 /\ sp[L].to = Len(window) /\ L \in 1..Len(c.results)
    BY <2>2, <2>3 DEF Spans
  <2>5. Holds(c.results[L], sp[L], c.supplied, reports)
    BY <2>2, <2>4 DEF Working
  <2>6. c.supplied \in Seq(Inputs) /\ Len(c.supplied) = Len(window)
    BY <2>2 DEF Working, Resolved
  <2>7. Piece(c.supplied, sp[L]) = c.supplied
    <3>1. SubSeq(c.supplied, 1, Len(c.supplied)) = c.supplied
      BY <2>6, SubSeqFull
    <3>2. Piece(c.supplied, sp[L]) = SubSeq(c.supplied, 0 + 1, Len(c.supplied))
      BY <2>4, <2>6 DEF Piece
    <3> QED BY <3>1, <3>2
  <2> QED BY <2>2, <2>5, <2>7, SourcesOfReports DEF Holds, c
<1> QED BY <1>1, Invariance, PTL

\* PlanIsSound, for all sizes, budgets and overheads: plan_reduction's tree gives each
\* input to one request, in order, and each intermediate report to one parent, every
\* request fits the budget, and the planner gives up only when it must.
THEOREM PlannerIsSound == Spec => []PlanIsSound
<1>1. ASSUME NEW sizes \in PlanInputs
      PROVE  LET tree == plan_reduction(sizes, ChildTokens, Room, Separator)
             IN IF MustFail(sizes, ChildTokens, Room, Separator) THEN tree = Unplannable
                ELSE /\ tree # Unplannable
                     /\ CoversInOrder(tree, Len(sizes))
                     /\ FitsPlan(tree, sizes, ChildTokens, Room, Separator)
  <2> DEFINE tree == plan_reduction(sizes, ChildTokens, Room, Separator)
             must == MustFail(sizes, ChildTokens, Room, Separator)
  <2>1. sizes \in Seq(Nat) /\ ChildTokens \in Nat \ {0} /\ Separator \in Nat /\ Room \in Int
    BY AggregateConstants, LargestBudget DEF Room
  <2>2. IF must THEN tree = Unplannable
        ELSE IsTree(tree, 0, Len(sizes), sizes, ChildTokens, Room, Separator)
    BY <2>1, PlanSpans
  <2> HIDE DEF tree, must
  <2>3. ASSUME IsTree(tree, 0, Len(sizes), sizes, ChildTokens, Room, Separator)
        PROVE  /\ tree # Unplannable
               /\ CoversInOrder(tree, Len(sizes))
               /\ FitsPlan(tree, sizes, ChildTokens, Room, Separator)
    <3>1. PICK sp : Spans(tree, sp, 0, Len(sizes))
      BY <2>3 DEF IsTree
    <3>2. tree # Unplannable
      BY <3>1, SpansGrow DEF Unplannable
    <3>3. CoversInOrder(tree, Len(sizes))
      BY <3>1, SpansCover
    <3> QED BY <2>3, <3>2, <3>3 DEF IsTree
  <2> QED BY <2>2, <2>3 DEF tree, must
<1>2. PlanIsSound
  BY <1>1 DEF PlanIsSound, Room, Largest
<1> QED BY <1>2, PTL
=============================================================================
