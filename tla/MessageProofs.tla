---------------------------- MODULE MessageProofs ----------------------------
(***************************************************************************)
(* Theorems about the message that is sent to the model and about the      *)
(* calls that send it.                                                     *)
(*                                                                         *)
(* Of the message (MailContext), for every kind of part and every limit:   *)
(* what the parser vouches for is within its limits, nothing of the mail   *)
(* is lost in silence, no fact is sent without its observable, no pixels   *)
(* but those shown as supplied, and the quota of VirusTotal goes to the    *)
(* files first.                                                            *)
(*                                                                         *)
(* Of the calls (LlmClient), for every number of attempts, every budget    *)
(* and every lag: what a record says of a call is what went over the wire, *)
(* and the audits the evaluation reads back are those of the requests they *)
(* are taken for.                                                          *)
(***************************************************************************)
EXTENDS LlmClient, MailContext, SequenceTheorems, FiniteSetTheorems,
        WellFoundedInduction, TLAPS

-----------------------------------------------------------------------------
(***************************************************************************)
(* Recursive functions: each has a solution and only one, what Only keeps  *)
(* of a sequence.                                                          *)
(***************************************************************************)
\* A set of numbers has a least one, and what each step keeps holds throughout.
LEMMA LeastNumber ==
  ASSUME NEW S, S \subseteq Nat, S # {}
  PROVE  \E n \in S : \A m \in S : n <= m
<1> DEFINE R == OpToRel(<, Nat)
<1>1. IsWellFoundedOn(R, Nat)
  BY NatLessThanWellFounded
<1>2. PICK n \in S : \A m \in S : ~(<<m, n>> \in R)
  BY <1>1, WFMin
<1>3. ASSUME NEW m \in S, m < n PROVE FALSE
  <2>1. <<m, n>> \in R
    BY <1>3 DEF OpToRel
  <2> QED
    BY <1>2, <2>1
<1> QED
  BY <1>3

LEMMA UpTo ==
  ASSUME NEW N \in Nat, NEW P, 0 \in P,
         \A n \in 1 .. N : n - 1 \in P => n \in P
  PROVE  \A n \in 0 .. N : n \in P
<1> DEFINE Out == {n \in 0 .. N : n \notin P}
<1> SUFFICES ASSUME Out # {} PROVE FALSE
  OBVIOUS
<1>0. Out \subseteq Nat
  OBVIOUS
<1>1. PICK n \in Out : \A m \in Out : n <= m
  BY <1>0, LeastNumber
<1>2. n \in 1 .. N /\ n - 1 \in 0 .. N
  OBVIOUS
<1>3. n - 1 \notin Out
  BY <1>1, <1>2
<1> QED
  BY <1>1, <1>2, <1>3

\* A recursion on the length of a prefix has a solution.
Runs(N, D, base, g) ==
  {f \in [0 .. N -> D] : f[0] = base /\ \A n \in 1 .. N : f[n] = g[n][f[n - 1]]}

LEMMA Recursion ==
  ASSUME NEW N \in Nat, NEW D, NEW base \in D, NEW g \in [1 .. N -> [D -> D]]
  PROVE  Runs(N, D, base, g) # {}
<1> DEFINE Solves(f, k) == f[0] = base /\ \A n \in 1 .. k : f[n] = g[n][f[n - 1]]
           P == {k \in 0 .. N : \E f \in [0 .. k -> D] : Solves(f, k)}
<1>1. 0 \in P
  <2> DEFINE h == [n \in 0 .. 0 |-> base]
  <2>1. h \in [0 .. 0 -> D] /\ Solves(h, 0)
    OBVIOUS
  <2> HIDE DEF h, Solves
  <2> QED
    BY <2>1
<1>2. ASSUME NEW k \in 1 .. N, k - 1 \in P PROVE k \in P
  <2>1. PICK f \in [0 .. k - 1 -> D] : Solves(f, k - 1)
    BY <1>2
  <2> DEFINE h == [n \in 0 .. k |-> IF n = k THEN g[k][f[k - 1]] ELSE f[n]]
  <2>2. f[k - 1] \in D /\ g[k][f[k - 1]] \in D
    BY <2>1
  <2>3. h \in [0 .. k -> D]
    BY <2>1, <2>2
  <2>4. \A n \in 1 .. k : h[n] = g[n][h[n - 1]]
    BY <2>1
  <2>5. h[0] = base
    BY <2>1
  <2>6. Solves(h, k)
    BY <2>4, <2>5
  <2> HIDE DEF h, Solves
  <2> QED
    BY <2>3, <2>6
<1> HIDE DEF P
<1>3. \A k \in 0 .. N : k \in P
  BY <1>1, <1>2, UpTo
<1>4. PICK f \in [0 .. N -> D] : Solves(f, N)
  BY <1>3 DEF P
<1> QED
  BY <1>4 DEF Runs

\* And it has only one.
LEMMA RecursionIsRun ==
  ASSUME NEW N \in Nat, NEW D, NEW base \in D, NEW g \in [1 .. N -> [D -> D]],
         NEW K, K = [n \in 0 .. N |-> K[n]], K[0] = base,
         \A n \in 1 .. N : K[n - 1] \in D => K[n] = g[n][K[n - 1]]
  PROVE  K \in Runs(N, D, base, g)
<1> DEFINE P == {n \in 0 .. N : K[n] \in D}
<1>1. 0 \in P
  OBVIOUS
<1>2. ASSUME NEW n \in 1 .. N, n - 1 \in P PROVE n \in P
  <2>1. K[n - 1] \in D /\ g[n] \in [D -> D]
    BY <1>2
  <2>2. K[n] = g[n][K[n - 1]]
    BY <2>1
  <2> QED
    BY <2>1, <2>2
<1> HIDE DEF P
<1>3. \A n \in 0 .. N : n \in P
  BY <1>1, <1>2, UpTo
<1>4. \A n \in 0 .. N : K[n] \in D
  BY <1>3 DEF P
<1>5. K \in [0 .. N -> D]
  BY <1>4
<1>6. \A n \in 1 .. N : K[n] = g[n][K[n - 1]]
  <2> SUFFICES ASSUME NEW n \in 1 .. N PROVE K[n] = g[n][K[n - 1]]
    OBVIOUS
  <2>1. n - 1 \in 0 .. N
    OBVIOUS
  <2> QED
    BY <1>4, <2>1
<1> QED
  BY <1>5, <1>6 DEF Runs

\* What Only keeps of each prefix.
Selections(T, s, S) ==
  {kept \in [0 .. Len(s) -> Seq(T)] :
     /\ kept[0] = << >>
     /\ \A n \in 1 .. Len(s) :
          kept[n] = IF s[n] \in S THEN Append(kept[n - 1], s[n]) ELSE kept[n - 1]}

LEMMA OnlyPrefixes ==
  ASSUME NEW T, NEW s \in Seq(T), NEW S
  PROVE  \E kept \in Selections(T, s, S) : Only(s, S) = kept[Len(s)]
<1> DEFINE N == Len(s)
           D == Seq(T)
           base == << >>
           step(n, d) == IF s[n] \in S THEN Append(d, s[n]) ELSE d
           g == [n \in 1 .. N |-> [d \in D |-> step(n, d)]]
           K == CHOOSE f : f = [n \in 0 .. N |-> IF n = 0 THEN << >>
                  ELSE IF s[n] \in S THEN Append(f[n - 1], s[n]) ELSE f[n - 1]]
<1>1. Only(s, S) = K[N]
  BY DEF Only
<1>2. N \in Nat /\ base \in D /\ \A n \in 1 .. N, d \in D : step(n, d) \in D
  OBVIOUS
<1> HIDE DEF N, D
<1>3. g \in [1 .. N -> [D -> D]] /\ \A n \in 1 .. N, d \in D : g[n][d] = step(n, d)
  BY <1>2
<1> HIDE DEF g, base, step
<1>4. PICK f : f \in Runs(N, D, base, g)
  BY <1>2, <1>3, Recursion
<1>5. f = [n \in 0 .. N |-> IF n = 0 THEN base ELSE step(n, f[n - 1])]
  BY <1>2, <1>3, <1>4 DEF Runs
<1>6. K = [n \in 0 .. N |-> IF n = 0 THEN base ELSE step(n, K[n - 1])]
  BY <1>5 DEF base, step
<1> HIDE DEF K
<1>7. K \in Runs(N, D, base, g)
  <2>1. K = [n \in 0 .. N |-> K[n]] /\ K[0] = base
    BY <1>2, <1>6
  <2>2. \A n \in 1 .. N : K[n - 1] \in D => K[n] = g[n][K[n - 1]]
    BY <1>2, <1>3, <1>6
  <2> QED
    BY <1>2, <1>3, <2>1, <2>2, RecursionIsRun
<1>8. \A n \in 1 .. N : K[n] = step(n, K[n - 1])
  BY <1>2, <1>6
<1>9. K \in Selections(T, s, S)
  BY <1>7, <1>8 DEF Runs, N, D, base, step, Selections
<1> QED
  BY <1>1, <1>9 DEF N

\* What it selects: the elements of S, and no other.
IsSelection(kept, T, s, S) ==
  /\ kept \in Seq(T)
  /\ Len(kept) <= Len(s)
  /\ \A i \in 1 .. Len(kept) : kept[i] \in S /\ \E j \in 1 .. Len(s) : kept[i] = s[j]
  /\ \A j \in 1 .. Len(s) : s[j] \in S => \E i \in 1 .. Len(kept) : kept[i] = s[j]

LEMMA OnlyElements ==
  ASSUME NEW T, NEW s \in Seq(T), NEW S
  PROVE  IsSelection(Only(s, S), T, s, S)
<1>1a. PICK kept \in Selections(T, s, S) : Only(s, S) = kept[Len(s)]
  BY OnlyPrefixes
<1>1. /\ kept \in [0 .. Len(s) -> Seq(T)]
      /\ kept[0] = << >>
      /\ \A n \in 1 .. Len(s) :
           kept[n] = IF s[n] \in S THEN Append(kept[n - 1], s[n]) ELSE kept[n - 1]
      /\ Only(s, S) = kept[Len(s)]
  BY <1>1a DEF Selections
<1> DEFINE Selects(n) ==
             /\ Len(kept[n]) <= n
             /\ \A i \in 1 .. Len(kept[n]) : kept[n][i] \in S /\ \E j \in 1 .. n : kept[n][i] = s[j]
             /\ \A j \in 1 .. n : s[j] \in S => \E i \in 1 .. Len(kept[n]) : kept[n][i] = s[j]
           P == {n \in 0 .. Len(s) : Selects(n)}
<1>2. Len(s) \in Nat
  OBVIOUS
<1>3. 0 \in P
  BY <1>1, <1>2
<1>4. ASSUME NEW n \in 1 .. Len(s), n - 1 \in P PROVE n \in P
  <2>a. n - 1 \in 0 .. Len(s) /\ n \in 0 .. Len(s) /\ s[n] \in T
    BY <1>2
  <2>b. kept[n - 1] \in Seq(T)
    BY <1>1, <2>a
  <2>c. Selects(n - 1)
    BY <1>4
  <2>1. Selects(n - 1) /\ n - 1 \in 0 .. Len(s) /\ n \in 0 .. Len(s) /\ kept[n - 1] \in Seq(T) /\ s[n] \in T
    BY <2>a, <2>b, <2>c
  <2> DEFINE old == kept[n - 1]
  <2>2. CASE s[n] \in S
    <3>1. kept[n] = Append(old, s[n])
      BY <1>1, <2>2
    <3> HIDE DEF old
    <3>2. /\ Len(kept[n]) = Len(old) + 1
          /\ \A i \in 1 .. Len(old) : kept[n][i] = old[i]
          /\ kept[n][Len(old) + 1] = s[n]
          /\ Len(old) \in Nat
      BY <2>1, <3>1 DEF old
    <3>3. /\ Len(old) <= n - 1
          /\ \A i \in 1 .. Len(old) : old[i] \in S /\ \E j \in 1 .. n - 1 : old[i] = s[j]
          /\ \A j \in 1 .. n - 1 : s[j] \in S => \E i \in 1 .. Len(old) : old[i] = s[j]
      BY <2>1 DEF old
    <3>4. \A i \in 1 .. Len(kept[n]) : i \in 1 .. Len(old) \/ i = Len(old) + 1
      BY <3>2
    <3>5. \A i \in 1 .. Len(kept[n]) : kept[n][i] \in S /\ \E j \in 1 .. n : kept[n][i] = s[j]
      <4> SUFFICES ASSUME NEW i \in 1 .. Len(kept[n])
                   PROVE  kept[n][i] \in S /\ \E j \in 1 .. n : kept[n][i] = s[j]
        OBVIOUS
      <4>1. CASE i = Len(old) + 1
        BY <2>2, <3>2, <4>1
      <4>2. CASE i \in 1 .. Len(old)
        <5>1. kept[n][i] = old[i]
          BY <3>2, <4>2
        <5>2. PICK j \in 1 .. n - 1 : old[i] = s[j]
          BY <3>3, <4>2
        <5> QED
          BY <3>3, <4>2, <5>1, <5>2
      <4> QED
        BY <3>4, <4>1, <4>2
    <3>6. \A j \in 1 .. n : s[j] \in S => \E i \in 1 .. Len(kept[n]) : kept[n][i] = s[j]
      <4> SUFFICES ASSUME NEW j \in 1 .. n, s[j] \in S
                   PROVE  \E i \in 1 .. Len(kept[n]) : kept[n][i] = s[j]
        OBVIOUS
      <4>1. CASE j = n
        BY <4>1, <3>2
      <4>2. CASE j # n
        <5>1. PICK i \in 1 .. Len(old) : old[i] = s[j]
          BY <4>2, <3>3
        <5> QED
          BY <5>1, <3>2
      <4> QED
        BY <4>1, <4>2
    <3> QED
      BY <2>1, <3>2, <3>3, <3>5, <3>6
  <2>3. CASE s[n] \notin S
    <3>1. kept[n] = kept[n - 1]
      BY <1>1, <2>3
    <3>2. Selects(n)
      BY <2>1, <2>3, <3>1
    <3> QED
      BY <2>1, <3>2
  <2> QED
    BY <2>2, <2>3
<1> HIDE DEF P
<1>5. \A n \in 0 .. Len(s) : n \in P
  BY <1>2, <1>3, <1>4, UpTo
<1>6. Selects(Len(s))
  <2>1. Len(s) \in P
    BY <1>2, <1>5
  <2> QED
    BY <2>1 DEF P
<1>7. kept[Len(s)] \in Seq(T)
  BY <1>1, <1>2
<1> HIDE DEF Selects
<1> QED
  BY <1>1, <1>6, <1>7 DEF Selects, IsSelection

\* One more element.
LEMMA OnlyOfOneMore ==
  ASSUME NEW T, NEW s \in Seq(T), NEW x \in T, NEW S, NEW S2,
         \A i \in 1 .. Len(s) : s[i] \in S <=> s[i] \in S2
  PROVE  Only(Append(s, x), S2) = IF x \in S2 THEN Append(Only(s, S), x) ELSE Only(s, S)
<1> DEFINE longer == Append(s, x)
<1>1. /\ longer \in Seq(T) /\ Len(longer) = Len(s) + 1 /\ Len(s) \in Nat
      /\ \A i \in 1 .. Len(s) : longer[i] = s[i]
      /\ longer[Len(s) + 1] = x
  OBVIOUS
<1> HIDE DEF longer
<1>2a. PICK k1 \in Selections(T, s, S) : Only(s, S) = k1[Len(s)]
  BY OnlyPrefixes
<1>2. /\ k1 \in [0 .. Len(s) -> Seq(T)]
      /\ k1[0] = << >>
      /\ \A n \in 1 .. Len(s) : k1[n] = IF s[n] \in S THEN Append(k1[n - 1], s[n]) ELSE k1[n - 1]
      /\ Only(s, S) = k1[Len(s)]
  BY <1>2a DEF Selections
<1>3a. PICK k2 \in Selections(T, longer, S2) : Only(longer, S2) = k2[Len(longer)]
  BY <1>1, OnlyPrefixes
<1>3. /\ k2 \in [0 .. Len(longer) -> Seq(T)]
      /\ k2[0] = << >>
      /\ \A n \in 1 .. Len(longer) :
           k2[n] = IF longer[n] \in S2 THEN Append(k2[n - 1], longer[n]) ELSE k2[n - 1]
      /\ Only(longer, S2) = k2[Len(longer)]
  BY <1>3a DEF Selections
<1> DEFINE P == {n \in 0 .. Len(s) : k1[n] = k2[n]}
<1>4. 0 \in P
  BY <1>1, <1>2, <1>3
<1>5. ASSUME NEW n \in 1 .. Len(s), n - 1 \in P PROVE n \in P
  <2>1. n \in 1 .. Len(longer) /\ longer[n] = s[n] /\ k1[n - 1] = k2[n - 1] /\ n \in 0 .. Len(s)
    BY <1>1, <1>5
  <2> QED
    BY <1>2, <1>3, <2>1
<1> HIDE DEF P
<1>6. \A n \in 0 .. Len(s) : n \in P
  BY <1>1, <1>4, <1>5, UpTo
<1>7. k1[Len(s)] = k2[Len(s)]
  BY <1>1, <1>6 DEF P
<1>8. k2[Len(s) + 1] = IF x \in S2 THEN Append(k2[Len(s)], x) ELSE k2[Len(s)]
  BY <1>1, <1>3
<1> QED
  BY <1>1, <1>2, <1>3, <1>7, <1>8 DEF longer

\* What is left out is the rest.
LEMMA OnlySplits ==
  ASSUME NEW T, NEW s \in Seq(T), NEW S
  PROVE  Len(Only(s, S)) + Len(Only(s, ToSet(s) \ S)) = Len(s)
<1>1a. PICK k1 \in Selections(T, s, S) : Only(s, S) = k1[Len(s)]
  BY OnlyPrefixes
<1>1. /\ k1 \in [0 .. Len(s) -> Seq(T)]
      /\ k1[0] = << >>
      /\ \A n \in 1 .. Len(s) : k1[n] = IF s[n] \in S THEN Append(k1[n - 1], s[n]) ELSE k1[n - 1]
      /\ Only(s, S) = k1[Len(s)]
  BY <1>1a DEF Selections
<1>2a. PICK k2 \in Selections(T, s, ToSet(s) \ S) : Only(s, ToSet(s) \ S) = k2[Len(s)]
  BY OnlyPrefixes
<1>2. /\ k2 \in [0 .. Len(s) -> Seq(T)]
      /\ k2[0] = << >>
      /\ \A n \in 1 .. Len(s) :
           k2[n] = IF s[n] \in ToSet(s) \ S THEN Append(k2[n - 1], s[n]) ELSE k2[n - 1]
      /\ Only(s, ToSet(s) \ S) = k2[Len(s)]
  BY <1>2a DEF Selections
<1>3. Len(s) \in Nat /\ \A n \in 1 .. Len(s) : s[n] \in ToSet(s) /\ s[n] \in T
  BY DEF ToSet
<1> DEFINE P == {n \in 0 .. Len(s) : Len(k1[n]) + Len(k2[n]) = n}
<1>4. 0 \in P
  BY <1>1, <1>2, <1>3
<1>5. ASSUME NEW n \in 1 .. Len(s), n - 1 \in P PROVE n \in P
  <2>a. /\ n \in 0 .. Len(s) /\ n - 1 \in 0 .. Len(s)
        /\ s[n] \in T /\ s[n] \in ToSet(s)
    BY <1>3
  <2>b. k1[n - 1] \in Seq(T) /\ k2[n - 1] \in Seq(T)
    BY <1>1, <1>2, <2>a
  <2>c. Len(k1[n - 1]) + Len(k2[n - 1]) = n - 1
    BY <1>5
  <2>1. /\ n \in 0 .. Len(s) /\ n - 1 \in 0 .. Len(s)
        /\ k1[n - 1] \in Seq(T) /\ k2[n - 1] \in Seq(T)
        /\ Len(k1[n - 1]) + Len(k2[n - 1]) = n - 1
        /\ s[n] \in T /\ s[n] \in ToSet(s)
    BY <2>a, <2>b, <2>c
  <2> DEFINE o1 == k1[n - 1]  o2 == k2[n - 1]
  <2>d. k1[n] = IF s[n] \in S THEN Append(o1, s[n]) ELSE o1
    BY <1>1
  <2>e. k2[n] = IF s[n] \in S THEN o2 ELSE Append(o2, s[n])
    BY <1>2, <2>1
  <2>f. o1 \in Seq(T) /\ o2 \in Seq(T) /\ Len(o1) + Len(o2) = n - 1
    BY <2>1
  <2> HIDE DEF o1, o2
  <2>g. Len(Append(o1, s[n])) = Len(o1) + 1 /\ Len(Append(o2, s[n])) = Len(o2) + 1
    BY <2>1, <2>f
  <2>2. Len(k1[n]) + Len(k2[n]) = n
    BY <1>3, <2>d, <2>e, <2>f, <2>g
  <2> QED
    BY <2>1, <2>2
<1> HIDE DEF P
<1>6. \A n \in 0 .. Len(s) : n \in P
  BY <1>3, <1>4, <1>5, UpTo
<1>7. Len(s) \in P
  BY <1>3, <1>6
<1> QED
  BY <1>1, <1>2, <1>7 DEF P

\* No two observables of s have the same value.
Distinct(s) == \A i, j \in 1 .. Len(s) : s[i].value = s[j].value => i = j

\* Distinct values and one more, that was not among them.
LEMMA DistinctOfOneMore ==
  ASSUME NEW T, NEW s \in Seq(T), NEW x \in T, Distinct(s),
         \A i \in 1 .. Len(s) : s[i].value # x.value
  PROVE  Distinct(Append(s, x))
<1>1. /\ Len(Append(s, x)) = Len(s) + 1 /\ Len(s) \in Nat
      /\ \A i \in 1 .. Len(s) : Append(s, x)[i] = s[i]
      /\ Append(s, x)[Len(s) + 1] = x
  OBVIOUS
<1> DEFINE longer == Append(s, x)
<1> HIDE DEF longer
<1> SUFFICES ASSUME NEW i \in 1 .. Len(longer), NEW j \in 1 .. Len(longer),
                    longer[i].value = longer[j].value
             PROVE  i = j
  BY DEF Distinct, longer
<1>2. i \in 1 .. Len(s) \/ i = Len(s) + 1
  BY <1>1 DEF longer
<1>3. j \in 1 .. Len(s) \/ j = Len(s) + 1
  BY <1>1 DEF longer
<1>4. CASE i \in 1 .. Len(s) /\ j \in 1 .. Len(s)
  BY <1>1, <1>4 DEF longer, Distinct
<1>5. CASE i \in 1 .. Len(s) /\ j = Len(s) + 1
  BY <1>1, <1>5 DEF longer
<1>6. CASE i = Len(s) + 1 /\ j \in 1 .. Len(s)
  BY <1>1, <1>6 DEF longer
<1> QED
  BY <1>2, <1>3, <1>4, <1>5, <1>6

\* What is selected from distinct values is distinct.
LEMMA OnlyDistinct ==
  ASSUME NEW T, NEW s \in Seq(T), NEW S, Distinct(s)
  PROVE  Distinct(Only(s, S))
<1>1a. PICK kept \in Selections(T, s, S) : Only(s, S) = kept[Len(s)]
  BY OnlyPrefixes
<1>1. /\ kept \in [0 .. Len(s) -> Seq(T)]
      /\ kept[0] = << >>
      /\ \A n \in 1 .. Len(s) :
           kept[n] = IF s[n] \in S THEN Append(kept[n - 1], s[n]) ELSE kept[n - 1]
      /\ Only(s, S) = kept[Len(s)]
  BY <1>1a DEF Selections
<1> DEFINE Apart(n) == /\ Distinct(kept[n])
                       /\ \A i \in 1 .. Len(kept[n]) : \E j \in 1 .. n : kept[n][i] = s[j]
           P == {n \in 0 .. Len(s) : Apart(n)}
<1>2. Len(s) \in Nat
  OBVIOUS
<1>3. 0 \in P
  <2>1. Len(kept[0]) = 0
    BY <1>1
  <2> QED
    BY <1>2, <2>1 DEF Distinct
<1>4. ASSUME NEW n \in 1 .. Len(s), n - 1 \in P PROVE n \in P
  <2> DEFINE old == kept[n - 1]
  <2>a. n - 1 \in 0 .. Len(s) /\ n \in 0 .. Len(s) /\ s[n] \in T
    BY <1>2
  <2>b. old \in Seq(T)
    BY <1>1, <2>a
  <2>c. Apart(n - 1)
    BY <1>4
  <2>d. Distinct(old) /\ \A i \in 1 .. Len(old) : \E j \in 1 .. n - 1 : old[i] = s[j]
    BY <2>c
  <2>e. kept[n] = IF s[n] \in S THEN Append(old, s[n]) ELSE old
    BY <1>1
  <2> HIDE DEF old
  <2>1. CASE s[n] \in S
    <3>1. kept[n] = Append(old, s[n])
      BY <2>1, <2>e
    <3>2. ASSUME NEW i \in 1 .. Len(old) PROVE old[i].value # s[n].value
      <4>1. PICK j \in 1 .. n - 1 : old[i] = s[j]
        BY <2>d
      <4> QED
        BY <4>1, <1>2 DEF Distinct
    <3>3. Distinct(kept[n])
      BY <2>a, <2>b, <2>d, <3>1, <3>2, DistinctOfOneMore
    <3>4. /\ Len(kept[n]) = Len(old) + 1 /\ Len(old) \in Nat
          /\ \A i \in 1 .. Len(old) : kept[n][i] = old[i]
          /\ kept[n][Len(old) + 1] = s[n]
      BY <2>a, <2>b, <3>1
    <3>5. ASSUME NEW i \in 1 .. Len(kept[n]) PROVE \E j \in 1 .. n : kept[n][i] = s[j]
      <4>1. CASE i = Len(old) + 1
        BY <3>4, <4>1
      <4>2. CASE i \in 1 .. Len(old)
        <5>1. PICK j \in 1 .. n - 1 : old[i] = s[j]
          BY <2>d, <4>2
        <5> QED
          BY <3>4, <4>2, <5>1
      <4> QED
        BY <3>4, <4>1, <4>2
    <3> QED
      BY <2>a, <3>3, <3>5
  <2>2. CASE s[n] \notin S
    <3>1. kept[n] = old
      BY <2>2, <2>e
    <3>2. Apart(n)
      BY <2>d, <3>1
    <3> QED
      BY <2>a, <3>2
  <2> QED
    BY <2>1, <2>2
<1> HIDE DEF P
<1>5. \A n \in 0 .. Len(s) : n \in P
  BY <1>2, <1>3, <1>4, UpTo
<1>6. Len(s) \in P
  BY <1>2, <1>5
<1> QED
  BY <1>1, <1>6 DEF P

-----------------------------------------------------------------------------
(***************************************************************************)
(* The registry.                                                           *)
(***************************************************************************)
Registrations(T, found) ==
  {known \in [0 .. Len(found) -> Seq(T)] :
     /\ known[0] = << >>
     /\ \A n \in 1 .. Len(found) : known[n] = AddObservable(known[n - 1], found[n])}

\* The registry of each prefix.
LEMMA RegistryPrefixes ==
  ASSUME NEW T, NEW found \in Seq(T)
  PROVE  \E known \in Registrations(T, found) : Registry(found) = known[Len(found)]
<1> DEFINE N == Len(found)
           D == Seq(T)
           base == << >>
           step(n, d) == AddObservable(d, found[n])
           g == [n \in 1 .. N |-> [d \in D |-> step(n, d)]]
           K == CHOOSE f : f = [n \in 0 .. N |-> IF n = 0 THEN << >>
                                                 ELSE AddObservable(f[n - 1], found[n])]
<1>1. Registry(found) = K[N]
  BY DEF Registry
<1>2. N \in Nat /\ base \in D /\ \A n \in 1 .. N, d \in D : step(n, d) \in D
  BY DEF AddObservable
<1> HIDE DEF N, D
<1>3. g \in [1 .. N -> [D -> D]] /\ \A n \in 1 .. N, d \in D : g[n][d] = step(n, d)
  BY <1>2
<1> HIDE DEF g, base, step
<1>4. PICK f : f \in Runs(N, D, base, g)
  BY <1>2, <1>3, Recursion
<1>5. f = [n \in 0 .. N |-> IF n = 0 THEN base ELSE step(n, f[n - 1])]
  BY <1>2, <1>3, <1>4 DEF Runs
<1>6. K = [n \in 0 .. N |-> IF n = 0 THEN base ELSE step(n, K[n - 1])]
  BY <1>5 DEF base, step
<1> HIDE DEF K
<1>7. K \in Runs(N, D, base, g)
  <2>1. K = [n \in 0 .. N |-> K[n]] /\ K[0] = base
    BY <1>2, <1>6
  <2>2. \A n \in 1 .. N : K[n - 1] \in D => K[n] = g[n][K[n - 1]]
    BY <1>2, <1>3, <1>6
  <2> QED
    BY <1>2, <1>3, <2>1, <2>2, RecursionIsRun
<1>8. \A n \in 1 .. N : K[n] = step(n, K[n - 1])
  BY <1>2, <1>6
<1>9. K \in Registrations(T, found)
  BY <1>7, <1>8 DEF Runs, N, D, base, step, Registrations
<1> QED
  BY <1>1, <1>9 DEF N

\* Each value once, and every value.
LEMMA RegistryHolds ==
  ASSUME NEW T, NEW found \in Seq(T)
  PROVE  /\ Registry(found) \in Seq(T)
         /\ Distinct(Registry(found))
         /\ \A i \in 1 .. Len(Registry(found)) : \E j \in 1 .. Len(found) : Registry(found)[i] = found[j]
         /\ \A j \in 1 .. Len(found) :
              \E i \in 1 .. Len(Registry(found)) : Registry(found)[i].value = found[j].value
<1>1a. PICK known \in Registrations(T, found) : Registry(found) = known[Len(found)]
  BY RegistryPrefixes
<1>1. /\ known \in [0 .. Len(found) -> Seq(T)]
      /\ known[0] = << >>
      /\ \A n \in 1 .. Len(found) : known[n] = AddObservable(known[n - 1], found[n])
  BY <1>1a DEF Registrations
<1> DEFINE Holds(n) ==
             /\ Distinct(known[n])
             /\ \A i \in 1 .. Len(known[n]) : \E j \in 1 .. n : known[n][i] = found[j]
             /\ \A j \in 1 .. n : \E i \in 1 .. Len(known[n]) : known[n][i].value = found[j].value
           P == {n \in 0 .. Len(found) : Holds(n)}
<1>2. Len(found) \in Nat
  OBVIOUS
<1>3. 0 \in P
  <2>1. Len(known[0]) = 0
    BY <1>1
  <2> QED
    BY <1>2, <2>1 DEF Distinct
<1>4. ASSUME NEW n \in 1 .. Len(found), n - 1 \in P PROVE n \in P
  <2> DEFINE old == known[n - 1]
  <2>a. n - 1 \in 0 .. Len(found) /\ n \in 0 .. Len(found) /\ found[n] \in T
    BY <1>2
  <2>b. old \in Seq(T)
    BY <1>1, <2>a
  <2>c. Holds(n - 1)
    BY <1>4
  <2>d. /\ Distinct(old)
        /\ \A i \in 1 .. Len(old) : \E j \in 1 .. n - 1 : old[i] = found[j]
        /\ \A j \in 1 .. n - 1 : \E i \in 1 .. Len(old) : old[i].value = found[j].value
    BY <2>c
  <2>e. known[n] = AddObservable(old, found[n])
    BY <1>1
  <2> HIDE DEF old
  <2>1. CASE \E i \in 1 .. Len(old) : old[i].value = found[n].value
    <3>1. known[n] = old
      BY <2>1, <2>e DEF AddObservable
    <3>2. ASSUME NEW j \in 1 .. n PROVE \E i \in 1 .. Len(old) : old[i].value = found[j].value
      <4>1. CASE j = n
        BY <2>1, <4>1
      <4>2. CASE j \in 1 .. n - 1
        BY <2>d, <4>2
      <4> QED
        BY <4>1, <4>2
    <3>3. Holds(n)
      BY <2>d, <3>1, <3>2, <2>a
    <3> QED
      BY <2>a, <3>3
  <2>2. CASE ~ \E i \in 1 .. Len(old) : old[i].value = found[n].value
    <3>1. known[n] = Append(old, found[n])
      BY <2>2, <2>e DEF AddObservable
    <3>2. Distinct(known[n])
      <4>1. \A i \in 1 .. Len(old) : old[i].value # found[n].value
        BY <2>2
      <4>2. Distinct(old) /\ old \in Seq(T) /\ found[n] \in T
        BY <2>a, <2>b, <2>d
      <4>3. Distinct(Append(old, found[n]))
        BY ONLY <4>1, <4>2, DistinctOfOneMore
      <4> QED
        BY <3>1, <4>3
    <3>4. /\ Len(known[n]) = Len(old) + 1 /\ Len(old) \in Nat
          /\ \A i \in 1 .. Len(old) : known[n][i] = old[i]
          /\ known[n][Len(old) + 1] = found[n]
      BY <2>a, <2>b, <3>1
    <3>5. ASSUME NEW i \in 1 .. Len(known[n]) PROVE \E j \in 1 .. n : known[n][i] = found[j]
      <4>1. CASE i = Len(old) + 1
        BY <3>4, <4>1
      <4>2. CASE i \in 1 .. Len(old)
        <5>1. PICK j \in 1 .. n - 1 : old[i] = found[j]
          BY <2>d, <4>2
        <5> QED
          BY <3>4, <4>2, <5>1
      <4> QED
        BY <3>4, <4>1, <4>2
    <3>6. ASSUME NEW j \in 1 .. n PROVE \E i \in 1 .. Len(known[n]) : known[n][i].value = found[j].value
      <4>1. CASE j = n
        BY <3>4, <4>1
      <4>2. CASE j # n
        <5>1. PICK i \in 1 .. Len(old) : old[i].value = found[j].value
          BY <2>d, <4>2
        <5> QED
          BY <3>4, <5>1
      <4> QED
        BY <4>1, <4>2
    <3>7. Holds(n)
      BY <3>2, <3>5, <3>6
    <3> QED
      BY <2>a, <3>7
  <2> QED
    BY <2>1, <2>2
<1> HIDE DEF P
<1>5. \A n \in 0 .. Len(found) : n \in P
  BY <1>2, <1>3, <1>4, UpTo
<1>6. Len(found) \in P
  BY <1>2, <1>5
<1>7. Holds(Len(found))
  BY <1>6 DEF P
<1>8. known[Len(found)] \in Seq(T)
  BY <1>1, <1>2
<1> HIDE DEF Holds
<1> QED
  BY <1>1a, <1>7, <1>8 DEF Holds

\* As many values as there are places.
LEMMA DistinctValues ==
  ASSUME NEW T, NEW s \in Seq(T), Distinct(s)
  PROVE  Cardinality({s[i].value : i \in 1 .. Len(s)}) = Len(s)
<1> DEFINE V == {s[i].value : i \in 1 .. Len(s)}
           f == [i \in 1 .. Len(s) |-> s[i].value]
<1>1. f \in Bijection(1 .. Len(s), V)
  <2>1. f \in [1 .. Len(s) -> V]
    OBVIOUS
  <2>2. \A i, j \in 1 .. Len(s) : f[i] = f[j] => i = j
    BY DEF Distinct
  <2>3. \A v \in V : \E i \in 1 .. Len(s) : f[i] = v
    OBVIOUS
  <2> HIDE DEF f, V
  <2> QED
    BY <2>1, <2>2, <2>3 DEF Bijection, Injection, Surjection, IsInjective
<1>2. ExistsBijection(1 .. Len(s), V)
  BY <1>1 DEF ExistsBijection
<1>3. Len(s) \in Nat
  OBVIOUS
<1> HIDE DEF V
<1>4. Cardinality(V) = Len(s)
  BY <1>2, <1>3, FS_CountingElements
<1> QED
  BY <1>4 DEF V

\* Two sequences of distinct values that have none in common.
LEMMA DistinctConcat ==
  ASSUME NEW T, NEW s \in Seq(T), NEW t \in Seq(T), Distinct(s), Distinct(t),
         \A i \in 1 .. Len(s), j \in 1 .. Len(t) : s[i].value # t[j].value
  PROVE  Distinct(s \o t)
<1> DEFINE both == s \o t
<1>1. /\ Len(s) \in Nat /\ Len(t) \in Nat /\ Len(both) = Len(s) + Len(t)
      /\ \A i \in 1 .. Len(both) : both[i] = IF i <= Len(s) THEN s[i] ELSE t[i - Len(s)]
  OBVIOUS
<1> HIDE DEF both
<1> SUFFICES ASSUME NEW i \in 1 .. Len(both), NEW j \in 1 .. Len(both), both[i].value = both[j].value
             PROVE  i = j
  BY DEF Distinct, both
<1>2. i \in 1 .. Len(s) \/ i - Len(s) \in 1 .. Len(t)
  BY <1>1
<1>3. j \in 1 .. Len(s) \/ j - Len(s) \in 1 .. Len(t)
  BY <1>1
<1>4. CASE i \in 1 .. Len(s) /\ j \in 1 .. Len(s)
  BY <1>1, <1>4 DEF Distinct
<1>5. CASE i \in 1 .. Len(s) /\ j - Len(s) \in 1 .. Len(t)
  BY <1>1, <1>5
<1>6. CASE i - Len(s) \in 1 .. Len(t) /\ j \in 1 .. Len(s)
  BY <1>1, <1>6
<1>7. CASE i - Len(s) \in 1 .. Len(t) /\ j - Len(s) \in 1 .. Len(t)
  <2>1. both[i] = t[i - Len(s)] /\ both[j] = t[j - Len(s)]
    BY <1>1, <1>7
  <2>2. i - Len(s) = j - Len(s)
    BY <1>7, <2>1 DEF Distinct
  <2> QED
    BY <1>1, <2>2
<1> QED
  BY <1>2, <1>3, <1>4, <1>5, <1>6, <1>7

\* What a registry is made from.
ObservablesOver(T, A) == {UrlObservable(l) : l \in T} \cup {FileObservable(a) : a \in A}

IsRegistryOf(known, T, links, A, attachments) ==
  /\ known \in Seq(ObservablesOver(T, A))
  /\ Distinct(known)
  /\ \A i \in 1 .. Len(known) :
       \/ \E j \in 1 .. Len(links) : known[i] = UrlObservable(links[j])
       \/ \E j \in 1 .. Len(attachments) :
            attachments[j].status = "ok" /\ known[i] = FileObservable(attachments[j])
  /\ \A j \in 1 .. Len(attachments) :
       attachments[j].status = "ok" =>
         \E i \in 1 .. Len(known) : known[i].value = FileObservable(attachments[j]).value

LEMMA BuiltFromTheMail ==
  ASSUME NEW T, NEW links \in Seq(T), NEW A, NEW attachments \in Seq(A)
  PROVE  IsRegistryOf(BuildObservables(links, attachments), T, links, A, attachments)
<1> DEFINE hashed == Hashed(attachments)
           O == ObservablesOver(T, A)
           found == UrlsOf(links) \o FilesOf(hashed)
           known == Registry(found)
<1>1. /\ hashed \in Seq(A)
      /\ \A i \in 1 .. Len(hashed) :
           \E j \in 1 .. Len(attachments) : attachments[j].status = "ok" /\ hashed[i] = attachments[j]
      /\ \A j \in 1 .. Len(attachments) : attachments[j].status = "ok" =>
           \E i \in 1 .. Len(hashed) : hashed[i] = attachments[j]
  <2> DEFINE S == {a \in ToSet(attachments) : a.status = "ok"}
  <2>1. \A j \in 1 .. Len(attachments) : attachments[j].status = "ok" <=> attachments[j] \in S
    BY DEF ToSet
  <2>2. hashed = Only(attachments, S)
    BY DEF Hashed
  <2> HIDE DEF S, hashed
  <2>3. /\ hashed \in Seq(A)
        /\ \A i \in 1 .. Len(hashed) : hashed[i] \in S /\ \E j \in 1 .. Len(attachments) : hashed[i] = attachments[j]
        /\ \A j \in 1 .. Len(attachments) :
             attachments[j] \in S => \E i \in 1 .. Len(hashed) : hashed[i] = attachments[j]
    BY <2>2, OnlyElements DEF IsSelection
  <2> QED
    BY <2>1, <2>3
<1> HIDE DEF hashed
<1> DEFINE u == UrlsOf(links)  v == FilesOf(hashed)
<1>2. UrlsOf(links) \in Seq(O) /\ Len(UrlsOf(links)) = Len(links)
      /\ \A i \in 1 .. Len(links) : UrlsOf(links)[i] = UrlObservable(links[i])
  BY DEF UrlsOf, ObservablesOver
<1>3. FilesOf(hashed) \in Seq(O) /\ Len(FilesOf(hashed)) = Len(hashed)
      /\ \A i \in 1 .. Len(hashed) : FilesOf(hashed)[i] = FileObservable(hashed[i])
  BY <1>1 DEF FilesOf, ObservablesOver
<1>a. u \in Seq(O) /\ Len(u) = Len(links) /\ v \in Seq(O) /\ Len(v) = Len(hashed) /\ found = u \o v
  BY <1>2, <1>3
<1> HIDE DEF O, u, v, found
<1>4. /\ found \in Seq(O) /\ Len(found) = Len(links) + Len(hashed)
      /\ Len(links) \in Nat /\ Len(hashed) \in Nat
      /\ \A i \in 1 .. Len(found) : found[i] = IF i <= Len(links) THEN u[i] ELSE v[i - Len(links)]
  <2>1. /\ u \o v \in Seq(O) /\ Len(u \o v) = Len(u) + Len(v)
        /\ \A i \in 1 .. Len(u) + Len(v) : (u \o v)[i] = IF i <= Len(u) THEN u[i] ELSE v[i - Len(u)]
    BY <1>a, ConcatProperties
  <2>2. Len(links) \in Nat /\ Len(hashed) \in Nat
    BY <1>1
  <2> QED
    BY <1>a, <2>1, <2>2
<1>5. /\ known \in Seq(O) /\ Distinct(known)
      /\ \A i \in 1 .. Len(known) : \E j \in 1 .. Len(found) : known[i] = found[j]
      /\ \A j \in 1 .. Len(found) : \E i \in 1 .. Len(known) : known[i].value = found[j].value
  BY <1>4, RegistryHolds
<1> HIDE DEF known
<1>6. ASSUME NEW i \in 1 .. Len(known)
      PROVE  \/ \E j \in 1 .. Len(links) : known[i] = UrlObservable(links[j])
             \/ \E j \in 1 .. Len(attachments) :
                  attachments[j].status = "ok" /\ known[i] = FileObservable(attachments[j])
  <2>1. PICK j \in 1 .. Len(found) : known[i] = found[j]
    BY <1>5
  <2>2. CASE j <= Len(links)
    <3>1. j \in 1 .. Len(links) /\ known[i] = UrlObservable(links[j])
      BY <1>2, <1>4, <2>1, <2>2 DEF u
    <3> QED
      BY <3>1
  <2>3. CASE ~(j <= Len(links))
    <3>a. j - Len(links) \in 1 .. Len(hashed) /\ known[i] = v[j - Len(links)]
      BY <1>4, <2>1, <2>3
    <3>1. j - Len(links) \in 1 .. Len(hashed) /\ known[i] = FileObservable(hashed[j - Len(links)])
      BY <1>3, <3>a DEF v
    <3> QED
      BY <1>1, <3>1
  <2> QED
    BY <2>2, <2>3
<1>7. ASSUME NEW j \in 1 .. Len(attachments), attachments[j].status = "ok"
      PROVE  \E i \in 1 .. Len(known) : known[i].value = FileObservable(attachments[j]).value
  <2>1. PICK k \in 1 .. Len(hashed) : hashed[k] = attachments[j]
    BY <1>1, <1>7
  <2> DEFINE m == Len(links) + k
  <2>b. m \in 1 .. Len(found) /\ ~(m <= Len(links)) /\ m - Len(links) = k
    BY <1>4
  <2>a. found[m] = v[k]
    BY <1>4, <2>b
  <2>2. Len(links) + k \in 1 .. Len(found) /\ found[Len(links) + k] = FileObservable(attachments[j])
    BY <1>3, <2>1, <2>a, <2>b DEF v
  <2> QED
    BY <1>5, <2>2
<1>8. BuildObservables(links, attachments) = known
  BY DEF BuildObservables, known, found, hashed, u, v
<1> QED
  BY <1>5, <1>6, <1>7, <1>8 DEF O, IsRegistryOf

\* A file is in the first bucket.
LEMMA BucketOfAFile ==
  ASSUME NEW links, NEW a
  PROVE  FileObservable(a).value[1] = "sha256" /\ Bucket(links, FileObservable(a)) = 0
<1> DEFINE o == FileObservable(a)
           refs == RefsOf(Eligible(links))
           mismatched == RefsOf({k \in Eligible(links) : k.mismatch})
<1>1. o.value[1] = "sha256" /\ o.ref[1] = "file"
  BY DEF FileObservable, FileRef
<1>2. \A ref \in refs \cup mismatched : ref[1] = "link"
  BY DEF RefsOf, LinkRef
<1> HIDE DEF o, refs, mismatched
<1>3. o.ref \notin refs /\ o.ref \notin mismatched
  BY <1>1, <1>2
<1>4. Bucket(links, o) = 0
  BY <1>1, <1>3 DEF Bucket, refs, mismatched
<1> QED
  BY <1>1, <1>4 DEF o

\* A URL that is looked up is that of a link someone may follow.
LEMMA BucketOfAUrl ==
  ASSUME NEW T, NEW links \in Seq(T), NEW l
  PROVE  /\ UrlObservable(l).value[1] = "url"
         /\ Bucket(links, UrlObservable(l)) \in {1, 2, 99}
         /\ Bucket(links, UrlObservable(l)) \in {1, 2} =>
              \E i \in 1 .. Len(links) : links[i].url = l.url /\ links[i].role # "remote_resource"
<1> DEFINE o == UrlObservable(l)
           refs == RefsOf(Eligible(links))
           mismatched == RefsOf({k \in Eligible(links) : k.mismatch})
<1>1. o.value[1] = "url" /\ o.ref = LinkRef(l)
  BY DEF UrlObservable
<1>2. mismatched \subseteq refs
  BY DEF RefsOf
<1>3. ASSUME LinkRef(l) \in refs
      PROVE  \E i \in 1 .. Len(links) : links[i].url = l.url /\ links[i].role # "remote_resource"
  <2>1. PICK k \in Eligible(links) : LinkRef(l) = LinkRef(k)
    BY <1>3 DEF RefsOf
  <2>2. k.url = l.url
    BY <2>1 DEF LinkRef
  <2>3. k \in ToSet(links) /\ k.role # "remote_resource"
    BY DEF Eligible
  <2> QED
    BY <2>2, <2>3 DEF ToSet
<1> HIDE DEF o, refs, mismatched
<1>4. Bucket(links, o) = IF o.ref \in mismatched THEN 1 ELSE IF o.ref \in refs \ mismatched THEN 2 ELSE 99
  BY <1>1 DEF Bucket, refs, mismatched
<1> QED
  BY <1>1, <1>2, <1>3, <1>4 DEF o

PlansFilesFirst(links, attachments, plan) ==
  LET planned == {plan[i].value : i \in 1 .. Len(plan)}
      files == {<<"sha256", a.sha256>> : a \in {attachments[i] :
                  i \in {j \in 1 .. Len(attachments) : attachments[j].status = "ok"}}}
      urls == {v \in planned : v[1] = "url"}
  IN  /\ Cardinality(planned) = Len(plan)
      /\ \A v \in urls : \E i \in 1 .. Len(links) :
           links[i].url = v[2] /\ links[i].role # "remote_resource"
      /\ (files \subseteq planned \/ urls = {})
      /\ \A v \in files : v \in planned \/ Len(plan) = max_targets

\* What a plan made from the registries of a mail gives its places to.
LEMMA PlanHolds ==
  ASSUME NEW T, NEW links \in Seq(T), NEW A, NEW attachments \in Seq(A),
         NEW plan, plan = plan_vt_targets(links, BuildObservables(links, attachments))
  PROVE  PlansFilesFirst(links, attachments, plan)
<1> DEFINE O == ObservablesOver(T, A)
           known == BuildObservables(links, attachments)
           in(r) == {o \in ToSet(known) : Bucket(links, o) = r}
           b0 == Only(known, in(0))
           b1 == Only(known, in(1))
           b2 == Only(known, in(2))
           ranked == Ranked(links, known)
           m == Least(Len(ranked), max_targets)
           planned == {plan[i].value : i \in 1 .. Len(plan)}
           files == {<<"sha256", a.sha256>> : a \in {attachments[i] :
                       i \in {j \in 1 .. Len(attachments) : attachments[j].status = "ok"}}}
           urls == {v \in planned : v[1] = "url"}
<1>1. /\ known \in Seq(O) /\ Distinct(known)
      /\ \A i \in 1 .. Len(known) :
           \/ \E j \in 1 .. Len(links) : known[i] = UrlObservable(links[j])
           \/ \E j \in 1 .. Len(attachments) :
                attachments[j].status = "ok" /\ known[i] = FileObservable(attachments[j])
      /\ \A j \in 1 .. Len(attachments) : attachments[j].status = "ok" =>
           \E i \in 1 .. Len(known) : known[i].value = FileObservable(attachments[j]).value
  <2> HIDE DEF b0, b1, b2, ranked, m, planned, files, urls
  <2>1. IsRegistryOf(known, T, links, A, attachments)
    BY BuiltFromTheMail
  <2> QED
    BY <2>1 DEF IsRegistryOf
<1>2. ranked = (b0 \o b1) \o b2 /\ plan = SubSeq(ranked, 1, m)
  BY DEF Ranked, plan_vt_targets
<1> HIDE DEF known, O, ranked, m
\* The buckets: their elements are those of the registry, of that rank.
<1> DEFINE I0 == in(0)  I1 == in(1)  I2 == in(2)
<1>a. \A j \in 1 .. Len(known) :
        /\ known[j] \in I0 <=> Bucket(links, known[j]) = 0
        /\ known[j] \in I1 <=> Bucket(links, known[j]) = 1
        /\ known[j] \in I2 <=> Bucket(links, known[j]) = 2
  <2>1. \A j \in 1 .. Len(known) : known[j] \in ToSet(known)
    BY <1>1 DEF ToSet
  <2> HIDE DEF b0, b1, b2
  <2> QED
    BY <2>1
<1>b. b0 = Only(known, I0) /\ b1 = Only(known, I1) /\ b2 = Only(known, I2)
  OBVIOUS
<1> HIDE DEF b0, b1, b2, I0, I1, I2
<1>c. IsSelection(b0, O, known, I0) /\ IsSelection(b1, O, known, I1) /\ IsSelection(b2, O, known, I2)
  BY <1>1, <1>b, OnlyElements
<1>4. /\ \A i \in 1 .. Len(b0) : \E j \in 1 .. Len(known) : b0[i] = known[j] /\ Bucket(links, known[j]) = 0
      /\ \A i \in 1 .. Len(b1) : \E j \in 1 .. Len(known) : b1[i] = known[j] /\ Bucket(links, known[j]) = 1
      /\ \A i \in 1 .. Len(b2) : \E j \in 1 .. Len(known) : b2[i] = known[j] /\ Bucket(links, known[j]) = 2
  <2>1. \A i \in 1 .. Len(b0) : b0[i] \in I0 /\ \E j \in 1 .. Len(known) : b0[i] = known[j]
    BY <1>c DEF IsSelection
  <2>2. \A i \in 1 .. Len(b1) : b1[i] \in I1 /\ \E j \in 1 .. Len(known) : b1[i] = known[j]
    BY <1>c DEF IsSelection
  <2>3. \A i \in 1 .. Len(b2) : b2[i] \in I2 /\ \E j \in 1 .. Len(known) : b2[i] = known[j]
    BY <1>c DEF IsSelection
  <2>4. \A i \in 1 .. Len(b0) : \E j \in 1 .. Len(known) : b0[i] = known[j] /\ Bucket(links, known[j]) = 0
    BY <1>a, <2>1
  <2>5. \A i \in 1 .. Len(b1) : \E j \in 1 .. Len(known) : b1[i] = known[j] /\ Bucket(links, known[j]) = 1
    BY <1>a, <2>2
  <2>6. \A i \in 1 .. Len(b2) : \E j \in 1 .. Len(known) : b2[i] = known[j] /\ Bucket(links, known[j]) = 2
    BY <1>a, <2>3
  <2> QED
    BY <2>4, <2>5, <2>6
<1>5. \A j \in 1 .. Len(known) : Bucket(links, known[j]) = 0 => \E i \in 1 .. Len(b0) : b0[i] = known[j]
  <2>1. \A j \in 1 .. Len(known) : known[j] \in I0 => \E i \in 1 .. Len(b0) : b0[i] = known[j]
    BY <1>c DEF IsSelection
  <2> QED
    BY <1>a, <2>1
<1>3. /\ b0 \in Seq(O) /\ b1 \in Seq(O) /\ b2 \in Seq(O)
      /\ Distinct(b0) /\ Distinct(b1) /\ Distinct(b2)
  BY <1>1, <1>b, <1>c, OnlyDistinct DEF IsSelection
\* The order: files first, then URLs.
<1> DEFINE c == b0 \o b1
<1>6. /\ c \in Seq(O) /\ Len(c) = Len(b0) + Len(b1)
      /\ \A i \in 1 .. Len(c) : c[i] = IF i <= Len(b0) THEN b0[i] ELSE b1[i - Len(b0)]
  BY <1>3, ConcatProperties
<1> HIDE DEF c
<1>7. /\ ranked \in Seq(O) /\ Len(ranked) = Len(c) + Len(b2)
      /\ \A i \in 1 .. Len(ranked) : ranked[i] = IF i <= Len(c) THEN c[i] ELSE b2[i - Len(c)]
  BY <1>2, <1>3, <1>6, ConcatProperties DEF c
<1>8. Len(b0) \in Nat /\ Len(b1) \in Nat /\ Len(b2) \in Nat
  BY <1>3
<1>9. \A i \in 1 .. Len(b0) : i \in 1 .. Len(ranked) /\ ranked[i] = b0[i]
  BY <1>6, <1>7, <1>8
<1>10. ASSUME NEW i \in 1 .. Len(ranked), ~(i <= Len(b0))
       PROVE  \E j \in 1 .. Len(known) : ranked[i] = known[j] /\ Bucket(links, known[j]) \in {1, 2}
  <2>1. CASE i <= Len(c)
    <3>1. i - Len(b0) \in 1 .. Len(b1) /\ ranked[i] = b1[i - Len(b0)]
      BY <1>6, <1>7, <1>8, <1>10, <2>1
    <3> QED
      BY <1>4, <3>1
  <2>2. CASE ~(i <= Len(c))
    <3>1. i - Len(c) \in 1 .. Len(b2) /\ ranked[i] = b2[i - Len(c)]
      BY <1>6, <1>7, <1>8, <1>10, <2>2
    <3> QED
      BY <1>4, <3>1
  <2> QED
    BY <2>1, <2>2
\* Each value comes once.
<1>11. \A i, j \in 1 .. Len(known) : known[i].value = known[j].value => Bucket(links, known[i]) = Bucket(links, known[j])
  BY <1>1 DEF Distinct
<1>12. Distinct(c)
  <2>a. ASSUME NEW i \in 1 .. Len(b0), NEW j \in 1 .. Len(b1) PROVE b0[i].value # b1[j].value
    <3>1. PICK p \in 1 .. Len(known) : b0[i] = known[p] /\ Bucket(links, known[p]) = 0
      BY <1>4
    <3>2. PICK q \in 1 .. Len(known) : b1[j] = known[q] /\ Bucket(links, known[q]) = 1
      BY <1>4
    <3>3. Bucket(links, known[p]) # Bucket(links, known[q])
      BY <3>1, <3>2
    <3> QED
      BY <1>11, <3>1, <3>2, <3>3
  <2>1. \A i \in 1 .. Len(b0), j \in 1 .. Len(b1) : b0[i].value # b1[j].value
    BY <2>a
  <2> QED
    BY <1>3, <2>1, DistinctConcat DEF c
<1>13. Distinct(ranked)
  <2>1. ASSUME NEW i \in 1 .. Len(c), NEW j \in 1 .. Len(b2) PROVE c[i].value # b2[j].value
    <3>1. PICK k \in 1 .. Len(known) : c[i] = known[k] /\ Bucket(links, known[k]) # 2
      <4>1. CASE i <= Len(b0)
        <5>1. i \in 1 .. Len(b0) /\ c[i] = b0[i]
          BY <1>6, <1>8, <4>1
        <5>2. PICK k \in 1 .. Len(known) : b0[i] = known[k] /\ Bucket(links, known[k]) = 0
          BY <1>4, <5>1
        <5>3. Bucket(links, known[k]) # 2
          BY <5>2
        <5> QED
          BY <5>1, <5>2, <5>3
      <4>2. CASE ~(i <= Len(b0))
        <5>1. i - Len(b0) \in 1 .. Len(b1) /\ c[i] = b1[i - Len(b0)]
          BY <1>6, <1>8, <4>2
        <5>2. PICK k \in 1 .. Len(known) : b1[i - Len(b0)] = known[k] /\ Bucket(links, known[k]) = 1
          BY <1>4, <5>1
        <5>3. Bucket(links, known[k]) # 2
          BY <5>2
        <5> QED
          BY <5>1, <5>2, <5>3
      <4> QED
        BY <4>1, <4>2
    <3>2. PICK q \in 1 .. Len(known) : b2[j] = known[q] /\ Bucket(links, known[q]) = 2
      BY <1>4
    <3>3. Bucket(links, known[k]) # Bucket(links, known[q])
      BY <3>1, <3>2
    <3> QED
      BY <1>11, <3>1, <3>2, <3>3
  <2>2. \A i \in 1 .. Len(c), j \in 1 .. Len(b2) : c[i].value # b2[j].value
    BY <2>1
  <2> QED
    BY <1>2, <1>3, <1>6, <1>12, <2>2, DistinctConcat DEF c
\* The plan: as much of it as the limit lets through.
<1>14. /\ Len(ranked) \in Nat /\ m \in 0 .. Len(ranked)
       /\ m = Len(ranked) \/ m = max_targets
  BY <1>7, TargetsAssumption DEF m, Least
<1>15. /\ plan \in Seq(O) /\ Len(plan) = m
       /\ \A i \in 1 .. m : plan[i] = ranked[i]
  BY <1>2, <1>7, <1>14, SubSeqProperties
<1>16. Distinct(plan)
  BY <1>13, <1>14, <1>15 DEF Distinct
<1>17. Cardinality(planned) = Len(plan)
  BY <1>15, <1>16, DistinctValues
\* Which of it are files.
<1>d. ASSUME NEW k \in 1 .. Len(known)
      PROVE  \/ known[k].value[1] = "sha256" /\ Bucket(links, known[k]) = 0
             \/ /\ \E n \in 1 .. Len(links) : known[k] = UrlObservable(links[n])
                /\ known[k].value[1] = "url" /\ Bucket(links, known[k]) \in {1, 2, 99}
  <2>1. CASE \E j \in 1 .. Len(links) : known[k] = UrlObservable(links[j])
    <3>1. PICK j \in 1 .. Len(links) : known[k] = UrlObservable(links[j])
      BY <2>1
    <3>2. UrlObservable(links[j]).value[1] = "url" /\ Bucket(links, UrlObservable(links[j])) \in {1, 2, 99}
      BY BucketOfAUrl
    <3> QED
      BY <3>1, <3>2
  <2>2. CASE \E j \in 1 .. Len(attachments) : known[k] = FileObservable(attachments[j])
    BY <2>2, BucketOfAFile
  <2> QED
    BY <1>1, <2>1, <2>2
<1>18. \A i \in 1 .. Len(b0) : b0[i].value[1] # "url"
  <2> SUFFICES ASSUME NEW i \in 1 .. Len(b0) PROVE b0[i].value[1] # "url"
    OBVIOUS
  <2>1. PICK k \in 1 .. Len(known) : b0[i] = known[k] /\ Bucket(links, known[k]) = 0
    BY <1>4
  <2>2. known[k].value[1] = "sha256"
    BY <1>d, <2>1
  <2> QED
    BY <2>1, <2>2
<1>19. \A v \in files : \E i \in 1 .. Len(b0) : b0[i].value = v
  <2> SUFFICES ASSUME NEW j \in 1 .. Len(attachments), attachments[j].status = "ok"
               PROVE  \E i \in 1 .. Len(b0) : b0[i].value = <<"sha256", attachments[j].sha256>>
    OBVIOUS
  <2>1. PICK k \in 1 .. Len(known) : known[k].value = FileObservable(attachments[j]).value
    BY <1>1
  <2>2. FileObservable(attachments[j]).value = <<"sha256", attachments[j].sha256>>
    BY DEF FileObservable
  <2>3. known[k].value[1] = "sha256"
    BY <2>1, BucketOfAFile
  <2>4. Bucket(links, known[k]) = 0
    BY <1>d, <2>3
  <2> QED
    BY <1>5, <2>1, <2>2, <2>4
<1>20. ASSUME NEW v \in urls
       PROVE  /\ \E i \in 1 .. Len(links) : links[i].url = v[2] /\ links[i].role # "remote_resource"
              /\ Len(b0) < m
  <2>1. PICK i \in 1 .. m : plan[i].value = v /\ v[1] = "url" /\ ranked[i].value = v /\ i \in 1 .. Len(ranked)
    BY <1>14, <1>15, <1>20
  <2>2. ~(i <= Len(b0))
    BY <1>8, <1>9, <1>18, <2>1
  <2>3. PICK j \in 1 .. Len(known) : ranked[i] = known[j] /\ Bucket(links, known[j]) \in {1, 2}
    BY <1>10, <2>1, <2>2
  <2>4. PICK k \in 1 .. Len(links) : known[j] = UrlObservable(links[k])
    BY <1>d, <2>3
  <2>5. v[2] = links[k].url
    BY <2>1, <2>3, <2>4 DEF UrlObservable
  <2>6. \E n \in 1 .. Len(links) : links[n].url = links[k].url /\ links[n].role # "remote_resource"
    <3>1. Bucket(links, UrlObservable(links[k])) \in {1, 2}
      BY <2>3, <2>4
    <3> DEFINE l == links[k]
    <3>2. Bucket(links, UrlObservable(l)) \in {1, 2} =>
            \E n \in 1 .. Len(links) : links[n].url = l.url /\ links[n].role # "remote_resource"
      <4> HIDE DEF l
      <4> QED
        BY BucketOfAUrl
    <3> QED
      BY <3>1, <3>2
  <2>7. Len(b0) < m
    BY <1>8, <1>14, <2>1, <2>2
  <2> QED
    BY <2>5, <2>6, <2>7
<1>21. Len(b0) <= m => files \subseteq planned
  <2> SUFFICES ASSUME Len(b0) <= m, NEW v \in files PROVE v \in planned
    OBVIOUS
  <2>1. PICK i \in 1 .. Len(b0) : b0[i].value = v
    BY <1>19
  <2>2. i \in 1 .. Len(plan) /\ plan[i].value = v
    BY <1>8, <1>9, <1>14, <1>15, <2>1
  <2> QED
    BY <2>2
<1>22. \A v \in files : v \in planned \/ Len(plan) = max_targets
  <2>1. CASE m = max_targets
    BY <1>15, <2>1
  <2>2. CASE m = Len(ranked)
    <3>1. Len(b0) <= m
      BY <1>6, <1>7, <1>8, <2>2
    <3> QED
      BY <1>21, <3>1
  <2> QED
    BY <1>14, <2>1, <2>2
<1>23. files \subseteq planned \/ urls = {}
  <2>1. CASE urls = {}
    BY <2>1
  <2>2. CASE urls # {}
    <3>1. Len(b0) < m
      BY <1>20, <2>2
    <3> QED
      BY <1>8, <1>14, <1>21, <3>1
  <2> QED
    BY <2>1, <2>2
<1> QED
  BY <1>17, <1>20, <1>22, <1>23 DEF PlansFilesFirst

-----------------------------------------------------------------------------
(***************************************************************************)
(* Sums.                                                                   *)
(***************************************************************************)
Sums(numbers) ==
  {sum \in [0 .. Len(numbers) -> Nat] :
     sum[0] = 0 /\ \A n \in 1 .. Len(numbers) : sum[n] = sum[n - 1] + numbers[n]}

\* The sum of each prefix.
LEMMA TotalPrefixes ==
  ASSUME NEW numbers \in Seq(Nat)
  PROVE  \E sum \in Sums(numbers) : Total(numbers) = sum[Len(numbers)]
<1> DEFINE N == Len(numbers)
           D == Nat
           base == 0
           step(n, d) == d + numbers[n]
           g == [n \in 1 .. N |-> [d \in D |-> step(n, d)]]
           K == CHOOSE f : f = [n \in 0 .. N |-> IF n = 0 THEN 0 ELSE f[n - 1] + numbers[n]]
<1>1. Total(numbers) = K[N]
  BY DEF Total
<1>2. N \in Nat /\ base \in D /\ \A n \in 1 .. N, d \in D : step(n, d) \in D
  OBVIOUS
<1> HIDE DEF N, D, base, step
<1>3. g \in [1 .. N -> [D -> D]] /\ \A n \in 1 .. N, d \in D : g[n][d] = step(n, d)
  BY <1>2
<1> HIDE DEF g
<1>4. PICK f : f \in Runs(N, D, base, g)
  BY <1>2, <1>3, Recursion
<1>5. f = [n \in 0 .. N |-> IF n = 0 THEN base ELSE step(n, f[n - 1])]
  BY <1>2, <1>3, <1>4 DEF Runs
<1>6. K = [n \in 0 .. N |-> IF n = 0 THEN base ELSE step(n, K[n - 1])]
  BY <1>5 DEF base, step
<1> HIDE DEF K
<1>7. K \in Runs(N, D, base, g)
  <2>1. K = [n \in 0 .. N |-> K[n]] /\ K[0] = base
    BY <1>2, <1>6
  <2>2. \A n \in 1 .. N : K[n - 1] \in D => K[n] = g[n][K[n - 1]]
    BY <1>2, <1>3, <1>6
  <2> QED
    BY <1>2, <1>3, <2>1, <2>2, RecursionIsRun
<1>8. \A n \in 1 .. N : K[n] = step(n, K[n - 1])
  BY <1>2, <1>6
<1>9. K \in Sums(numbers)
  BY <1>7, <1>8 DEF Runs, N, D, base, step, Sums
<1> QED
  BY <1>1, <1>9 DEF N

\* A sum of numbers is a number; that of one more number is as much more.
LEMMA TotalIsANumber ==
  ASSUME NEW numbers \in Seq(Nat)
  PROVE  Total(numbers) \in Nat
BY TotalPrefixes DEF Sums

LEMMA TotalOfNone == Total(<< >>) = 0
<1>1. << >> \in Seq(Nat) /\ Len(<< >>) = 0
  OBVIOUS
<1> QED
  BY <1>1, TotalPrefixes DEF Sums

LEMMA TotalOfOneMore ==
  ASSUME NEW s \in Seq(Nat), NEW x \in Nat
  PROVE  Total(Append(s, x)) = Total(s) + x
<1> DEFINE longer == Append(s, x)
<1>1. /\ longer \in Seq(Nat) /\ Len(longer) = Len(s) + 1 /\ Len(s) \in Nat
      /\ \A i \in 1 .. Len(s) : longer[i] = s[i]
      /\ longer[Len(s) + 1] = x
  OBVIOUS
<1> HIDE DEF longer
<1>2. PICK k1 \in Sums(s) : Total(s) = k1[Len(s)]
  BY TotalPrefixes
<1>3. PICK k2 \in Sums(longer) : Total(longer) = k2[Len(longer)]
  BY <1>1, TotalPrefixes
<1>4. k1[0] = 0 /\ \A n \in 1 .. Len(s) : k1[n] = k1[n - 1] + s[n]
  BY DEF Sums
<1>5. k2[0] = 0 /\ \A n \in 1 .. Len(longer) : k2[n] = k2[n - 1] + longer[n]
  BY DEF Sums
<1> DEFINE P == {n \in 0 .. Len(s) : k1[n] = k2[n]}
<1>6. 0 \in P
  BY <1>1, <1>4, <1>5
<1>7. ASSUME NEW n \in 1 .. Len(s), n - 1 \in P PROVE n \in P
  <2>1. n \in 1 .. Len(longer) /\ longer[n] = s[n] /\ k1[n - 1] = k2[n - 1] /\ n \in 0 .. Len(s)
    BY <1>1, <1>7
  <2> QED
    BY <1>4, <1>5, <2>1
<1> HIDE DEF P
<1>8. \A n \in 0 .. Len(s) : n \in P
  BY <1>1, <1>6, <1>7, UpTo
<1>9. k1[Len(s)] = k2[Len(s)]
  BY <1>1, <1>8 DEF P
<1>10. k2[Len(s) + 1] = k2[Len(s)] + x
  <2>1. Len(s) + 1 \in 1 .. Len(longer) /\ (Len(s) + 1) - 1 = Len(s)
    BY <1>1
  <2> QED
    BY <1>1, <1>5, <2>1
<1> QED
  BY <1>1, <1>2, <1>3, <1>9, <1>10 DEF longer

-----------------------------------------------------------------------------
(***************************************************************************)
(* The parts of a mail and the state of the walk.                          *)
(***************************************************************************)
PartLinks == UNION {ToSet(part.links) : part \in Parts}
LinkSet == {LinkOf(id, l) : id \in Nat, l \in PartLinks}
AttachmentSet == [part : Nat, status : {"ok", "error", "over_limit"}, sha256 : Nat]
ImageSet == [part : Nat, index : Nat, status : {"metadata_only", "over_limit", "unavailable"},
             links : Seq(PartLinks), sha256 : Nat]
TextSet == [part : Nat, size : Nat, decode_defect : BOOLEAN]
LimitSet == {"max_decoded_bytes_per_part", "max_decoded_bytes_total", "max_attachments",
             "max_html_embedded_images", "max_mime_depth", "max_mime_parts"}
DefectSet == {"over_limit", "broken_transfer", "not_accepted", "undecodable_image",
              "embedded_message", "unhandled_leaf"}
WalkSet == [part_count : Nat, decoded_total : Nat, limits_hit : SUBSET LimitSet,
            defects : SUBSET (Nat \X DefectSet), attachments : Seq(AttachmentSet),
            images : Seq(ImageSet), texts : Seq(TextSet), htmls : Seq(TextSet),
            links : Seq(LinkSet), html_images : Nat, aborted : BOOLEAN]

\* A part of a mail, and the limits of the parser.
LEMMA PartTyped ==
  ASSUME NEW part \in Parts
  PROVE  /\ part = [Leaf(part.kind, part.size, part.broken, part.links, part.blobs)
                     EXCEPT !.lost = part.lost]
         /\ part.size \in Nat /\ part.links \in Seq(PartLinks) /\ part.blobs \in Seq(Nat)
         /\ part.lost # 0 => part.broken = "transfer"
         /\ part.lost # 0 => part.kind \notin {"multipart", "rfc822"}
         /\ part.kind \in {"attachment", "image", "text", "html", "other", "multipart", "rfc822"}
<1>1. part.links \in Seq(ToSet(part.links))
  <2>1. CASE part \in Leaves
    BY <2>1, LeavesAssumption
  <2>2. CASE part \in {Container("multipart"), Container("rfc822")}
    <3>1. part.links = << >>
      BY <2>2 DEF Container, Leaf
    <3> QED
      BY <3>1, EmptySeq
  <2> QED
    BY <2>1, <2>2 DEF Parts
<1>2. part.links \in Seq(PartLinks)
  <2>1. ToSet(part.links) \subseteq PartLinks
    BY DEF PartLinks
  <2> QED
    BY <1>1, <2>1, SeqMonotonic
<1>3. CASE part \in Leaves
  BY <1>2, <1>3, LeavesAssumption
<1>4. CASE part \in {Container("multipart"), Container("rfc822")}
  BY <1>2, <1>4 DEF Container, Leaf
<1> QED
  BY <1>3, <1>4 DEF Parts

LEMMA LimitsTyped ==
  /\ max_mime_parts \in Nat /\ max_mime_depth \in Nat /\ max_attachments \in Nat \ {0}
  /\ max_decoded_bytes_per_part \in Nat /\ max_decoded_bytes_total \in Nat
  /\ MAX_HTML_EMBEDDED_IMAGES \in Nat
BY ParseLimitsAssumption

\* What the walk has vouched for, with `due` of what was charged still to be
\* kept, is within the limits; and a walk that was stopped says by what.
Bounded(w, due) ==
  /\ \A i \in 1 .. Len(w.texts) : ~TooBig(w.texts[i].size)
  /\ \A i \in 1 .. Len(w.htmls) : ~TooBig(w.htmls[i].size)
  /\ \A i \in 1 .. Len(w.attachments) : ~TooBig(w.attachments[i].sha256)
  /\ \A i \in 1 .. Len(w.images) : ~TooBig(w.images[i].sha256)
  /\ VouchedTotal(w) + due <= max_decoded_bytes_total
  /\ Len(w.attachments) <= max_attachments
  /\ w.html_images <= MAX_HTML_EMBEDDED_IMAGES
  /\ ~w.aborted =>
       /\ VouchedTotal(w) + due <= w.decoded_total
       /\ w.decoded_total <= max_decoded_bytes_total
       /\ Len(w.attachments) < max_attachments

SoundWalk(w, due) ==
  w \in WalkSet /\ Bounded(w, due) /\ (w.aborted => w.limits_hit # {})

\* What is kept stays, and so does what is announced.
Grows(w, c) ==
  /\ ToSet(w.texts) \subseteq ToSet(c.texts) /\ ToSet(w.htmls) \subseteq ToSet(c.htmls)
  /\ ToSet(w.attachments) \subseteq ToSet(c.attachments)
  /\ ToSet(w.images) \subseteq ToSet(c.images) /\ ToSet(w.links) \subseteq ToSet(c.links)
  /\ w.defects \subseteq c.defects /\ w.limits_hit \subseteq c.limits_hit
  /\ c.part_count = w.part_count

\* A charge, a defect or a limit leaves what is kept alone.
Marks(w, c) ==
  /\ c \in WalkSet
  /\ c.texts = w.texts /\ c.htmls = w.htmls /\ c.attachments = w.attachments
  /\ c.images = w.images /\ c.links = w.links /\ c.html_images = w.html_images
  /\ c.part_count = w.part_count
  /\ w.defects \subseteq c.defects /\ w.limits_hit \subseteq c.limits_hit
  /\ w.aborted => c.aborted
  /\ c.aborted => w.aborted \/ c.limits_hit # {}

\* Marks follow one another; and a mark makes no record disappear.
LEMMA MarksChain ==
  ASSUME NEW w, NEW c, NEW d, Marks(w, c), Marks(c, d)
  PROVE  Marks(w, d)
<1>1. c.limits_hit # {} => d.limits_hit # {}
  BY DEF Marks
<1> QED
  BY <1>1 DEF Marks

LEMMA MarksGrow ==
  ASSUME NEW w, NEW c, Marks(w, c)
  PROVE  Grows(w, c)
BY DEF Marks, Grows

LEMMA GrowsChain ==
  ASSUME NEW w, NEW c, NEW d, Grows(w, c), Grows(c, d)
  PROVE  Grows(w, d)
BY DEF Grows

LEMMA HitMarks ==
  ASSUME NEW w \in WalkSet, NEW limit \in LimitSet
  PROVE  /\ Marks(w, Hit(w, limit)) /\ Hit(w, limit).limits_hit # {}
         /\ Hit(w, limit).decoded_total = w.decoded_total
         /\ Hit(w, limit).aborted = w.aborted
         /\ Hit(w, limit).defects = w.defects
BY DEF Hit, Marks, WalkSet

LEMMA AbortMarks ==
  ASSUME NEW w \in WalkSet, NEW limit \in LimitSet
  PROVE  /\ Marks(w, Abort(w, limit)) /\ Abort(w, limit).limits_hit # {}
         /\ Abort(w, limit).decoded_total = w.decoded_total
         /\ Abort(w, limit).aborted
BY DEF Abort, Hit, Marks, WalkSet

LEMMA DefectMarks ==
  ASSUME NEW w \in WalkSet, NEW id \in Nat, NEW what \in DefectSet
  PROVE  /\ Marks(w, Defect(w, id, what))
         /\ <<id, what>> \in Defect(w, id, what).defects
         /\ Defect(w, id, what).decoded_total = w.decoded_total
         /\ Defect(w, id, what).aborted = w.aborted
         /\ Defect(w, id, what).limits_hit = w.limits_hit
<1> DEFINE found == w.defects \cup {<<id, what>>}
<1>1. found \in SUBSET (Nat \X DefectSet) /\ w.defects \subseteq found /\ <<id, what>> \in found
  BY DEF WalkSet
<1>2. Defect(w, id, what) = [w EXCEPT !.defects = found]
  BY DEF Defect
<1> HIDE DEF found
<1>3. Defect(w, id, what) \in WalkSet /\ Defect(w, id, what).defects = found
  BY <1>1, <1>2 DEF WalkSet
<1>4. /\ Defect(w, id, what).decoded_total = w.decoded_total
      /\ Defect(w, id, what).aborted = w.aborted
      /\ Defect(w, id, what).limits_hit = w.limits_hit
      /\ Defect(w, id, what).texts = w.texts /\ Defect(w, id, what).htmls = w.htmls
      /\ Defect(w, id, what).attachments = w.attachments
      /\ Defect(w, id, what).images = w.images /\ Defect(w, id, what).links = w.links
      /\ Defect(w, id, what).html_images = w.html_images
      /\ Defect(w, id, what).part_count = w.part_count
  BY <1>2 DEF WalkSet
<1> QED
  BY <1>1, <1>3, <1>4 DEF Marks

\* After a charge the walk goes on only when the total allows it.
Charges(w, c, size) ==
  /\ Marks(w, c)
  /\ c.decoded_total = w.decoded_total + size
  /\ ~c.aborted => c.decoded_total <= max_decoded_bytes_total

\* A charge, and the charge of a part against both limits.
LEMMA CountCharges ==
  ASSUME NEW w \in WalkSet, NEW size \in Nat
  PROVE  Charges(w, CountDecoded(w, size), size)
<1> DEFINE sum == w.decoded_total + size
           charged == [w EXCEPT !.decoded_total = sum]
<1>1. sum \in Nat
  BY DEF WalkSet
<1>2. CountDecoded(w, size) = IF charged.decoded_total > max_decoded_bytes_total
                              THEN Abort(charged, "max_decoded_bytes_total") ELSE charged
  BY DEF CountDecoded
<1> HIDE DEF sum
<1>3. /\ charged \in WalkSet /\ charged.decoded_total = sum
      /\ charged.texts = w.texts /\ charged.htmls = w.htmls
      /\ charged.attachments = w.attachments /\ charged.images = w.images
      /\ charged.links = w.links /\ charged.html_images = w.html_images
      /\ charged.part_count = w.part_count /\ charged.defects = w.defects
      /\ charged.limits_hit = w.limits_hit /\ charged.aborted = w.aborted
  BY <1>1 DEF WalkSet
<1> HIDE DEF charged
<1>4. Marks(w, charged)
  BY <1>3 DEF Marks
<1>5. CASE charged.decoded_total > max_decoded_bytes_total
  <2> DEFINE stopped == Abort(charged, "max_decoded_bytes_total")
  <2>1. "max_decoded_bytes_total" \in LimitSet
    BY DEF LimitSet
  <2>2. Marks(charged, stopped) /\ stopped.decoded_total = charged.decoded_total /\ stopped.aborted
    BY <1>3, <2>1, AbortMarks
  <2>3. CountDecoded(w, size) = stopped
    BY <1>2, <1>5
  <2> HIDE DEF stopped
  <2>4. Marks(w, stopped)
    BY <1>4, <2>2, MarksChain
  <2> QED
    BY <1>3, <2>2, <2>3, <2>4 DEF Charges, sum
<1>6. CASE ~(charged.decoded_total > max_decoded_bytes_total)
  <2>1. CountDecoded(w, size) = charged
    BY <1>2, <1>6
  <2>2. charged.decoded_total <= max_decoded_bytes_total
    BY <1>1, <1>3, <1>6, LimitsTyped
  <2> QED
    BY <1>3, <1>4, <2>1, <2>2 DEF Charges, sum
<1> QED
  BY <1>5, <1>6

LEMMA ChargeCharges ==
  ASSUME NEW w \in WalkSet, NEW id \in Nat, NEW size \in Nat
  PROVE  /\ Charges(w, Charge(w, id, size), size)
         /\ TooBig(size) => Charge(w, id, size).limits_hit # {}
<1>1. CASE TooBig(size)
  <2> DEFINE h == Hit(w, "max_decoded_bytes_per_part")
             d == Defect(h, id, "over_limit")
             c == CountDecoded(d, size)
  <2>0. "max_decoded_bytes_per_part" \in LimitSet /\ "over_limit" \in DefectSet
    BY DEF LimitSet, DefectSet
  <2>1. Marks(w, h) /\ h.limits_hit # {} /\ h.decoded_total = w.decoded_total
    BY <2>0, HitMarks
  <2>a. h \in WalkSet
    BY <2>1 DEF Marks
  <2>5. Charge(w, id, size) = c
    BY <1>1 DEF Charge
  <2> HIDE DEF h
  <2>2. Marks(h, d) /\ d.limits_hit = h.limits_hit /\ d.decoded_total = h.decoded_total
    BY <2>0, <2>a, DefectMarks
  <2>b. d \in WalkSet
    BY <2>2 DEF Marks
  <2> HIDE DEF d
  <2>3. Charges(d, c, size)
    BY <2>b, CountCharges
  <2> HIDE DEF c
  <2>c. Marks(w, d)
    BY <2>1, <2>2, MarksChain
  <2>4. Marks(w, c)
    BY <2>3, <2>c, MarksChain DEF Charges
  <2>6. d.limits_hit \subseteq c.limits_hit
    BY <2>3 DEF Charges, Marks
  <2> QED
    BY <2>1, <2>2, <2>3, <2>4, <2>5, <2>6 DEF Charges
<1>2. CASE ~TooBig(size)
  <2>1. Charge(w, id, size) = CountDecoded(w, size)
    BY <1>2 DEF Charge
  <2> QED
    BY <1>2, <2>1, CountCharges
<1> QED
  BY <1>1, <1>2

\* The sums of what is kept.
SizesFit(T) == \A x \in T : x.size \in Nat
HashesFit(T) == \A x \in T : x.sha256 \in Nat

LEMMA SizesOfOneMore ==
  ASSUME NEW T, NEW s \in Seq(T), NEW x \in T, SizesFit(T)
  PROVE  /\ Sizes(s) \in Seq(Nat) /\ Total(Sizes(s)) \in Nat
         /\ Total(Sizes(Append(s, x))) = Total(Sizes(s)) + x.size
<1>1. \A i \in 1 .. Len(s) : s[i].size \in Nat
  BY DEF SizesFit
<1>2. Sizes(s) \in Seq(Nat) /\ Len(Sizes(s)) = Len(s)
  BY <1>1 DEF Sizes
<1>3. x.size \in Nat
  BY DEF SizesFit
<1>4. Sizes(Append(s, x)) = Append(Sizes(s), x.size)
  <2> DEFINE a == Sizes(Append(s, x))  b == Append(Sizes(s), x.size)
  <2>1. a \in Seq(Nat) /\ Len(a) = Len(s) + 1
    <3>1. \A i \in 1 .. Len(s) + 1 : Append(s, x)[i].size \in Nat
      BY <1>1, <1>3
    <3> QED
      BY <3>1 DEF Sizes
  <2>2. b \in Seq(Nat) /\ Len(b) = Len(s) + 1
    BY <1>2, <1>3
  <2>3. \A i \in 1 .. Len(s) + 1 : a[i] = b[i]
    BY <1>1, <1>2, <1>3 DEF Sizes
  <2> HIDE DEF a, b
  <2>4. a = b
    BY <2>1, <2>2, <2>3, SeqEqual
  <2> QED
    BY <2>4 DEF a, b
<1> QED
  BY <1>2, <1>3, <1>4, TotalIsANumber, TotalOfOneMore

LEMMA HashesOfOneMore ==
  ASSUME NEW T, NEW s \in Seq(T), NEW x \in T, HashesFit(T)
  PROVE  /\ Hashes(s) \in Seq(Nat) /\ Total(Hashes(s)) \in Nat
         /\ Total(Hashes(Append(s, x))) = Total(Hashes(s)) + x.sha256
<1>1. \A i \in 1 .. Len(s) : s[i].sha256 \in Nat
  BY DEF HashesFit
<1>2. Hashes(s) \in Seq(Nat) /\ Len(Hashes(s)) = Len(s)
  BY <1>1 DEF Hashes
<1>3. x.sha256 \in Nat
  BY DEF HashesFit
<1>4. Hashes(Append(s, x)) = Append(Hashes(s), x.sha256)
  <2> DEFINE a == Hashes(Append(s, x))  b == Append(Hashes(s), x.sha256)
  <2>1. a \in Seq(Nat) /\ Len(a) = Len(s) + 1
    <3>1. \A i \in 1 .. Len(s) + 1 : Append(s, x)[i].sha256 \in Nat
      BY <1>1, <1>3
    <3> QED
      BY <3>1 DEF Hashes
  <2>2. b \in Seq(Nat) /\ Len(b) = Len(s) + 1
    BY <1>2, <1>3
  <2>3. \A i \in 1 .. Len(s) + 1 : a[i] = b[i]
    BY <1>1, <1>2, <1>3 DEF Hashes
  <2> HIDE DEF a, b
  <2>4. a = b
    BY <2>1, <2>2, <2>3, SeqEqual
  <2> QED
    BY <2>4 DEF a, b
<1> QED
  BY <1>2, <1>3, <1>4, TotalIsANumber, TotalOfOneMore

\* The sizes and the hashes of a walk are numbers, and so are their sums.
LEMMA KeptFits ==
  SizesFit(TextSet) /\ HashesFit(AttachmentSet) /\ HashesFit(ImageSet)
BY DEF SizesFit, HashesFit, TextSet, AttachmentSet, ImageSet

LEMMA VouchedIsANumber ==
  ASSUME NEW w \in WalkSet
  PROVE  /\ Total(Sizes(w.texts)) \in Nat /\ Total(Sizes(w.htmls)) \in Nat
         /\ Total(Hashes(w.attachments)) \in Nat /\ Total(Hashes(w.images)) \in Nat
         /\ VouchedTotal(w) \in Nat
<1>1. /\ w.texts \in Seq(TextSet) /\ w.htmls \in Seq(TextSet)
      /\ w.attachments \in Seq(AttachmentSet) /\ w.images \in Seq(ImageSet)
  BY DEF WalkSet
<1>2. \A i \in 1 .. Len(w.texts) : w.texts[i].size \in Nat
  <2>1. \A i \in 1 .. Len(w.texts) : w.texts[i] \in TextSet
    BY <1>1
  <2> QED
    BY <2>1, KeptFits DEF SizesFit
<1>3. \A i \in 1 .. Len(w.htmls) : w.htmls[i].size \in Nat
  <2>1. \A i \in 1 .. Len(w.htmls) : w.htmls[i] \in TextSet
    BY <1>1
  <2> QED
    BY <2>1, KeptFits DEF SizesFit
<1>4. \A i \in 1 .. Len(w.attachments) : w.attachments[i].sha256 \in Nat
  <2>1. \A i \in 1 .. Len(w.attachments) : w.attachments[i] \in AttachmentSet
    BY <1>1
  <2> QED
    BY <2>1, KeptFits DEF HashesFit
<1>5. \A i \in 1 .. Len(w.images) : w.images[i].sha256 \in Nat
  <2>1. \A i \in 1 .. Len(w.images) : w.images[i] \in ImageSet
    BY <1>1
  <2> QED
    BY <2>1, KeptFits DEF HashesFit
<1>6. Sizes(w.texts) \in Seq(Nat)
  BY <1>1, <1>2 DEF Sizes
<1>7. Sizes(w.htmls) \in Seq(Nat)
  BY <1>1, <1>3 DEF Sizes
<1>8. Hashes(w.attachments) \in Seq(Nat)
  BY <1>1, <1>4 DEF Hashes
<1>9. Hashes(w.images) \in Seq(Nat)
  BY <1>1, <1>5 DEF Hashes
<1>10. /\ Total(Sizes(w.texts)) \in Nat /\ Total(Sizes(w.htmls)) \in Nat
       /\ Total(Hashes(w.attachments)) \in Nat /\ Total(Hashes(w.images)) \in Nat
  BY <1>6, <1>7, <1>8, <1>9, TotalIsANumber
<1> QED
  BY <1>10 DEF VouchedTotal

\* A mark on a sound walk leaves it sound.
LEMMA MarksAreSound ==
  ASSUME NEW w, NEW c, NEW due \in Nat, SoundWalk(w, due), Marks(w, c),
         ~c.aborted => c.decoded_total = w.decoded_total
  PROVE  SoundWalk(c, due)
<1>1. c \in WalkSet /\ w \in WalkSet
  BY DEF SoundWalk, Marks
<1>2. VouchedTotal(c) = VouchedTotal(w)
  BY DEF VouchedTotal, Marks
<1>3. ~c.aborted => ~w.aborted
  BY DEF Marks
<1>4. c.aborted => c.limits_hit # {}
  BY DEF Marks, SoundWalk
<1>5. Bounded(w, due)
  BY DEF SoundWalk
<1>6. Bounded(c, due)
  BY <1>2, <1>3, <1>5 DEF Bounded, Marks
<1> QED
  BY <1>1, <1>4, <1>6 DEF SoundWalk

\* What is charged may be kept.
LEMMA ChargeIsDue ==
  ASSUME NEW w, NEW c, NEW due \in Nat, NEW size \in Nat,
         SoundWalk(w, due), Charges(w, c, size)
  PROVE  SoundWalk(c, due) /\ (~c.aborted => SoundWalk(c, due + size))
<1>1. VouchedTotal(c) = VouchedTotal(w)
  BY DEF VouchedTotal, Charges, Marks
<1>2. c \in WalkSet /\ w \in WalkSet
  BY DEF SoundWalk, Charges, Marks
<1>3. VouchedTotal(w) \in Nat /\ w.decoded_total \in Nat /\ max_decoded_bytes_total \in Nat
  BY <1>2, VouchedIsANumber, LimitsTyped DEF WalkSet
<1>4. ~c.aborted => ~w.aborted
  BY DEF Marks, Charges
<1>5. c.aborted => c.limits_hit # {}
  BY DEF Marks, SoundWalk, Charges
<1>6. c.decoded_total = w.decoded_total + size /\ (~c.aborted => c.decoded_total <= max_decoded_bytes_total)
  BY DEF Charges
<1>7. Bounded(w, due)
  BY DEF SoundWalk
<1>8. /\ VouchedTotal(c) + due <= max_decoded_bytes_total
      /\ ~c.aborted => /\ VouchedTotal(c) + (due + size) <= c.decoded_total
                       /\ VouchedTotal(c) + due <= c.decoded_total
                       /\ VouchedTotal(c) + (due + size) <= max_decoded_bytes_total
                       /\ c.decoded_total <= max_decoded_bytes_total
  BY <1>1, <1>3, <1>4, <1>6, <1>7 DEF Bounded
<1>9. /\ \A i \in 1 .. Len(c.texts) : ~TooBig(c.texts[i].size)
      /\ \A i \in 1 .. Len(c.htmls) : ~TooBig(c.htmls[i].size)
      /\ \A i \in 1 .. Len(c.attachments) : ~TooBig(c.attachments[i].sha256)
      /\ \A i \in 1 .. Len(c.images) : ~TooBig(c.images[i].sha256)
      /\ Len(c.attachments) <= max_attachments
      /\ c.html_images <= MAX_HTML_EMBEDDED_IMAGES
      /\ ~c.aborted => Len(c.attachments) < max_attachments
  BY <1>4, <1>7 DEF Bounded, Charges, Marks
<1>10. Bounded(c, due) /\ (~c.aborted => Bounded(c, due + size))
  BY <1>8, <1>9 DEF Bounded
<1> QED
  BY <1>2, <1>5, <1>10 DEF SoundWalk

\* Less is due.
LEMMA LessIsDue ==
  ASSUME NEW w, NEW due \in Nat, NEW size \in Nat, SoundWalk(w, due + size)
  PROVE  SoundWalk(w, due)
<1>1. w \in WalkSet
  BY DEF SoundWalk
<1>2. VouchedTotal(w) \in Nat /\ w.decoded_total \in Nat /\ max_decoded_bytes_total \in Nat
  BY <1>1, VouchedIsANumber, LimitsTyped DEF WalkSet
<1>3. VouchedTotal(w) + due <= VouchedTotal(w) + (due + size)
  BY <1>2
<1>4. Bounded(w, due + size)
  BY DEF SoundWalk
<1>5. Bounded(w, due)
  BY <1>2, <1>3, <1>4 DEF Bounded
<1> QED
  BY <1>1, <1>5 DEF SoundWalk

\* A sequence with one more element.
LEMMA ToSetOfOneMore ==
  ASSUME NEW T, NEW s \in Seq(T), NEW x \in T
  PROVE  /\ Append(s, x) \in Seq(T) /\ Len(Append(s, x)) = Len(s) + 1 /\ Len(s) \in Nat
         /\ ToSet(s) \subseteq ToSet(Append(s, x)) /\ x \in ToSet(Append(s, x))
         /\ \A i \in 1 .. Len(Append(s, x)) :
              Append(s, x)[i] = x \/ \E j \in 1 .. Len(s) : Append(s, x)[i] = s[j]
<1> DEFINE longer == Append(s, x)
<1>1. /\ longer \in Seq(T) /\ Len(longer) = Len(s) + 1 /\ Len(s) \in Nat
      /\ \A i \in 1 .. Len(s) : longer[i] = s[i]
      /\ longer[Len(s) + 1] = x
  OBVIOUS
<1> HIDE DEF longer
<1>2. ToSet(s) \subseteq ToSet(longer) /\ x \in ToSet(longer)
  BY <1>1 DEF ToSet
<1>3. \A i \in 1 .. Len(longer) : i \in 1 .. Len(s) \/ i = Len(s) + 1
  BY <1>1
<1>4. \A i \in 1 .. Len(longer) : longer[i] = x \/ \E j \in 1 .. Len(s) : longer[i] = s[j]
  BY <1>1, <1>3
<1> QED
  BY <1>1, <1>2, <1>4 DEF longer

\* What is due is kept: a text, an HTML, an image.
LEMMA KeepText ==
  ASSUME NEW w, NEW due \in Nat, NEW x \in TextSet, ~TooBig(x.size),
         SoundWalk(w, due + x.size),
         NEW c, c = [w EXCEPT !.texts = Append(w.texts, x)]
  PROVE  SoundWalk(c, due) /\ Grows(w, c) /\ x \in ToSet(c.texts)
<1>1. w \in WalkSet /\ w.texts \in Seq(TextSet) /\ x.size \in Nat
  BY KeptFits DEF SoundWalk, WalkSet, SizesFit
<1> DEFINE longer == Append(w.texts, x)
<1>2. /\ longer \in Seq(TextSet) /\ ToSet(w.texts) \subseteq ToSet(longer) /\ x \in ToSet(longer)
      /\ \A i \in 1 .. Len(longer) :
           longer[i] = x \/ \E j \in 1 .. Len(w.texts) : longer[i] = w.texts[j]
  BY <1>1, ToSetOfOneMore
<1>3. Total(Sizes(longer)) = Total(Sizes(w.texts)) + x.size
  BY <1>1, KeptFits, SizesOfOneMore
<1>4. c = [w EXCEPT !.texts = longer]
  OBVIOUS
<1> HIDE DEF longer
<1>5. c \in WalkSet
  BY <1>1, <1>2, <1>4 DEF WalkSet
<1>6. /\ c.texts = longer
      /\ c.htmls = w.htmls /\ c.attachments = w.attachments
      /\ c.images = w.images /\ c.links = w.links
      /\ c.html_images = w.html_images /\ c.part_count = w.part_count
      /\ c.defects = w.defects /\ c.limits_hit = w.limits_hit /\ c.aborted = w.aborted
      /\ c.decoded_total = w.decoded_total
  BY <1>1, <1>4 DEF WalkSet
<1> USE <1>6
<1>7. /\ Total(Sizes(w.texts)) \in Nat /\ Total(Sizes(w.htmls)) \in Nat
      /\ Total(Hashes(w.attachments)) \in Nat /\ Total(Hashes(w.images)) \in Nat
      /\ VouchedTotal(w) \in Nat
  BY <1>1, VouchedIsANumber
<1>8. VouchedTotal(c) = VouchedTotal(w) + x.size
  <2>1. VouchedTotal(c) = Total(Sizes(longer)) + Total(Sizes(w.htmls))
                            + Total(Hashes(w.attachments)) + Total(Hashes(w.images))
    BY DEF VouchedTotal
  <2>2. VouchedTotal(w) = Total(Sizes(w.texts)) + Total(Sizes(w.htmls))
                            + Total(Hashes(w.attachments)) + Total(Hashes(w.images))
    BY DEF VouchedTotal
  <2> QED
    BY <1>1, <1>3, <1>7, <2>1, <2>2
<1>9. VouchedTotal(c) + due = VouchedTotal(w) + (due + x.size)
  BY <1>1, <1>7, <1>8
<1>10. Bounded(w, due + x.size) /\ (w.aborted => w.limits_hit # {})
  BY DEF SoundWalk
<1>11. \A i \in 1 .. Len(c.texts) : ~TooBig(c.texts[i].size)
  BY <1>2, <1>10 DEF Bounded
<1>12. Bounded(c, due)
  BY <1>9, <1>10, <1>11 DEF Bounded
<1>13. Grows(w, c)
  BY <1>2 DEF Grows
<1> QED
  BY <1>2, <1>5, <1>10, <1>12, <1>13 DEF SoundWalk

LEMMA KeepHtml ==
  ASSUME NEW w, NEW due \in Nat, NEW x \in TextSet, ~TooBig(x.size),
         SoundWalk(w, due + x.size),
         NEW c, c = [w EXCEPT !.htmls = Append(w.htmls, x)]
  PROVE  SoundWalk(c, due) /\ Grows(w, c) /\ x \in ToSet(c.htmls)
<1>1. w \in WalkSet /\ w.htmls \in Seq(TextSet) /\ x.size \in Nat
  BY KeptFits DEF SoundWalk, WalkSet, SizesFit
<1> DEFINE longer == Append(w.htmls, x)
<1>2. /\ longer \in Seq(TextSet) /\ ToSet(w.htmls) \subseteq ToSet(longer) /\ x \in ToSet(longer)
      /\ \A i \in 1 .. Len(longer) :
           longer[i] = x \/ \E j \in 1 .. Len(w.htmls) : longer[i] = w.htmls[j]
  BY <1>1, ToSetOfOneMore
<1>3. Total(Sizes(longer)) = Total(Sizes(w.htmls)) + x.size
  BY <1>1, KeptFits, SizesOfOneMore
<1>4. c = [w EXCEPT !.htmls = longer]
  OBVIOUS
<1> HIDE DEF longer
<1>5. c \in WalkSet
  BY <1>1, <1>2, <1>4 DEF WalkSet
<1>6. /\ c.htmls = longer
      /\ c.texts = w.texts /\ c.attachments = w.attachments
      /\ c.images = w.images /\ c.links = w.links
      /\ c.html_images = w.html_images /\ c.part_count = w.part_count
      /\ c.defects = w.defects /\ c.limits_hit = w.limits_hit /\ c.aborted = w.aborted
      /\ c.decoded_total = w.decoded_total
  BY <1>1, <1>4 DEF WalkSet
<1> USE <1>6
<1>7. /\ Total(Sizes(w.texts)) \in Nat /\ Total(Sizes(w.htmls)) \in Nat
      /\ Total(Hashes(w.attachments)) \in Nat /\ Total(Hashes(w.images)) \in Nat
      /\ VouchedTotal(w) \in Nat
  BY <1>1, VouchedIsANumber
<1>8. VouchedTotal(c) = VouchedTotal(w) + x.size
  <2>1. VouchedTotal(c) = Total(Sizes(w.texts)) + Total(Sizes(longer))
                            + Total(Hashes(w.attachments)) + Total(Hashes(w.images))
    BY DEF VouchedTotal
  <2>2. VouchedTotal(w) = Total(Sizes(w.texts)) + Total(Sizes(w.htmls))
                            + Total(Hashes(w.attachments)) + Total(Hashes(w.images))
    BY DEF VouchedTotal
  <2> QED
    BY <1>1, <1>3, <1>7, <2>1, <2>2
<1>9. VouchedTotal(c) + due = VouchedTotal(w) + (due + x.size)
  BY <1>1, <1>7, <1>8
<1>10. Bounded(w, due + x.size) /\ (w.aborted => w.limits_hit # {})
  BY DEF SoundWalk
<1>11. \A i \in 1 .. Len(c.htmls) : ~TooBig(c.htmls[i].size)
  BY <1>2, <1>10 DEF Bounded
<1>12. Bounded(c, due)
  BY <1>9, <1>10, <1>11 DEF Bounded
<1>13. Grows(w, c)
  BY <1>2 DEF Grows
<1> QED
  BY <1>2, <1>5, <1>10, <1>12, <1>13 DEF SoundWalk

LEMMA KeepImage ==
  ASSUME NEW w, NEW due \in Nat, NEW x \in ImageSet, ~TooBig(x.sha256),
         SoundWalk(w, due + x.sha256),
         NEW c, c = [w EXCEPT !.images = Append(w.images, x)]
  PROVE  SoundWalk(c, due) /\ Grows(w, c) /\ x \in ToSet(c.images)
<1>1. w \in WalkSet /\ w.images \in Seq(ImageSet) /\ x.sha256 \in Nat
  BY KeptFits DEF SoundWalk, WalkSet, HashesFit
<1> DEFINE longer == Append(w.images, x)
<1>2. /\ longer \in Seq(ImageSet) /\ ToSet(w.images) \subseteq ToSet(longer) /\ x \in ToSet(longer)
      /\ \A i \in 1 .. Len(longer) :
           longer[i] = x \/ \E j \in 1 .. Len(w.images) : longer[i] = w.images[j]
  BY <1>1, ToSetOfOneMore
<1>3. Total(Hashes(longer)) = Total(Hashes(w.images)) + x.sha256
  BY <1>1, KeptFits, HashesOfOneMore
<1>4. c = [w EXCEPT !.images = longer]
  OBVIOUS
<1> HIDE DEF longer
<1>5. c \in WalkSet
  BY <1>1, <1>2, <1>4 DEF WalkSet
<1>6. /\ c.images = longer
      /\ c.texts = w.texts /\ c.htmls = w.htmls
      /\ c.attachments = w.attachments /\ c.links = w.links
      /\ c.html_images = w.html_images /\ c.part_count = w.part_count
      /\ c.defects = w.defects /\ c.limits_hit = w.limits_hit /\ c.aborted = w.aborted
      /\ c.decoded_total = w.decoded_total
  BY <1>1, <1>4 DEF WalkSet
<1> USE <1>6
<1>7. /\ Total(Sizes(w.texts)) \in Nat /\ Total(Sizes(w.htmls)) \in Nat
      /\ Total(Hashes(w.attachments)) \in Nat /\ Total(Hashes(w.images)) \in Nat
      /\ VouchedTotal(w) \in Nat
  BY <1>1, VouchedIsANumber
<1>8. VouchedTotal(c) = VouchedTotal(w) + x.sha256
  <2>1. VouchedTotal(c) = Total(Sizes(w.texts)) + Total(Sizes(w.htmls))
                            + Total(Hashes(w.attachments)) + Total(Hashes(longer))
    BY DEF VouchedTotal
  <2>2. VouchedTotal(w) = Total(Sizes(w.texts)) + Total(Sizes(w.htmls))
                            + Total(Hashes(w.attachments)) + Total(Hashes(w.images))
    BY DEF VouchedTotal
  <2> QED
    BY <1>1, <1>3, <1>7, <2>1, <2>2
<1>9. VouchedTotal(c) + due = VouchedTotal(w) + (due + x.sha256)
  BY <1>1, <1>7, <1>8
<1>10. Bounded(w, due + x.sha256) /\ (w.aborted => w.limits_hit # {})
  BY DEF SoundWalk
<1>11. \A i \in 1 .. Len(c.images) : ~TooBig(c.images[i].sha256)
  BY <1>2, <1>10 DEF Bounded
<1>12. Bounded(c, due)
  BY <1>9, <1>10, <1>11 DEF Bounded
<1>13. Grows(w, c)
  BY <1>2 DEF Grows
<1> QED
  BY <1>2, <1>5, <1>10, <1>12, <1>13 DEF SoundWalk

\* An attachment, and the limit on their number.
LEMMA KeepAttachment ==
  ASSUME NEW w, NEW x \in AttachmentSet, ~TooBig(x.sha256), SoundWalk(w, x.sha256),
         Len(w.attachments) < max_attachments,
         NEW c, c = [w EXCEPT !.attachments = Append(w.attachments, x)],
         NEW r, r = IF Len(c.attachments) >= max_attachments THEN Abort(c, "max_attachments") ELSE c
  PROVE  SoundWalk(r, 0) /\ Grows(w, r) /\ x \in ToSet(r.attachments)
<1>1. w \in WalkSet /\ w.attachments \in Seq(AttachmentSet) /\ x.sha256 \in Nat
  BY KeptFits DEF SoundWalk, WalkSet, HashesFit
<1> DEFINE longer == Append(w.attachments, x)
<1>2. /\ longer \in Seq(AttachmentSet) /\ ToSet(w.attachments) \subseteq ToSet(longer)
      /\ x \in ToSet(longer)
      /\ Len(longer) = Len(w.attachments) + 1 /\ Len(w.attachments) \in Nat
      /\ \A i \in 1 .. Len(longer) :
           longer[i] = x \/ \E j \in 1 .. Len(w.attachments) : longer[i] = w.attachments[j]
  BY <1>1, ToSetOfOneMore
<1>3. Total(Hashes(longer)) = Total(Hashes(w.attachments)) + x.sha256
  BY <1>1, KeptFits, HashesOfOneMore
<1>4. c = [w EXCEPT !.attachments = longer]
  OBVIOUS
<1> HIDE DEF longer
<1>5. c \in WalkSet
  BY <1>1, <1>2, <1>4 DEF WalkSet
<1>6. /\ c.attachments = longer
      /\ c.texts = w.texts /\ c.htmls = w.htmls
      /\ c.images = w.images /\ c.links = w.links
      /\ c.html_images = w.html_images /\ c.part_count = w.part_count
      /\ c.defects = w.defects /\ c.limits_hit = w.limits_hit /\ c.aborted = w.aborted
      /\ c.decoded_total = w.decoded_total
  BY <1>1, <1>4 DEF WalkSet
<1>7. /\ Total(Sizes(w.texts)) \in Nat /\ Total(Sizes(w.htmls)) \in Nat
      /\ Total(Hashes(w.attachments)) \in Nat /\ Total(Hashes(w.images)) \in Nat
      /\ VouchedTotal(w) \in Nat
  BY <1>1, VouchedIsANumber
<1>8. VouchedTotal(c) = VouchedTotal(w) + x.sha256
  <2>1. VouchedTotal(c) = Total(Sizes(w.texts)) + Total(Sizes(w.htmls))
                            + Total(Hashes(longer)) + Total(Hashes(w.images))
    BY <1>6 DEF VouchedTotal
  <2>2. VouchedTotal(w) = Total(Sizes(w.texts)) + Total(Sizes(w.htmls))
                            + Total(Hashes(w.attachments)) + Total(Hashes(w.images))
    BY DEF VouchedTotal
  <2> QED
    BY <1>1, <1>3, <1>7, <2>1, <2>2
<1>9. Bounded(w, x.sha256) /\ (w.aborted => w.limits_hit # {})
  BY DEF SoundWalk
<1>10. \A i \in 1 .. Len(c.attachments) : ~TooBig(c.attachments[i].sha256)
  BY <1>2, <1>6, <1>9 DEF Bounded
<1>11. Grows(w, c)
  BY <1>2, <1>6 DEF Grows
<1>12. max_attachments \in Nat /\ max_decoded_bytes_total \in Nat
  BY LimitsTyped
<1>13. /\ Len(c.attachments) <= max_attachments
       /\ VouchedTotal(c) + 0 <= max_decoded_bytes_total
       /\ ~c.aborted => VouchedTotal(c) + 0 <= c.decoded_total /\ c.decoded_total <= max_decoded_bytes_total
  BY <1>1, <1>2, <1>6, <1>7, <1>8, <1>9, <1>12 DEF Bounded
<1>14. CASE Len(c.attachments) >= max_attachments
  <2>1. r = Abort(c, "max_attachments")
    BY <1>14
  <2>2. Marks(c, r) /\ r.limits_hit # {} /\ r.aborted
    BY <1>5, <2>1, AbortMarks DEF LimitSet
  <2>3. Bounded(r, 0)
    <3>1. VouchedTotal(r) = VouchedTotal(c)
      BY <2>2 DEF VouchedTotal, Marks
    <3>2. /\ r.texts = c.texts /\ r.htmls = c.htmls /\ r.images = c.images
          /\ r.attachments = c.attachments /\ r.html_images = c.html_images
      BY <2>2 DEF Marks
    <3>3. /\ \A i \in 1 .. Len(w.texts) : ~TooBig(w.texts[i].size)
          /\ \A i \in 1 .. Len(w.htmls) : ~TooBig(w.htmls[i].size)
          /\ \A i \in 1 .. Len(w.images) : ~TooBig(w.images[i].sha256)
          /\ w.html_images <= MAX_HTML_EMBEDDED_IMAGES
      BY <1>9 DEF Bounded
    <3>4. /\ \A i \in 1 .. Len(r.texts) : ~TooBig(r.texts[i].size)
          /\ \A i \in 1 .. Len(r.htmls) : ~TooBig(r.htmls[i].size)
          /\ \A i \in 1 .. Len(r.images) : ~TooBig(r.images[i].sha256)
          /\ r.html_images <= MAX_HTML_EMBEDDED_IMAGES
      BY <1>6, <3>2, <3>3
    <3>5. /\ \A i \in 1 .. Len(r.attachments) : ~TooBig(r.attachments[i].sha256)
          /\ Len(r.attachments) <= max_attachments
          /\ VouchedTotal(r) + 0 <= max_decoded_bytes_total
      BY <1>10, <1>13, <3>1, <3>2
    <3> QED
      BY <2>2, <3>4, <3>5 DEF Bounded
  <2>4. Grows(w, r)
    BY <1>11, <2>2, MarksGrow, GrowsChain
  <2> QED
    BY <1>2, <1>6, <2>2, <2>3, <2>4 DEF SoundWalk, Marks
<1>15. CASE ~(Len(c.attachments) >= max_attachments)
  <2>1. r = c /\ Len(c.attachments) < max_attachments
    BY <1>2, <1>6, <1>12, <1>15
  <2>2. Bounded(c, 0)
    BY <1>6, <1>9, <1>10, <1>13, <2>1 DEF Bounded
  <2> QED
    BY <1>2, <1>5, <1>6, <1>9, <1>11, <2>1, <2>2 DEF SoundWalk
<1> QED
  BY <1>14, <1>15

\* The links of a part, and a walk that keeps them.
LEMMA LinksTyped ==
  ASSUME NEW id \in Nat, NEW part \in Parts
  PROVE  /\ LinksOf(id, part) \in Seq(LinkSet) /\ Len(LinksOf(id, part)) = Len(part.links)
         /\ \A i \in 1 .. Len(part.links) : LinksOf(id, part)[i] = LinkOf(id, part.links[i])
<1>1. part.links \in Seq(PartLinks)
  BY PartTyped
<1>2. \A i \in 1 .. Len(part.links) : part.links[i] \in PartLinks
  BY <1>1
<1>3. \A i \in 1 .. Len(part.links) : LinkOf(id, part.links[i]) \in LinkSet
  BY <1>2 DEF LinkSet
<1> QED
  BY <1>1, <1>3 DEF LinksOf

LEMMA KeepLinks ==
  ASSUME NEW w, NEW due \in Nat, NEW id \in Nat, NEW part \in Parts, SoundWalk(w, due),
         NEW c, c = [w EXCEPT !.links = w.links \o LinksOf(id, part)]
  PROVE  SoundWalk(c, due) /\ Grows(w, c) /\ ToSet(LinksOf(id, part)) \subseteq ToSet(c.links)
<1> DEFINE found == LinksOf(id, part)
           all == w.links \o found
<1>1. w \in WalkSet /\ w.links \in Seq(LinkSet) /\ found \in Seq(LinkSet)
  BY LinksTyped DEF SoundWalk, WalkSet
<1>2. c = [w EXCEPT !.links = all]
  OBVIOUS
<1> HIDE DEF found
<1>3. /\ all \in Seq(LinkSet) /\ Len(all) = Len(w.links) + Len(found)
      /\ \A i \in 1 .. Len(all) : all[i] = IF i <= Len(w.links) THEN w.links[i] ELSE found[i - Len(w.links)]
      /\ Len(w.links) \in Nat /\ Len(found) \in Nat
  BY <1>1, ConcatProperties
<1> HIDE DEF all
<1> DEFINE old == w.links
<1> HIDE DEF old
<1>a. /\ Len(all) = Len(old) + Len(found) /\ Len(old) \in Nat /\ Len(found) \in Nat
      /\ \A i \in 1 .. Len(all) : all[i] = IF i <= Len(old) THEN old[i] ELSE found[i - Len(old)]
  BY <1>3 DEF old
<1>4. ToSet(w.links) \subseteq ToSet(all)
  <2>1. \A i \in 1 .. Len(old) : i \in 1 .. Len(all) /\ all[i] = old[i]
    BY <1>a
  <2> QED
    BY <2>1 DEF ToSet, old
<1>5. ToSet(found) \subseteq ToSet(all)
  <2>1. \A i \in 1 .. Len(found) : i + Len(old) \in 1 .. Len(all) /\ all[i + Len(old)] = found[i]
    <3>1. ASSUME NEW i \in 1 .. Len(found)
          PROVE  /\ i + Len(old) \in 1 .. Len(all) /\ ~(i + Len(old) <= Len(old))
                 /\ (i + Len(old)) - Len(old) = i
      BY <1>a
    <3> QED
      BY <1>a, <3>1
  <2> QED
    BY <2>1 DEF ToSet
<1>6. c \in WalkSet
  BY <1>1, <1>2, <1>3 DEF WalkSet
<1>7. /\ c.links = all
      /\ c.texts = w.texts /\ c.htmls = w.htmls
      /\ c.attachments = w.attachments /\ c.images = w.images
      /\ c.html_images = w.html_images /\ c.part_count = w.part_count
      /\ c.defects = w.defects /\ c.limits_hit = w.limits_hit /\ c.aborted = w.aborted
      /\ c.decoded_total = w.decoded_total
  BY <1>1, <1>2 DEF WalkSet
<1>8. Bounded(c, due)
  BY <1>7 DEF SoundWalk, Bounded, VouchedTotal
<1>9. Grows(w, c)
  BY <1>4, <1>7 DEF Grows
<1> QED
  BY <1>5, <1>6, <1>7, <1>8, <1>9 DEF SoundWalk, found

\* The part has a defect to its name, or is kept whole.
Linked(w, id, part) == ToSet(LinksOf(id, part)) \subseteq ToSet(w.links)
Recorded(w, id, part) ==
  \/ \E defect \in w.defects : defect[1] = id
  \/ part.kind = "text" /\ Linked(w, id, part) /\ TextOf(id, part) \in ToSet(w.texts)
  \/ part.kind = "html" /\ Linked(w, id, part) /\ TextOf(id, part) \in ToSet(w.htmls)
  \/ /\ part.kind = "attachment" /\ part.broken # "transfer"
     /\ Attached(id, part, "ok") \in ToSet(w.attachments)
  \/ /\ part.kind = "image"
     /\ Pictured(id, 0, part, part.size, "metadata_only") \in ToSet(w.images)
  \/ part.kind \in {"multipart", "rfc822"}

\* What is on record stays on record.
LEMMA RecordedStays ==
  ASSUME NEW w, NEW c, NEW id, NEW part, Grows(w, c), Recorded(w, id, part)
  PROVE  Recorded(c, id, part)
BY DEF Grows, Recorded, Linked

\* What reading a part does.
Reads(w, r, id, part) ==
  SoundWalk(r, 0) /\ Grows(w, r) /\ (r.limits_hit = {} => Recorded(r, id, part))

\* An attachment is kept with its status, or has a defect to its name.
LEMMA AttachmentIsRead ==
  ASSUME NEW w, SoundWalk(w, 0), ~w.aborted, NEW id \in Nat, NEW part \in Parts,
         part.kind = "attachment"
  PROVE  Reads(w, WalkAttachment(w, id, part), id, part)
<1> DEFINE big == TooBig(part.size)
           over == Hit(w, "max_decoded_bytes_per_part")
           built == CASE part.broken = "transfer" -> Defect(w, id, "broken_transfer")
                      [] part.broken # "transfer" /\ big -> Defect(over, id, "over_limit")
                      [] OTHER -> CountDecoded(w, part.size)
           status == CASE part.broken = "transfer" -> "error"
                       [] part.broken # "transfer" /\ (big \/ built.aborted) -> "over_limit"
                       [] OTHER -> "ok"
           x == Attached(id, part, status)
           kept == [built EXCEPT !.attachments = Append(@, x)]
<1>1. WalkAttachment(w, id, part) = IF Len(kept.attachments) >= max_attachments
                                    THEN Abort(kept, "max_attachments") ELSE kept
  BY DEF WalkAttachment
<1>2. /\ w \in WalkSet /\ part.size \in Nat /\ 0 \in Nat
      /\ max_decoded_bytes_per_part \in Nat /\ max_attachments \in Nat \ {0}
  BY PartTyped, LimitsTyped DEF SoundWalk
<1>3. ~TooBig(0)
  BY <1>2 DEF TooBig
\* What is charged, and what for.
<1>4. /\ Marks(w, built) /\ SoundWalk(built, x.sha256) /\ ~TooBig(x.sha256)
      /\ x \in AttachmentSet
      /\ built.limits_hit = {} => \/ x = Attached(id, part, "ok") /\ part.broken # "transfer"
                                  \/ \E defect \in built.defects : defect[1] = id
  <2>1. CASE part.broken = "transfer"
    <3>1. built = Defect(w, id, "broken_transfer") /\ status = "error"
      BY <2>1
    <3>2. /\ Marks(w, built) /\ <<id, "broken_transfer">> \in built.defects
          /\ built.decoded_total = w.decoded_total
      BY <1>2, <3>1, DefectMarks DEF DefectSet
    <3>3. SoundWalk(built, 0)
      BY <1>2, <3>2, MarksAreSound
    <3>4. x.sha256 = 0 /\ x \in AttachmentSet
      BY <3>1 DEF Attached, AttachmentSet
    <3> HIDE DEF built, x
    <3> QED
      BY <1>3, <3>2, <3>3, <3>4
  <2>2. CASE part.broken # "transfer" /\ big
    <3>1. built = Defect(over, id, "over_limit") /\ status = "over_limit"
      BY <2>2
    <3>2. Marks(w, over) /\ over.limits_hit # {} /\ over.decoded_total = w.decoded_total
      BY <1>2, HitMarks DEF LimitSet
    <3>3. over \in WalkSet
      BY <3>2 DEF Marks
    <3> HIDE DEF over
    <3>4. /\ Marks(over, built) /\ built.limits_hit = over.limits_hit
          /\ built.decoded_total = over.decoded_total
      <4>1. "over_limit" \in DefectSet
        BY DEF DefectSet
      <4> DEFINE d == Defect(over, id, "over_limit")
      <4>2. Marks(over, d) /\ d.limits_hit = over.limits_hit /\ d.decoded_total = over.decoded_total
        BY <3>3, <4>1, DefectMarks
      <4>3. built = d
        BY <3>1
      <4> HIDE DEF built, d
      <4> QED
        BY <4>2, <4>3
    <3>5. x.sha256 = 0 /\ x \in AttachmentSet
      BY <3>1 DEF Attached, AttachmentSet
    <3> HIDE DEF built, x
    <3>6. Marks(w, built)
      BY <3>2, <3>4, MarksChain
    <3>7. SoundWalk(built, 0)
      BY <1>2, <3>2, <3>4, <3>6, MarksAreSound
    <3> QED
      BY <1>3, <3>2, <3>4, <3>5, <3>6, <3>7
  <2>3. CASE part.broken # "transfer" /\ ~big
    <3>1. built = CountDecoded(w, part.size) /\ status = IF built.aborted THEN "over_limit" ELSE "ok"
      BY <2>3
    <3>2. Charges(w, built, part.size)
      BY <1>2, <3>1, CountCharges
    <3>3. SoundWalk(built, 0) /\ (~built.aborted => SoundWalk(built, 0 + part.size))
      BY <1>2, <3>2, ChargeIsDue
    <3>4. Marks(w, built)
      BY <3>2 DEF Charges
    <3>5. CASE built.aborted
      <4>1. x.sha256 = 0 /\ x \in AttachmentSet
        BY <3>1, <3>5 DEF Attached, AttachmentSet
      <4>2. built.limits_hit # {}
        BY <3>3, <3>5 DEF SoundWalk
      <4> HIDE DEF built, x
      <4> QED
        BY <1>3, <3>3, <3>4, <4>1, <4>2
    <3>6. CASE ~built.aborted
      <4>1. x.sha256 = part.size /\ x \in AttachmentSet /\ x = Attached(id, part, "ok")
        BY <1>2, <3>1, <3>6 DEF Attached, AttachmentSet
      <4>2. 0 + part.size = part.size
        BY <1>2
      <4> HIDE DEF built, x
      <4> QED
        BY <2>3, <3>3, <3>4, <3>6, <4>1, <4>2
    <3> QED
      BY <3>5, <3>6
  <2> QED
    BY <2>1, <2>2, <2>3
<1>5. Len(built.attachments) < max_attachments
  BY <1>4 DEF SoundWalk, Bounded, Marks
<1>6. kept = [built EXCEPT !.attachments = Append(built.attachments, x)]
  OBVIOUS
<1> DEFINE r == WalkAttachment(w, id, part)
<1>7. r = IF Len(kept.attachments) >= max_attachments THEN Abort(kept, "max_attachments") ELSE kept
  BY <1>1
<1> HIDE DEF r, kept, built, x
<1>8. SoundWalk(r, 0) /\ Grows(built, r) /\ x \in ToSet(r.attachments)
  BY <1>4, <1>5, <1>6, <1>7, KeepAttachment
<1>9. Grows(w, r)
  BY <1>4, <1>8, MarksGrow, GrowsChain
<1>10. r.limits_hit = {} => Recorded(r, id, part)
  BY <1>4, <1>8 DEF Grows, Recorded
<1> QED
  BY <1>8, <1>9, <1>10 DEF Reads, r

\* An image is hashed when its charge lets it.
Pays(w, c, due, size) ==
  /\ Marks(w, c) /\ SoundWalk(c, due)
  /\ ImageStatus(c, size) \in {"metadata_only", "over_limit"}
  /\ ImageStatus(c, size) = "metadata_only" => ~TooBig(size) /\ SoundWalk(c, due + size)
  /\ ImageStatus(c, size) # "metadata_only" => c.limits_hit # {}

LEMMA ImageIsCharged ==
  ASSUME NEW w, NEW due \in Nat, SoundWalk(w, due), NEW id \in Nat, NEW size \in Nat,
         NEW c, c = Refuse(Charge(w, id, size), id)
  PROVE  Pays(w, c, due, size)
<1> DEFINE d == Charge(w, id, size)
<1>1. w \in WalkSet
  BY DEF SoundWalk
<1>2. Charges(w, d, size) /\ (TooBig(size) => d.limits_hit # {})
  BY <1>1, ChargeCharges
<1>3. c = IF d.aborted THEN Defect(d, id, "not_accepted") ELSE d
  BY DEF Refuse
<1> HIDE DEF d
<1>4. SoundWalk(d, due) /\ (~d.aborted => SoundWalk(d, due + size))
  BY <1>2, ChargeIsDue
<1>5. Marks(w, d) /\ d \in WalkSet
  BY <1>2 DEF Charges, Marks
<1>6. Marks(w, c) /\ SoundWalk(c, due) /\ c.aborted = d.aborted /\ c.limits_hit = d.limits_hit
  <2>1. CASE d.aborted
    <3>1. c = Defect(d, id, "not_accepted")
      BY <1>3, <2>1
    <3>2. /\ Marks(d, c) /\ c.decoded_total = d.decoded_total
          /\ c.aborted = d.aborted /\ c.limits_hit = d.limits_hit
      <4>1. "not_accepted" \in DefectSet
        BY DEF DefectSet
      <4> DEFINE f == Defect(d, id, "not_accepted")
      <4>2. /\ Marks(d, f) /\ f.decoded_total = d.decoded_total
            /\ f.aborted = d.aborted /\ f.limits_hit = d.limits_hit
        BY <1>5, <4>1, DefectMarks
      <4>3. c = f
        BY <3>1
      <4> HIDE DEF f
      <4> QED
        BY <4>2, <4>3
    <3>3. SoundWalk(c, due)
      BY <1>4, <3>2, MarksAreSound
    <3> QED
      BY <1>5, <3>2, <3>3, MarksChain
  <2>2. CASE ~d.aborted
    BY <1>3, <1>4, <1>5, <2>2
  <2> QED
    BY <2>1, <2>2
<1>7. ImageStatus(c, size) = "metadata_only" => ~TooBig(size) /\ ~d.aborted
  BY <1>6 DEF ImageStatus
<1>8. ~d.aborted => c = d
  BY <1>3
<1>9. ImageStatus(c, size) # "metadata_only" => TooBig(size) \/ c.aborted
  BY DEF ImageStatus
<1>10. c.aborted => c.limits_hit # {}
  BY <1>6 DEF SoundWalk
<1>11. ImageStatus(c, size) \in {"metadata_only", "over_limit"}
  BY DEF ImageStatus
<1> QED
  BY <1>2, <1>4, <1>6, <1>7, <1>8, <1>9, <1>10, <1>11 DEF Pays

\* An image of its own, and one of those embedded in an HTML part.
LEMMA ImageIsRead ==
  ASSUME NEW w, SoundWalk(w, 0), ~w.aborted, NEW id \in Nat, NEW part \in Parts,
         part.kind = "image"
  PROVE  Reads(w, WalkImage(w, id, part), id, part)
<1> DEFINE c == Refuse(Charge(w, id, part.size), id)
           status == ImageStatus(c, part.size)
           x == Pictured(id, 0, part, part.size, status)
           r == [c EXCEPT !.images = Append(c.images, x)]
<1>1. WalkImage(w, id, part) = r
  BY DEF WalkImage
<1>2. /\ part.size \in Nat /\ part.links \in Seq(PartLinks) /\ 0 \in Nat
      /\ max_decoded_bytes_per_part \in Nat
  BY PartTyped, LimitsTyped
<1>3. /\ Marks(w, c) /\ SoundWalk(c, 0) /\ status \in {"metadata_only", "over_limit"}
      /\ status = "metadata_only" => ~TooBig(part.size) /\ SoundWalk(c, 0 + part.size)
      /\ status # "metadata_only" => c.limits_hit # {}
  <2>1. c = Refuse(Charge(w, id, part.size), id)
    OBVIOUS
  <2> HIDE DEF c
  <2>2. Pays(w, c, 0, part.size)
    BY <1>2, <2>1, ImageIsCharged
  <2> QED
    BY <2>2 DEF Pays
<1> HIDE DEF c, status
<1>4. x \in ImageSet /\ x.sha256 = IF status = "metadata_only" THEN part.size ELSE 0
  BY <1>2, <1>3 DEF Pictured, ImageSet
<1>5. ~TooBig(0) /\ 0 + 0 = 0 /\ 0 + part.size = part.size
  BY <1>2 DEF TooBig
<1>6. x.sha256 \in Nat /\ ~TooBig(x.sha256) /\ SoundWalk(c, 0 + x.sha256)
  BY <1>2, <1>3, <1>4, <1>5
<1>7. status = "metadata_only" => x = Pictured(id, 0, part, part.size, "metadata_only")
  OBVIOUS
<1> HIDE DEF x
<1>8. r = [c EXCEPT !.images = Append(c.images, x)]
  OBVIOUS
<1> HIDE DEF r
<1>9. SoundWalk(r, 0) /\ Grows(c, r) /\ x \in ToSet(r.images)
  BY <1>4, <1>6, <1>8, KeepImage
<1>10. Grows(w, r)
  BY <1>3, <1>9, MarksGrow, GrowsChain
<1>11. r.limits_hit = {} => Recorded(r, id, part)
  BY <1>3, <1>7, <1>9 DEF Grows, Recorded
<1> QED
  BY <1>1, <1>9, <1>10, <1>11 DEF Reads

LEMMA ImageIsCounted ==
  ASSUME NEW w, NEW due \in Nat, SoundWalk(w, due),
         NEW index \in Nat, index <= MAX_HTML_EMBEDDED_IMAGES,
         NEW c, c = [w EXCEPT !.html_images = index]
  PROVE  SoundWalk(c, due) /\ Grows(w, c) /\ c.images = w.images
<1>1. w \in WalkSet /\ Bounded(w, due) /\ (w.aborted => w.limits_hit # {})
  BY DEF SoundWalk
<1>2. c \in WalkSet
  BY <1>1 DEF WalkSet
<1>3. /\ c.html_images = index
      /\ c.texts = w.texts /\ c.htmls = w.htmls
      /\ c.attachments = w.attachments /\ c.images = w.images /\ c.links = w.links
      /\ c.part_count = w.part_count
      /\ c.defects = w.defects /\ c.limits_hit = w.limits_hit /\ c.aborted = w.aborted
      /\ c.decoded_total = w.decoded_total
  BY <1>1 DEF WalkSet
<1>4. Bounded(c, due)
  BY <1>1, <1>3 DEF Bounded, VouchedTotal
<1>5. Grows(w, c)
  BY <1>3 DEF Grows
<1> QED
  BY <1>1, <1>2, <1>3, <1>4, <1>5 DEF SoundWalk

LEMMA EmbeddedIsSound ==
  ASSUME NEW w, NEW due \in Nat, SoundWalk(w, due), NEW id \in Nat, NEW part \in Parts,
         NEW size \in Nat
  PROVE  SoundWalk(Embedded(w, id, part, size), due) /\ Grows(w, Embedded(w, id, part, size))
<1> DEFINE index == w.html_images + 1
           c == Refuse(Charge(w, id, size), id)
           done == IF size = 0 THEN Defect(w, id, "undecodable_image") ELSE c
           status == IF size = 0 THEN "unavailable" ELSE ImageStatus(c, size)
           x == Pictured(id, index, [part EXCEPT !.links = << >>], size, status)
           d == [done EXCEPT !.html_images = index]
           r == [d EXCEPT !.images = Append(d.images, x)]
<1>1. /\ w \in WalkSet /\ w.html_images \in Nat /\ index \in Nat /\ 0 \in Nat
      /\ MAX_HTML_EMBEDDED_IMAGES \in Nat /\ max_decoded_bytes_per_part \in Nat
  BY LimitsTyped DEF SoundWalk, WalkSet
<1>2. CASE w.html_images >= MAX_HTML_EMBEDDED_IMAGES
  <2> DEFINE h == Hit(w, "max_html_embedded_images")
  <2>1. Embedded(w, id, part, size) = h
    BY <1>2 DEF Embedded
  <2>2. "max_html_embedded_images" \in LimitSet
    BY DEF LimitSet
  <2>3. Marks(w, h) /\ h.decoded_total = w.decoded_total
    BY <1>1, <2>2, HitMarks
  <2> HIDE DEF h
  <2> QED
    BY <2>1, <2>3, MarksAreSound, MarksGrow
<1>3. CASE ~(w.html_images >= MAX_HTML_EMBEDDED_IMAGES)
  <2>1. index <= MAX_HTML_EMBEDDED_IMAGES
    BY <1>1, <1>3
  <2>2. Embedded(w, id, part, size) =
          [done EXCEPT !.html_images = index, !.images = Append(@, x)]
    BY <1>3 DEF Embedded
  <2>3. ~TooBig(0) /\ due + 0 = due
    BY <1>1 DEF TooBig
  <2>4. /\ Marks(w, done) /\ SoundWalk(done, due)
        /\ status \in {"metadata_only", "over_limit", "unavailable"}
        /\ status = "metadata_only" => ~TooBig(size) /\ SoundWalk(done, due + size)
    <3>1. CASE size = 0
      <4> DEFINE f == Defect(w, id, "undecodable_image")
      <4>1. "undecodable_image" \in DefectSet
        BY DEF DefectSet
      <4>2. Marks(w, f) /\ f.decoded_total = w.decoded_total
        BY <1>1, <4>1, DefectMarks
      <4>3. done = f /\ status = "unavailable"
        BY <3>1
      <4> HIDE DEF f, done, status
      <4>4. SoundWalk(f, due)
        BY <4>2, MarksAreSound
      <4> QED
        BY <4>2, <4>3, <4>4
    <3>2. CASE size # 0
      <4>1. done = c /\ status = ImageStatus(c, size)
        BY <3>2
      <4>2. c = Refuse(Charge(w, id, size), id)
        OBVIOUS
      <4> HIDE DEF c, done, status
      <4>3. Pays(w, c, due, size)
        BY <4>2, ImageIsCharged
      <4> QED
        BY <4>1, <4>3 DEF Pays
    <3> QED
      BY <3>1, <3>2
  <2> HIDE DEF c, done, status, index
  <2>5. /\ x \in ImageSet
        /\ x.sha256 = IF status = "metadata_only" THEN size ELSE 0
    <3>1. << >> \in Seq(PartLinks)
      OBVIOUS
    <3>2. [part EXCEPT !.links = << >>].links = << >>
      BY PartTyped DEF Leaf
    <3> QED
      BY <1>1, <2>4, <3>1, <3>2 DEF Pictured, ImageSet
  <2> HIDE DEF x
  <2>6. x.sha256 \in Nat /\ ~TooBig(x.sha256) /\ SoundWalk(done, due + x.sha256)
    BY <2>3, <2>4, <2>5
  <2>7. due + x.sha256 \in Nat
    BY <2>6
  <2>8. done \in WalkSet
    BY <2>4 DEF SoundWalk
  <2>9. d = [done EXCEPT !.html_images = index]
    OBVIOUS
  <2>10. r = [d EXCEPT !.images = Append(d.images, x)]
    OBVIOUS
  <2>11. [done EXCEPT !.html_images = index, !.images = Append(@, x)] = r
    BY <2>8 DEF WalkSet
  <2> HIDE DEF d, r
  <2>12. SoundWalk(d, due + x.sha256) /\ Grows(done, d)
    BY <1>1, <2>1, <2>6, <2>7, <2>9, ImageIsCounted
  <2>13. SoundWalk(r, due) /\ Grows(d, r)
    BY <2>5, <2>6, <2>10, <2>12, KeepImage
  <2>14. Grows(w, r)
    BY <2>4, <2>12, <2>13, MarksGrow, GrowsChain
  <2> QED
    BY <2>2, <2>11, <2>13, <2>14
<1> QED
  BY <1>2, <1>3

LEMMA EmbeddedImagesAreSound ==
  ASSUME NEW w, NEW due \in Nat, SoundWalk(w, due), NEW id \in Nat, NEW part \in Parts
  PROVE  SoundWalk(EmbeddedImages(w, id, part), due) /\ Grows(w, EmbeddedImages(w, id, part))
<1> DEFINE N == Len(part.blobs)
           D == {d \in WalkSet : SoundWalk(d, due)}
           step(n, d) == Embedded(d, id, part, part.blobs[n])
           g == [n \in 1 .. N |-> [d \in D |-> step(n, d)]]
           K == CHOOSE f : f = [n \in 0 .. N |-> IF n = 0 THEN w
                                 ELSE Embedded(f[n - 1], id, part, part.blobs[n])]
<1>1. EmbeddedImages(w, id, part) = K[N]
  BY DEF EmbeddedImages
<1>2. N \in Nat /\ \A n \in 1 .. N : part.blobs[n] \in Nat
  BY PartTyped
<1>3. w \in D
  BY DEF SoundWalk
<1>4. \A n \in 1 .. N, d \in D : step(n, d) \in D /\ Grows(d, step(n, d))
  <2> SUFFICES ASSUME NEW n \in 1 .. N, NEW d \in D
               PROVE  step(n, d) \in D /\ Grows(d, step(n, d))
    OBVIOUS
  <2>1. SoundWalk(d, due) /\ part.blobs[n] \in Nat
    BY <1>2
  <2>2. SoundWalk(step(n, d), due) /\ Grows(d, step(n, d))
    BY <2>1, EmbeddedIsSound
  <2> QED
    BY <2>2 DEF SoundWalk
<1> HIDE DEF N, D, step
<1>5. g \in [1 .. N -> [D -> D]] /\ \A n \in 1 .. N, d \in D : g[n][d] = step(n, d)
  BY <1>4
<1> HIDE DEF g
<1>6. PICK f : f \in Runs(N, D, w, g)
  BY <1>2, <1>3, <1>5, Recursion
<1>7. f = [n \in 0 .. N |-> IF n = 0 THEN w ELSE step(n, f[n - 1])]
  BY <1>2, <1>5, <1>6 DEF Runs
<1>8. K = [n \in 0 .. N |-> IF n = 0 THEN w ELSE step(n, K[n - 1])]
  BY <1>7 DEF step
<1> HIDE DEF K
<1>9. K \in Runs(N, D, w, g)
  <2>1. K = [n \in 0 .. N |-> K[n]] /\ K[0] = w
    BY <1>2, <1>8
  <2>2. \A n \in 1 .. N : K[n - 1] \in D => K[n] = g[n][K[n - 1]]
    BY <1>2, <1>5, <1>8
  <2> QED
    BY <1>2, <1>3, <1>5, <2>1, <2>2, RecursionIsRun
<1>10. \A n \in 0 .. N : K[n] \in D
  BY <1>9 DEF Runs
<1> DEFINE P == {n \in 0 .. N : Grows(w, K[n])}
<1>11. 0 \in P
  BY <1>2, <1>8 DEF Grows
<1>12. ASSUME NEW n \in 1 .. N, n - 1 \in P PROVE n \in P
  <2>1. n - 1 \in 0 .. N /\ n \in 0 .. N
    BY <1>2
  <2>2. K[n] = step(n, K[n - 1])
    BY <1>2, <1>8
  <2>3. Grows(w, K[n - 1])
    BY <1>12
  <2>4. Grows(K[n - 1], K[n])
    BY <1>4, <1>10, <2>1, <2>2
  <2> QED
    BY <2>1, <2>3, <2>4, GrowsChain
<1> HIDE DEF P
<1>13. \A n \in 0 .. N : n \in P
  BY <1>2, <1>11, <1>12, UpTo
<1>14. N \in P /\ K[N] \in D
  BY <1>2, <1>10, <1>13
<1> QED
  BY <1>1, <1>14 DEF P, D

\* A text or HTML part: charged, kept, and its links with it.
LEMMA TextIsRead ==
  ASSUME NEW w, SoundWalk(w, 0), ~w.aborted, NEW id \in Nat, NEW part \in Parts,
         part.kind \in {"text", "html"}
  PROVE  Reads(w, WalkText(w, id, part), id, part)
<1> DEFINE charged == Charge(w, id, part.size)
           over == TooBig(part.size) \/ charged.aborted
           kept == IF part.kind = "html" THEN EmbeddedImages(charged, id, part) ELSE charged
           found == [kept EXCEPT !.links = kept.links \o LinksOf(id, part)]
           text == TextOf(id, part)
           r == WalkText(w, id, part)
<1>1. r = CASE over -> Defect(charged, id, "over_limit")
            [] ~over /\ part.kind = "text" -> [found EXCEPT !.texts = Append(found.texts, text)]
            [] OTHER -> [found EXCEPT !.htmls = Append(found.htmls, text)]
  BY DEF WalkText
<1> HIDE DEF r
<1>2. w \in WalkSet /\ part.size \in Nat /\ 0 \in Nat
  BY PartTyped DEF SoundWalk
<1>3. Charges(w, charged, part.size) /\ (TooBig(part.size) => charged.limits_hit # {})
  BY <1>2, ChargeCharges
<1> HIDE DEF charged
<1>4. SoundWalk(charged, 0) /\ (~charged.aborted => SoundWalk(charged, 0 + part.size))
  BY <1>2, <1>3, ChargeIsDue
<1>5. Marks(w, charged) /\ charged \in WalkSet
  BY <1>3 DEF Charges, Marks
<1>6. CASE over
  <2> DEFINE d == Defect(charged, id, "over_limit")
  <2>1. "over_limit" \in DefectSet
    BY DEF DefectSet
  <2>2. /\ Marks(charged, d) /\ <<id, "over_limit">> \in d.defects
        /\ d.decoded_total = charged.decoded_total
    BY <1>5, <2>1, DefectMarks
  <2>3. r = d
    BY <1>1, <1>6
  <2> HIDE DEF d
  <2>4. SoundWalk(d, 0)
    BY <1>2, <1>4, <2>2, MarksAreSound
  <2>5. Grows(w, d)
    BY <1>5, <2>2, MarksGrow, GrowsChain
  <2>6. Recorded(d, id, part)
    BY <2>2 DEF Recorded
  <2> QED
    BY <2>3, <2>4, <2>5, <2>6 DEF Reads, r
<1>7. CASE ~over
  <2>1. SoundWalk(charged, part.size) /\ ~TooBig(part.size)
    <3>1. 0 + part.size = part.size
      BY <1>2
    <3> QED
      BY <1>4, <1>7, <3>1
  <2>2. SoundWalk(kept, part.size) /\ Grows(charged, kept)
    <3>1. CASE part.kind = "html"
      BY <1>2, <2>1, <3>1, EmbeddedImagesAreSound
    <3>2. CASE part.kind # "html"
      <4>1. kept = charged
        BY <3>2
      <4> QED
        BY <2>1, <4>1 DEF Grows
    <3> QED
      BY <3>1, <3>2
  <2>a. r = IF part.kind = "text" THEN [found EXCEPT !.texts = Append(found.texts, text)]
            ELSE [found EXCEPT !.htmls = Append(found.htmls, text)]
    BY <1>1, <1>7
  <2> HIDE DEF kept
  <2>3. found = [kept EXCEPT !.links = kept.links \o LinksOf(id, part)]
    OBVIOUS
  <2> HIDE DEF found
  <2>4. SoundWalk(found, part.size) /\ Grows(kept, found) /\ Linked(found, id, part)
    BY <1>2, <2>2, <2>3, KeepLinks DEF Linked
  <2>5. text \in TextSet /\ text.size = part.size
    BY <1>2 DEF TextOf, TextSet
  <2> HIDE DEF text
  <2>6. 0 + part.size = part.size
    BY <1>2
  <2>7. ~TooBig(text.size) /\ SoundWalk(found, 0 + text.size)
    BY <2>1, <2>4, <2>5, <2>6
  <2>8. Grows(w, found)
    BY <1>5, <2>2, <2>4, MarksGrow, GrowsChain
  <2>9. CASE part.kind = "text"
    <3>1. r = [found EXCEPT !.texts = Append(found.texts, text)]
      BY <2>a, <2>9
    <3>2. SoundWalk(r, 0) /\ Grows(found, r) /\ text \in ToSet(r.texts)
      BY <2>5, <2>7, <3>1, KeepText
    <3>3. Linked(r, id, part)
      BY <2>4, <3>2 DEF Linked, Grows
    <3>4. Recorded(r, id, part)
      BY <2>9, <3>2, <3>3 DEF Recorded, text
    <3> QED
      BY <2>8, <3>2, <3>4, GrowsChain DEF Reads, r
  <2>10. CASE part.kind = "html"
    <3>1. r = [found EXCEPT !.htmls = Append(found.htmls, text)]
      BY <2>a, <2>10
    <3>2. SoundWalk(r, 0) /\ Grows(found, r) /\ text \in ToSet(r.htmls)
      BY <2>5, <2>7, <3>1, KeepHtml
    <3>3. Linked(r, id, part)
      BY <2>4, <3>2 DEF Linked, Grows
    <3>4. Recorded(r, id, part)
      BY <2>10, <3>2, <3>3 DEF Recorded, text
    <3> QED
      BY <2>8, <3>2, <3>4, GrowsChain DEF Reads, r
  <2> QED
    BY <2>9, <2>10
<1> QED
  BY <1>6, <1>7

\* Each kind of leaf.
LEMMA LeafIsRead ==
  ASSUME NEW w, SoundWalk(w, 0), ~w.aborted, NEW id \in Nat, NEW part \in Parts
  PROVE  Reads(w, WalkLeaf(w, id, part), id, part)
<1>1. part.kind \in {"attachment", "image", "text", "html", "other", "multipart", "rfc822"}
  BY PartTyped
<1>2. CASE part.kind = "attachment"
  <2>1. WalkLeaf(w, id, part) = WalkAttachment(w, id, part)
    BY <1>2 DEF WalkLeaf
  <2> QED
    BY <1>2, <2>1, AttachmentIsRead
<1>3. CASE part.kind = "image"
  <2>1. WalkLeaf(w, id, part) = WalkImage(w, id, part)
    BY <1>3 DEF WalkLeaf
  <2> QED
    BY <1>3, <2>1, ImageIsRead
<1>4. CASE part.kind \in {"text", "html"}
  <2>1. WalkLeaf(w, id, part) = WalkText(w, id, part)
    BY <1>4 DEF WalkLeaf
  <2> QED
    BY <1>4, <2>1, TextIsRead
<1>5. CASE part.kind = "multipart"
  <2>1. WalkLeaf(w, id, part) = w
    BY <1>5 DEF WalkLeaf
  <2>2. Grows(w, w) /\ Recorded(w, id, part)
    BY <1>5 DEF Grows, Recorded
  <2> QED
    BY <2>1, <2>2 DEF Reads
<1>6. CASE part.kind \in {"other", "rfc822"}
  <2> DEFINE what == IF part.kind = "rfc822" THEN "embedded_message" ELSE "unhandled_leaf"
             d == Defect(w, id, what)
  <2>1. WalkLeaf(w, id, part) = d
    BY <1>6 DEF WalkLeaf
  <2>2. what \in DefectSet
    BY DEF DefectSet
  <2> HIDE DEF what
  <2>3. /\ Marks(w, d) /\ <<id, what>> \in d.defects
        /\ d.decoded_total = w.decoded_total
    BY <2>2, DefectMarks DEF SoundWalk
  <2> HIDE DEF d
  <2>4. SoundWalk(d, 0) /\ Grows(w, d)
    BY <2>3, MarksAreSound, MarksGrow
  <2>5. Recorded(d, id, part)
    BY <2>3 DEF Recorded
  <2> QED
    BY <2>1, <2>4, <2>5 DEF Reads
<1> QED
  BY <1>1, <1>2, <1>3, <1>4, <1>5, <1>6

-----------------------------------------------------------------------------
(***************************************************************************)
(* The inductive invariant of the mail.                                    *)
(***************************************************************************)
StatusSet == {"metadata_only", "over_limit", "unavailable", "unsupported", "supplied_to_model"}
VisualSet == [image : ImageSet, status : StatusSet, qr : Seq(PartLinks)]
LevelSet == [depth : Nat, single : BOOLEAN]

\* A walk that has met no limit has read the parts of the document, and each
\* of them is on record.
ReadSoFar ==
  /\ SoundWalk(walk, 0)
  /\ document \in Seq(Parts)
  /\ open \in Seq(LevelSet)
  /\ unread \in BOOLEAN
  /\ unread => walk.aborted
  /\ walk.limits_hit = {} =>
       /\ walk.part_count = Len(document)
       /\ \A id \in 1 .. Len(document) : Recorded(walk, id, document[id])

Planned ==
  /\ stage \in {"walk", "parsed", "prepared", "sent", "refused"}
  /\ stage # "walk" => targets = plan_vt_targets(walk.links, ParsedObservables)

\* The supplied visuals, their pixels, and each tied to its reference.
Supplied(visuals) == Only(visuals, SuppliedOf(visuals))
Pixels(supplied) == [i \in 1 .. Len(supplied) |-> supplied[i].image.sha256]
Tied(image) == [visual |-> ImageRef(image), bytes |-> image.sha256]
References(supplied) == [i \in 1 .. Len(supplied) |-> Tied(supplied[i].image)]

StagedFrom(prep, supplied, on) ==
  /\ prep.staged = References(supplied)
  /\ \A i \in 1 .. Len(supplied) :
       /\ supplied[i].image.status = "metadata_only"
       /\ supplied[i].image.sha256 <= max_image_bytes
  /\ prep.accepted \in Nat
  /\ Len(supplied) <= prep.accepted
  /\ Len(supplied) <= max_images
  /\ prep.staged_total = Total(Pixels(supplied))
  /\ prep.staged_total <= max_total_bytes
  /\ ~on.vision => supplied = << >>

\* The visuals are those of the images, one for each.
VisualsOf(visuals, images) ==
  /\ visuals \in Seq(VisualSet)
  /\ Len(visuals) = Len(images)
  /\ \A i \in 1 .. Len(images) : visuals[i].image = images[i]

PreparedSoFar ==
  /\ StagedFrom(prepared, Supplied(prepared.visuals), switches)
  /\ stage \in {"walk", "parsed"} => prepared = NotPrepared
  /\ stage \in {"prepared", "sent"} => VisualsOf(prepared.visuals, walk.images)

Closed(sent) ==
  \A i \in 1 .. Len(sent.evidence) :
    \/ sent.evidence[i].observable = NoObservable
    \/ Contains(sent.observables, sent.evidence[i].observable)

MailInv ==
  /\ ReadSoFar /\ Planned /\ PreparedSoFar
  /\ Closed(envelope) /\ NothingIsLostInSilence

\* The walk before its first part.
LEMMA NoWalkIsSound == SoundWalk(NoWalk, 0)
<1>1. NoWalk \in WalkSet
  BY DEF NoWalk, WalkSet
<1>2. Sizes(<< >>) = << >> /\ Hashes(<< >>) = << >>
  BY DEF Sizes, Hashes
<1>3. VouchedTotal(NoWalk) = 0
  BY <1>2, TotalOfNone DEF VouchedTotal, NoWalk
<1>4. /\ max_decoded_bytes_total \in Nat /\ max_attachments \in Nat \ {0}
      /\ MAX_HTML_EMBEDDED_IMAGES \in Nat
  BY LimitsTyped
<1>5. /\ Len(NoWalk.texts) = 0 /\ Len(NoWalk.htmls) = 0 /\ Len(NoWalk.attachments) = 0
      /\ Len(NoWalk.images) = 0 /\ NoWalk.html_images = 0 /\ NoWalk.decoded_total = 0
      /\ ~NoWalk.aborted
  BY DEF NoWalk
<1>6. Bounded(NoWalk, 0)
  BY <1>3, <1>4, <1>5 DEF Bounded
<1> QED
  BY <1>1, <1>5, <1>6 DEF SoundWalk

\* Counting a part.
LEMMA CountedIsSound ==
  ASSUME NEW w, SoundWalk(w, 0)
  PROVE  /\ SoundWalk(Counted(w), 0) /\ Counted(w).part_count = w.part_count + 1
         /\ Counted(w).limits_hit = w.limits_hit /\ Counted(w).aborted = w.aborted
         /\ \A id, part : Recorded(w, id, part) => Recorded(Counted(w), id, part)
<1> DEFINE count == w.part_count + 1
           c == [w EXCEPT !.part_count = count]
<1>1. w \in WalkSet /\ Bounded(w, 0) /\ (w.aborted => w.limits_hit # {}) /\ count \in Nat
  BY DEF SoundWalk, WalkSet
<1>2. Counted(w) = c
  BY DEF Counted
<1> HIDE DEF count
<1>3. c \in WalkSet
  BY <1>1 DEF WalkSet
<1>4. /\ c.part_count = count
      /\ c.texts = w.texts /\ c.htmls = w.htmls /\ c.html_images = w.html_images
      /\ c.attachments = w.attachments /\ c.images = w.images /\ c.links = w.links
      /\ c.defects = w.defects /\ c.limits_hit = w.limits_hit /\ c.aborted = w.aborted
      /\ c.decoded_total = w.decoded_total
  BY <1>1 DEF WalkSet
<1> HIDE DEF c
<1>5. Bounded(c, 0)
  BY <1>1, <1>4 DEF Bounded, VouchedTotal
<1>6. \A id, part : Recorded(w, id, part) => Recorded(c, id, part)
  BY <1>4 DEF Recorded, Linked
<1> QED
  BY <1>1, <1>2, <1>3, <1>4, <1>5, <1>6 DEF SoundWalk, count

\* A walk that is stopped says why.
LEMMA AbortIsSound ==
  ASSUME NEW w, NEW limit \in LimitSet, SoundWalk(w, 0)
  PROVE  SoundWalk(Abort(w, limit), 0) /\ Abort(w, limit).limits_hit # {}
<1>1. w \in WalkSet
  BY DEF SoundWalk
<1>2. Marks(w, Abort(w, limit)) /\ Abort(w, limit).aborted /\ Abort(w, limit).limits_hit # {}
  BY <1>1, AbortMarks
<1> QED
  BY <1>2, MarksAreSound

\* The three steps of the walk keep what it has read on record.
LEMMA PartIsRead ==
  ASSUME ReadSoFar, NEW part \in Parts, WalkPart(part)
  PROVE  ReadSoFar'
<1> DEFINE top == Last(open)
           rest == IF top.single THEN Front(open) ELSE open
           deeper == [depth |-> top.depth + 1, single |-> part.kind = "rfc822"]
           id == walk.part_count + 1
           counted == Counted(walk)
<1>1. /\ ~walk.aborted /\ open # << >>
      /\ document' = Append(document, part)
      /\ open' = IF part.kind \in {"multipart", "rfc822"} THEN Append(rest, deeper) ELSE rest
      /\ walk' = CASE top.depth > max_mime_depth -> Abort(walk, "max_mime_depth")
                   [] top.depth <= max_mime_depth /\ id > max_mime_parts ->
                        Abort(counted, "max_mime_parts")
                   [] OTHER -> WalkLeaf(counted, id, part)
      /\ unread' = unread
  BY DEF WalkPart, Walking
<1>2. /\ SoundWalk(walk, 0) /\ document \in Seq(Parts) /\ open \in Seq(LevelSet)
      /\ unread \in BOOLEAN /\ (unread => walk.aborted)
      /\ walk.limits_hit = {} =>
           /\ walk.part_count = Len(document)
           /\ \A k \in 1 .. Len(document) : Recorded(walk, k, document[k])
  BY DEF ReadSoFar
<1>3. /\ document' \in Seq(Parts) /\ Len(document') = Len(document) + 1 /\ Len(document) \in Nat
      /\ \A k \in 1 .. Len(document) : document'[k] = document[k]
      /\ document'[Len(document) + 1] = part
  BY <1>1, <1>2
<1>4. open' \in Seq(LevelSet)
  <2>1. top \in LevelSet /\ Front(open) \in Seq(LevelSet)
    BY <1>1, <1>2 DEF Last, Front
  <2>2. deeper \in LevelSet
    BY <2>1 DEF LevelSet
  <2> HIDE DEF top, deeper
  <2>3. rest \in Seq(LevelSet)
    BY <1>2, <2>1
  <2> HIDE DEF rest
  <2> QED
    BY <1>1, <2>2, <2>3
<1>5. unread' \in BOOLEAN /\ (unread' => walk'.aborted)
  <2>1. ~unread /\ unread' = unread
    BY <1>1, <1>2
  <2> QED
    BY <1>2, <2>1
<1>a. top.depth \in Nat /\ max_mime_depth \in Nat
  <2>1. top \in LevelSet
    BY <1>1, <1>2 DEF Last
  <2> QED
    BY <2>1, LimitsTyped DEF LevelSet
<1>6. walk.part_count \in Nat /\ id \in Nat
  BY <1>2 DEF SoundWalk, WalkSet
<1>7. /\ SoundWalk(counted, 0) /\ counted.part_count = walk.part_count + 1
      /\ counted.limits_hit = walk.limits_hit /\ counted.aborted = walk.aborted
      /\ \A k, p : Recorded(walk, k, p) => Recorded(counted, k, p)
  BY <1>2, CountedIsSound
<1> HIDE DEF top, rest, deeper, counted
<1>8. CASE top.depth > max_mime_depth
  <2>1. walk' = Abort(walk, "max_mime_depth")
    BY <1>1, <1>8, <1>a
  <2>2. "max_mime_depth" \in LimitSet
    BY DEF LimitSet
  <2>3. SoundWalk(walk', 0) /\ walk'.limits_hit # {}
    BY <1>2, <2>1, <2>2, AbortIsSound
  <2> QED
    BY <1>3, <1>4, <1>5, <2>3 DEF ReadSoFar
<1>9. CASE ~(top.depth > max_mime_depth) /\ id > max_mime_parts
  <2>b. walk' = Abort(counted, "max_mime_parts")
    BY <1>1, <1>9, <1>a
  <2>2. "max_mime_parts" \in LimitSet
    BY DEF LimitSet
  <2>3. SoundWalk(walk', 0) /\ walk'.limits_hit # {}
    BY <1>7, <2>b, <2>2, AbortIsSound
  <2> QED
    BY <1>3, <1>4, <1>5, <2>3 DEF ReadSoFar
<1>10. CASE ~(top.depth > max_mime_depth) /\ ~(id > max_mime_parts)
  <2>1. walk' = WalkLeaf(counted, id, part)
    BY <1>1, <1>10, <1>a
  <2>2. Reads(counted, walk', id, part)
    BY <1>1, <1>6, <1>7, <2>1, LeafIsRead
  <2>3. SoundWalk(walk', 0) /\ Grows(counted, walk')
    BY <2>2 DEF Reads
  <2>4. ASSUME walk'.limits_hit = {}
        PROVE  /\ walk'.part_count = Len(document')
               /\ \A k \in 1 .. Len(document') : Recorded(walk', k, document'[k])
    <3>1. walk.limits_hit = {}
      BY <1>7, <2>3, <2>4 DEF Grows
    <3>2. id = Len(document) + 1 /\ walk'.part_count = id
      BY <1>2, <1>7, <2>3, <3>1 DEF Grows
    <3>3. ASSUME NEW k \in 1 .. Len(document') PROVE Recorded(walk', k, document'[k])
      <4>1. CASE k = Len(document) + 1
        BY <1>3, <2>2, <2>4, <3>2, <4>1 DEF Reads
      <4>2. CASE k # Len(document) + 1
        <5>1. k \in 1 .. Len(document) /\ document'[k] = document[k]
          BY <1>3, <4>2
        <5>2. Recorded(walk, k, document[k])
          BY <1>2, <3>1, <5>1
        <5>3. Recorded(counted, k, document[k])
          BY <1>7, <5>2
        <5> QED
          BY <2>3, <5>1, <5>3, RecordedStays
      <4> QED
        BY <4>1, <4>2
    <3> QED
      BY <1>3, <3>2, <3>3
  <2> QED
    BY <1>3, <1>4, <1>5, <2>3, <2>4 DEF ReadSoFar
<1> QED
  BY <1>8, <1>9, <1>10

LEMMA LeavingIsRead ==
  ASSUME ReadSoFar, LeaveContainer
  PROVE  ReadSoFar'
<1>1. open \in Seq(LevelSet) /\ open # << >> /\ open' = Front(open)
  BY DEF ReadSoFar, LeaveContainer, Walking
<1>2. open' \in Seq(LevelSet)
  BY <1>1 DEF Front
<1>3. walk' = walk /\ document' = document /\ unread' = unread
  BY DEF LeaveContainer
<1> QED
  BY <1>2, <1>3 DEF ReadSoFar

LEMMA EndIsRead ==
  ASSUME ReadSoFar, EndOfWalk
  PROVE  ReadSoFar'
<1>1. /\ walk' = walk /\ document' = document /\ open' = open
      /\ unread' \in (IF open = << >> THEN {FALSE} ELSE BOOLEAN)
      /\ walk.aborted \/ open = << >>
  BY DEF EndOfWalk, Walking
<1>2. unread' \in BOOLEAN /\ (unread' => walk.aborted)
  BY <1>1
<1> QED
  BY <1>1, <1>2 DEF ReadSoFar

-----------------------------------------------------------------------------
(***************************************************************************)
(* The images.                                                             *)
(***************************************************************************)
ReferenceSet == {Tied(image) : image \in ImageSet}
PreparationSet == [visuals : Seq(VisualSet), staged : Seq(ReferenceSet),
                   staged_total : Nat, accepted : Nat]

\* The supplied visuals, and their pixels, of one visual more.
LEMMA SuppliedOfOneMore ==
  ASSUME NEW visuals \in Seq(VisualSet), NEW v \in VisualSet
  PROVE  /\ Supplied(visuals) \in Seq(VisualSet)
         /\ Supplied(Append(visuals, v)) = IF v.status = "supplied_to_model"
                                           THEN Append(Supplied(visuals), v) ELSE Supplied(visuals)
<1> DEFINE longer == Append(visuals, v)
           S == SuppliedOf(visuals)
           S2 == SuppliedOf(longer)
<1>1. /\ longer \in Seq(VisualSet) /\ ToSet(visuals) \subseteq ToSet(longer)
      /\ v \in ToSet(longer)
  BY ToSetOfOneMore
<1> HIDE DEF longer
<1>2. \A i \in 1 .. Len(visuals) : visuals[i] \in ToSet(visuals)
  BY DEF ToSet
<1>3. \A i \in 1 .. Len(visuals) : visuals[i] \in S <=> visuals[i] \in S2
  BY <1>1, <1>2 DEF SuppliedOf
<1>4. v \in S2 <=> v.status = "supplied_to_model"
  BY <1>1 DEF SuppliedOf
<1> HIDE DEF S, S2
<1>5. Only(longer, S2) = IF v \in S2 THEN Append(Only(visuals, S), v) ELSE Only(visuals, S)
  BY <1>3, OnlyOfOneMore DEF longer
<1>6. IsSelection(Only(visuals, S), VisualSet, visuals, S)
  BY OnlyElements
<1> QED
  BY <1>4, <1>5, <1>6 DEF IsSelection, Supplied, S, S2, longer

LEMMA PixelsOfOneMore ==
  ASSUME NEW supplied \in Seq(VisualSet), NEW v \in VisualSet
  PROVE  /\ Total(Pixels(supplied)) \in Nat
         /\ Total(Pixels(Append(supplied, v))) = Total(Pixels(supplied)) + v.image.sha256
         /\ References(supplied) \in Seq(ReferenceSet)
         /\ References(Append(supplied, v)) = Append(References(supplied), Tied(v.image))
<1>1. \A x \in VisualSet : x.image \in ImageSet /\ x.image.sha256 \in Nat
  BY KeptFits DEF VisualSet, HashesFit
<1>2. \A i \in 1 .. Len(supplied) : supplied[i] \in VisualSet
  OBVIOUS
<1>3. \A i \in 1 .. Len(supplied) : supplied[i].image.sha256 \in Nat /\ Tied(supplied[i].image) \in ReferenceSet
  BY <1>1, <1>2 DEF ReferenceSet
<1>4. v.image.sha256 \in Nat /\ Tied(v.image) \in ReferenceSet
  BY <1>1 DEF ReferenceSet
<1>5. Pixels(supplied) \in Seq(Nat) /\ Len(Pixels(supplied)) = Len(supplied)
  BY <1>3 DEF Pixels
<1>6. References(supplied) \in Seq(ReferenceSet) /\ Len(References(supplied)) = Len(supplied)
  BY <1>3 DEF References
<1> DEFINE longer == Append(supplied, v)
<1>7. /\ Len(longer) = Len(supplied) + 1 /\ Len(supplied) \in Nat
      /\ \A i \in 1 .. Len(supplied) : longer[i] = supplied[i]
      /\ longer[Len(supplied) + 1] = v
  OBVIOUS
<1> HIDE DEF longer
<1>8. \A i \in 1 .. Len(longer) : i \in 1 .. Len(supplied) \/ i = Len(supplied) + 1
  BY <1>7
<1>9. Pixels(longer) = Append(Pixels(supplied), v.image.sha256)
  <2> DEFINE a == Pixels(longer)  b == Append(Pixels(supplied), v.image.sha256)
  <2>1. \A i \in 1 .. Len(longer) : longer[i].image.sha256 \in Nat
    BY <1>3, <1>4, <1>7, <1>8
  <2>2. a \in Seq(Nat) /\ Len(a) = Len(longer)
    BY <1>7, <2>1 DEF Pixels
  <2>3. b \in Seq(Nat) /\ Len(b) = Len(longer)
    BY <1>4, <1>5, <1>7
  <2>4. \A i \in 1 .. Len(longer) : a[i] = b[i]
    <3>1. \A i \in 1 .. Len(supplied) : a[i] = supplied[i].image.sha256 /\ b[i] = supplied[i].image.sha256
      BY <1>4, <1>5, <1>7 DEF Pixels
    <3>2. a[Len(supplied) + 1] = v.image.sha256 /\ b[Len(supplied) + 1] = v.image.sha256
      BY <1>4, <1>5, <1>7 DEF Pixels
    <3> QED
      BY <1>8, <3>1, <3>2
  <2> HIDE DEF a, b
  <2>5. a = b
    BY <2>2, <2>3, <2>4, SeqEqual
  <2> QED
    BY <2>5 DEF a, b
<1>10. References(longer) = Append(References(supplied), Tied(v.image))
  <2> DEFINE a == References(longer)  b == Append(References(supplied), Tied(v.image))
  <2>1. \A i \in 1 .. Len(longer) : Tied(longer[i].image) \in ReferenceSet
    BY <1>3, <1>4, <1>7, <1>8
  <2>2. a \in Seq(ReferenceSet) /\ Len(a) = Len(longer)
    BY <1>7, <2>1 DEF References
  <2>3. b \in Seq(ReferenceSet) /\ Len(b) = Len(longer)
    BY <1>4, <1>6, <1>7
  <2>4. \A i \in 1 .. Len(longer) : a[i] = b[i]
    <3>1. \A i \in 1 .. Len(supplied) : a[i] = Tied(supplied[i].image) /\ b[i] = Tied(supplied[i].image)
      BY <1>4, <1>6, <1>7 DEF References
    <3>2. a[Len(supplied) + 1] = Tied(v.image) /\ b[Len(supplied) + 1] = Tied(v.image)
      BY <1>4, <1>6, <1>7 DEF References
    <3> QED
      BY <1>8, <3>1, <3>2
  <2> HIDE DEF a, b
  <2>5. a = b
    BY <2>2, <2>3, <2>4, SeqEqual
  <2> QED
    BY <2>5 DEF a, b
<1> QED
  BY <1>4, <1>5, <1>6, <1>9, <1>10, TotalIsANumber, TotalOfOneMore DEF longer

\* The reason given is one of those listed.
LEMMA RefusedAs ==
  ASSUME NEW prep, NEW image \in ImageSet, NEW data, NEW on,
         Refusals(prep, image, data, on) # {}
  PROVE  Reasons(prep, image, data, on)[Min(Refusals(prep, image, data, on))][2]
           \in {"metadata_only", "over_limit", "unavailable", "unsupported"}
<1> DEFINE R == Refusals(prep, image, data, on)
           all == Reasons(prep, image, data, on)
<1>1. R \subseteq 1 .. 9 /\ R # {}
  BY DEF Refusals
<1>2. image.status \in {"metadata_only", "over_limit", "unavailable"}
  BY DEF ImageSet
<1>3. \A k \in 1 .. 9 : all[k][2] \in {"metadata_only", "over_limit", "unavailable", "unsupported"}
  BY <1>2 DEF Reasons
<1> HIDE DEF R, all
<1>4. R \subseteq Nat
  BY <1>1
<1>5. \E n \in R : \A m \in R : n <= m
  BY <1>1, <1>4, LeastNumber
<1>6. Min(R) \in R
  BY <1>5 DEF Min
<1> QED
  BY <1>1, <1>3, <1>6 DEF R, all

\* A preparation that has staged what its visuals say.
Preparations(on) ==
  {prep \in PreparationSet : StagedFrom(prep, Supplied(prep.visuals), on)}

OneMoreVisual(old, new, image, on) ==
  /\ new \in Preparations(on)
  /\ \E v \in VisualSet : v.image = image /\ new.visuals = Append(old.visuals, v)

\* An image that is not supplied leaves what is staged alone.
LEMMA VisualIsKept ==
  ASSUME NEW on, NEW prep \in Preparations(on), NEW v \in VisualSet,
         v.status # "supplied_to_model", NEW count \in Nat, count >= prep.accepted,
         NEW r, r = [visuals |-> Append(prep.visuals, v), staged |-> prep.staged,
                     staged_total |-> prep.staged_total, accepted |-> count]
  PROVE  OneMoreVisual(prep, r, v.image, on)
<1>1. /\ prep \in PreparationSet /\ prep.visuals \in Seq(VisualSet) /\ prep.accepted \in Nat
      /\ StagedFrom(prep, Supplied(prep.visuals), on)
  BY DEF Preparations, PreparationSet
<1> DEFINE s == Supplied(prep.visuals)
<1>2. s \in Seq(VisualSet) /\ Supplied(Append(prep.visuals, v)) = s
  BY <1>1, SuppliedOfOneMore
<1>3. /\ r.visuals = Append(prep.visuals, v) /\ r.staged = prep.staged
      /\ r.staged_total = prep.staged_total /\ r.accepted = count
  OBVIOUS
<1>4. r \in PreparationSet
  BY <1>1 DEF PreparationSet
<1> HIDE DEF s
<1>5. Len(s) \in Nat
  BY <1>2
<1>6. StagedFrom(prep, s, on)
  BY <1>1 DEF s
<1>7. StagedFrom(r, s, on)
  BY <1>1, <1>3, <1>5, <1>6 DEF StagedFrom
<1> QED
  BY <1>2, <1>3, <1>4, <1>7 DEF OneMoreVisual, Preparations

\* One that is supplied passed every limit.
LEMMA VisualIsSupplied ==
  ASSUME NEW on, on.vision, NEW prep \in Preparations(on), NEW v \in VisualSet,
         v.status = "supplied_to_model", v.image.status = "metadata_only",
         v.image.sha256 <= max_image_bytes,
         prep.staged_total + v.image.sha256 <= max_total_bytes,
         prep.accepted + 1 <= max_images,
         NEW r, r = [visuals |-> Append(prep.visuals, v),
                     staged |-> Append(prep.staged, Tied(v.image)),
                     staged_total |-> prep.staged_total + v.image.sha256,
                     accepted |-> prep.accepted + 1]
  PROVE  OneMoreVisual(prep, r, v.image, on)
<1>1. /\ prep \in PreparationSet /\ prep.visuals \in Seq(VisualSet) /\ prep.accepted \in Nat
      /\ prep.staged_total \in Nat /\ prep.staged \in Seq(ReferenceSet)
      /\ StagedFrom(prep, Supplied(prep.visuals), on)
  BY DEF Preparations, PreparationSet
<1>a. max_images \in Nat /\ max_total_bytes \in Nat
  BY VisionAssumption
<1> DEFINE s == Supplied(prep.visuals)
           longer == Append(s, v)
<1>2. s \in Seq(VisualSet) /\ Supplied(Append(prep.visuals, v)) = longer
  BY <1>1, SuppliedOfOneMore
<1>3. /\ r.visuals = Append(prep.visuals, v) /\ r.staged = Append(prep.staged, Tied(v.image))
      /\ r.staged_total = prep.staged_total + v.image.sha256 /\ r.accepted = prep.accepted + 1
  OBVIOUS
<1>4. v.image \in ImageSet /\ v.image.sha256 \in Nat /\ Tied(v.image) \in ReferenceSet
  BY KeptFits DEF VisualSet, HashesFit, ReferenceSet
<1>5. r \in PreparationSet
  <2>1. Append(prep.visuals, v) \in Seq(VisualSet) /\ Append(prep.staged, Tied(v.image)) \in Seq(ReferenceSet)
    BY <1>1, <1>4
  <2>2. prep.staged_total + v.image.sha256 \in Nat /\ prep.accepted + 1 \in Nat
    BY <1>1, <1>4
  <2> QED
    BY <2>1, <2>2 DEF PreparationSet
<1> HIDE DEF s
<1>6. StagedFrom(prep, s, on)
  BY <1>1 DEF s
<1>7. /\ Total(Pixels(longer)) = Total(Pixels(s)) + v.image.sha256
      /\ References(longer) = Append(References(s), Tied(v.image))
  BY <1>2, PixelsOfOneMore
<1>8. /\ Len(longer) = Len(s) + 1 /\ Len(s) \in Nat
      /\ \A i \in 1 .. Len(s) : longer[i] = s[i]
      /\ longer[Len(s) + 1] = v
  BY <1>2
<1> HIDE DEF longer
<1>9. \A i \in 1 .. Len(longer) : longer[i] = v \/ \E j \in 1 .. Len(s) : longer[i] = s[j]
  <2>1. \A i \in 1 .. Len(longer) : i \in 1 .. Len(s) \/ i = Len(s) + 1
    BY <1>8
  <2> QED
    BY <1>8, <2>1
<1>10. \A i \in 1 .. Len(longer) :
         longer[i].image.status = "metadata_only" /\ longer[i].image.sha256 <= max_image_bytes
  BY <1>6, <1>9 DEF StagedFrom
<1>11. /\ Len(longer) <= prep.accepted + 1 /\ Len(longer) <= max_images
       /\ prep.accepted + 1 \in Nat
  BY <1>1, <1>6, <1>8, <1>a DEF StagedFrom
<1>12. /\ r.staged = References(longer) /\ r.staged_total = Total(Pixels(longer))
       /\ r.staged_total <= max_total_bytes
  BY <1>3, <1>6, <1>7 DEF StagedFrom
<1>13. StagedFrom(r, longer, on)
  BY <1>3, <1>10, <1>11, <1>12 DEF StagedFrom
<1> QED
  BY <1>2, <1>3, <1>5, <1>13 DEF OneMoreVisual, Preparations

\* Each image is refused for a reason or supplied within the limits.
LEMMA OneImage ==
  ASSUME NEW on, NEW prep \in Preparations(on), NEW image \in ImageSet, NEW data
  PROVE  OneMoreVisual(prep, PrepareVisual(prep, image, data, on), image, on)
<1> DEFINE refusals == Refusals(prep, image, data, on)
           refused == Reasons(prep, image, data, on)[Min(refusals)][2]
           next == [prep EXCEPT !.accepted = @ + 1]
           decoded == on.qr /\ on.zxing
           r == PrepareVisual(prep, image, data, on)
           all == Reasons(prep, image, data, on)
<1>1. r = CASE refusals # {} -> Keep(prep, Visual(image, refused, FALSE))
            [] refusals = {} /\ next.accepted > max_images ->
                 Keep(next, Visual(image, "over_limit", FALSE))
            [] refusals = {} /\ next.accepted <= max_images /\ ~SameBytes(data, image) ->
                 Keep(next, Visual(image, "unavailable", FALSE))
            [] /\ refusals = {} /\ next.accepted <= max_images
               /\ SameBytes(data, image) /\ ~on.vision ->
                 Keep(next, Visual(image, image.status, decoded))
            [] OTHER ->
                 [Keep(next, Visual(image, "supplied_to_model", decoded)) EXCEPT
                    !.staged = Append(@, Staged(image, data)),
                    !.staged_total = @ + data.size]
  BY DEF PrepareVisual
<1> HIDE DEF r
<1>2. /\ prep \in PreparationSet /\ prep.accepted \in Nat /\ prep.staged_total \in Nat
      /\ prep = [visuals |-> prep.visuals, staged |-> prep.staged,
                 staged_total |-> prep.staged_total, accepted |-> prep.accepted]
      /\ image.status \in {"metadata_only", "over_limit", "unavailable"}
      /\ image.sha256 \in Nat /\ image.links \in Seq(PartLinks)
      /\ max_images \in Nat /\ max_image_bytes \in Nat /\ max_total_bytes \in Nat
  BY VisionAssumption DEF Preparations, PreparationSet, ImageSet
<1>3. \A status \in StatusSet, read \in BOOLEAN :
        /\ Visual(image, status, read) \in VisualSet
        /\ Visual(image, status, read).image = image
        /\ Visual(image, status, read).status = status
  <2>1. << >> \in Seq(PartLinks)
    OBVIOUS
  <2> QED
    BY <1>2, <2>1 DEF Visual, VisualSet
<1>4. /\ next.accepted = prep.accepted + 1
      /\ next = [visuals |-> prep.visuals, staged |-> prep.staged,
                 staged_total |-> prep.staged_total, accepted |-> prep.accepted + 1]
  BY <1>2
<1>5. CASE refusals # {}
  <2> DEFINE v == Visual(image, refused, FALSE)
  <2>1. refused \in {"metadata_only", "over_limit", "unavailable", "unsupported"}
    BY <1>5, RefusedAs
  <2>2. r = Keep(prep, v)
    BY <1>1, <1>5
  <2> HIDE DEF refused
  <2>3. v \in VisualSet /\ v.image = image /\ v.status # "supplied_to_model"
    BY <1>3, <2>1 DEF StatusSet
  <2> HIDE DEF v
  <2>4. r = [visuals |-> Append(prep.visuals, v), staged |-> prep.staged,
             staged_total |-> prep.staged_total, accepted |-> prep.accepted]
    BY <1>2, <2>2 DEF Keep
  <2>5. prep.accepted >= prep.accepted
    BY <1>2
  <2>6. OneMoreVisual(prep, r, v.image, on)
    BY <1>2, <2>3, <2>4, <2>5, VisualIsKept
  <2> QED
    BY <2>3, <2>6 DEF r
<1> DEFINE same == SameBytes(data, image)
<1>6. CASE refusals = {} /\ (next.accepted > max_images \/ ~same \/ ~on.vision)
  <2> DEFINE status == IF next.accepted > max_images THEN "over_limit"
                       ELSE IF same THEN image.status ELSE "unavailable"
             read == IF next.accepted > max_images \/ ~same THEN FALSE ELSE decoded
             v == Visual(image, status, read)
  <2>1. r = Keep(next, v)
    <3> HIDE DEF refusals, refused, next, same
    <3>1. CASE next.accepted > max_images
      <4>1. status = "over_limit" /\ read = FALSE
        BY <3>1
      <4> HIDE DEF status, read, decoded
      <4>2. ~(next.accepted <= max_images)
        BY <1>2, <1>4, <3>1
      <4>3. r = Keep(next, Visual(image, "over_limit", FALSE))
        BY <1>1, <1>6, <3>1, <4>2
      <4> QED
        BY <4>1, <4>3
    <3>2. CASE ~(next.accepted > max_images) /\ ~same
      <4>1. next.accepted <= max_images
        BY <1>2, <1>4, <3>2
      <4>2. r = Keep(next, Visual(image, "unavailable", FALSE))
        BY <1>1, <1>6, <3>2, <4>1 DEF same
      <4>3. status = "unavailable" /\ read = FALSE
        BY <3>2
      <4> HIDE DEF status, read
      <4> QED
        BY <4>2, <4>3
    <3>3. CASE ~(next.accepted > max_images) /\ same
      <4>1. next.accepted <= max_images /\ ~on.vision
        BY <1>2, <1>4, <1>6, <3>3
      <4>2. r = Keep(next, Visual(image, image.status, decoded))
        BY <1>1, <1>6, <3>3, <4>1 DEF same
      <4>3. status = image.status /\ read = decoded
        BY <3>3
      <4> HIDE DEF status, read
      <4> QED
        BY <4>2, <4>3
    <3> QED
      BY <3>1, <3>2, <3>3
  <2>2. v \in VisualSet /\ v.image = image /\ v.status # "supplied_to_model"
    <3>1. status \in StatusSet /\ status # "supplied_to_model"
      BY <1>2 DEF StatusSet
    <3>2. Visual(image, status, read) = Visual(image, status, IF read THEN TRUE ELSE FALSE)
      BY DEF Visual
    <3> HIDE DEF status, read
    <3> QED
      BY <1>3, <3>1, <3>2
  <2> HIDE DEF v
  <2>3. r = [visuals |-> Append(prep.visuals, v), staged |-> prep.staged,
             staged_total |-> prep.staged_total, accepted |-> prep.accepted + 1]
    BY <1>4, <2>1 DEF Keep
  <2>4. prep.accepted + 1 >= prep.accepted /\ prep.accepted + 1 \in Nat
    BY <1>2
  <2>5. OneMoreVisual(prep, r, v.image, on)
    BY <2>2, <2>3, <2>4, VisualIsKept
  <2> QED
    BY <2>2, <2>5 DEF r
<1>7. CASE refusals = {} /\ ~(next.accepted > max_images) /\ same /\ on.vision
  <2> DEFINE v == Visual(image, "supplied_to_model", decoded)
  <2>1. \A k \in 1 .. 9 : ~all[k][1]
    BY <1>7 DEF Refusals
  <2>2. /\ all[1][1] <=> image.status \in {"unavailable", "over_limit"}
        /\ all[5][1] <=> data.size > max_image_bytes
        /\ all[6][1] <=> prep.staged_total + data.size > max_total_bytes
    BY DEF Reasons
  <2>b. data.size = image.sha256 /\ Staged(image, data) = Tied(image)
    BY <1>7 DEF SameBytes, Staged, Tied
  <2> HIDE DEF all
  <2>a. ~all[1][1] /\ ~all[5][1] /\ ~all[6][1]
    BY <2>1
  <2>3. /\ image.status = "metadata_only" /\ image.sha256 <= max_image_bytes
        /\ prep.staged_total + image.sha256 <= max_total_bytes
    BY <1>2, <2>2, <2>a, <2>b
  <2>4. r = [Keep(next, v) EXCEPT !.staged = Append(@, Staged(image, data)),
                                  !.staged_total = @ + data.size]
    BY <1>1, <1>2, <1>4, <1>7
  <2>5. v \in VisualSet /\ v.image = image /\ v.status = "supplied_to_model"
    <3>1. Visual(image, "supplied_to_model", decoded)
            = Visual(image, "supplied_to_model", IF decoded THEN TRUE ELSE FALSE)
      BY DEF Visual
    <3> HIDE DEF decoded
    <3> QED
      BY <1>3, <3>1 DEF StatusSet
  <2> HIDE DEF v
  <2>6. r = [visuals |-> Append(prep.visuals, v),
             staged |-> Append(prep.staged, Tied(v.image)),
             staged_total |-> prep.staged_total + v.image.sha256,
             accepted |-> prep.accepted + 1]
    BY <1>4, <2>4, <2>5, <2>b DEF Keep
  <2>7. prep.accepted + 1 <= max_images
    BY <1>2, <1>4, <1>7
  <2>8. OneMoreVisual(prep, r, v.image, on)
    BY <1>7, <2>3, <2>5, <2>6, <2>7, VisualIsSupplied
  <2> QED
    BY <2>5, <2>8 DEF r
<1> QED
  BY <1>5, <1>6, <1>7

\* The whole bundle.
BundleOf(prep, images, on) ==
  prep \in Preparations(on) /\ VisualsOf(prep.visuals, images)

LEMMA NothingIsPrepared ==
  ASSUME NEW on
  PROVE  NotPrepared \in Preparations(on) /\ Supplied(NotPrepared.visuals) = << >>
<1>1. NotPrepared = [visuals |-> << >>, staged |-> << >>, staged_total |-> 0, accepted |-> 0]
  BY DEF NotPrepared
<1>2. NotPrepared \in PreparationSet
  BY <1>1 DEF PreparationSet
<1>3. IsSelection(Only(<< >>, SuppliedOf(<< >>)), VisualSet, << >>, SuppliedOf(<< >>))
  <2>1. << >> \in Seq(VisualSet)
    OBVIOUS
  <2> QED
    BY <2>1, OnlyElements
<1>4. Supplied(<< >>) = << >>
  <2>1. Supplied(<< >>) \in Seq(VisualSet) /\ Len(Supplied(<< >>)) <= 0
    BY <1>3 DEF IsSelection, Supplied
  <2> QED
    BY <2>1
<1>5. References(<< >>) = << >> /\ Pixels(<< >>) = << >>
  BY DEF References, Pixels
<1>6. max_images \in Nat /\ max_total_bytes \in Nat
  BY VisionAssumption
<1>7. StagedFrom(NotPrepared, << >>, on)
  BY <1>1, <1>5, <1>6, TotalOfNone DEF StagedFrom
<1> QED
  BY <1>1, <1>2, <1>4, <1>7 DEF Preparations

LEMMA BundleHolds ==
  ASSUME NEW images \in Seq(ImageSet), NEW found, NEW on
  PROVE  BundleOf(prepare_visual_bundle(images, found, on), images, on)
<1> DEFINE N == Len(images)
           D == Preparations(on)
           base == NotPrepared
           step(n, d) == PrepareVisual(d, images[n], found[n], on)
           g == [n \in 1 .. N |-> [d \in D |-> step(n, d)]]
           K == CHOOSE f : f = [n \in 0 .. N |-> IF n = 0 THEN NotPrepared
                                 ELSE PrepareVisual(f[n - 1], images[n], found[n], on)]
           r == prepare_visual_bundle(images, found, on)
<1>1. r = K[N]
  BY DEF prepare_visual_bundle
<1>2. N \in Nat /\ \A n \in 1 .. N : images[n] \in ImageSet
  OBVIOUS
<1>3. base \in D /\ base.visuals = << >>
  BY NothingIsPrepared DEF NotPrepared
<1>4. \A n \in 1 .. N, d \in D : OneMoreVisual(d, step(n, d), images[n], on)
  BY <1>2, OneImage
<1> HIDE DEF N, D, base, step, r
<1>5. \A n \in 1 .. N, d \in D : step(n, d) \in D
  BY <1>4 DEF OneMoreVisual, D
<1>6. g \in [1 .. N -> [D -> D]] /\ \A n \in 1 .. N, d \in D : g[n][d] = step(n, d)
  BY <1>5
<1> HIDE DEF g
<1>7. PICK f : f \in Runs(N, D, base, g)
  BY <1>2, <1>3, <1>6, Recursion
<1>8. f = [n \in 0 .. N |-> IF n = 0 THEN base ELSE step(n, f[n - 1])]
  BY <1>2, <1>6, <1>7 DEF Runs
<1>9. K = [n \in 0 .. N |-> IF n = 0 THEN base ELSE step(n, K[n - 1])]
  BY <1>8 DEF base, step
<1> HIDE DEF K
<1>10. K \in Runs(N, D, base, g)
  <2>1. K = [n \in 0 .. N |-> K[n]] /\ K[0] = base
    BY <1>2, <1>9
  <2>2. \A n \in 1 .. N : K[n - 1] \in D => K[n] = g[n][K[n - 1]]
    BY <1>2, <1>6, <1>9
  <2> QED
    BY <1>2, <1>3, <1>6, <2>1, <2>2, RecursionIsRun
<1>11. \A n \in 0 .. N : K[n] \in D
  BY <1>10 DEF Runs
<1>12. \A n \in 1 .. N : K[n] = step(n, K[n - 1])
  BY <1>2, <1>9
<1> DEFINE Match(s, n) == Len(s) = n /\ \A i \in 1 .. n : s[i].image = images[i]
           P == {n \in 0 .. N : Match(K[n].visuals, n)}
<1>13. 0 \in P
  BY <1>2, <1>3, <1>9
<1>14. ASSUME NEW n \in 1 .. N, n - 1 \in P PROVE n \in P
  <2>1. n - 1 \in 0 .. N /\ n \in 0 .. N
    BY <1>2
  <2> DEFINE old == K[n - 1].visuals
  <2>2. PICK v \in VisualSet : v.image = images[n] /\ K[n].visuals = Append(old, v)
    <3>1. OneMoreVisual(K[n - 1], K[n], images[n], on)
      BY <1>4, <1>11, <1>12, <2>1
    <3> QED
      BY <3>1 DEF OneMoreVisual
  <2>3. old \in Seq(VisualSet)
    BY <1>11, <2>1 DEF D, Preparations, PreparationSet
  <2>4. Match(old, n - 1)
    BY <1>14
  <2> HIDE DEF old
  <2>5. /\ Len(Append(old, v)) = Len(old) + 1
        /\ \A i \in 1 .. Len(old) : Append(old, v)[i] = old[i]
        /\ Append(old, v)[Len(old) + 1] = v
    BY <2>3
  <2>6. \A i \in 1 .. n : i \in 1 .. n - 1 \/ i = n
    BY <1>2
  <2>7. Match(Append(old, v), n)
    BY <1>2, <2>2, <2>4, <2>5, <2>6
  <2> HIDE DEF Match
  <2> QED
    BY <2>1, <2>2, <2>7
<1> HIDE DEF P
<1>15. \A n \in 0 .. N : n \in P
  BY <1>2, <1>13, <1>14, UpTo
<1>16. Match(K[N].visuals, N) /\ K[N] \in D
  <2>1. N \in P /\ N \in 0 .. N
    BY <1>2, <1>15
  <2> QED
    BY <1>11, <2>1 DEF P
<1>17. K[N].visuals \in Seq(VisualSet)
  BY <1>16 DEF D, Preparations, PreparationSet
<1> QED
  BY <1>1, <1>16, <1>17 DEF BundleOf, VisualsOf, D, N, r

\* Nothing is supplied when the images are left alone.
LEMMA ImagesAreNotSupplied ==
  ASSUME NEW on, NEW images \in Seq(ImageSet),
         NEW visuals, visuals = [i \in 1 .. Len(images) |-> Visual(images[i], images[i].status, FALSE)]
  PROVE  VisualsOf(visuals, images) /\ Supplied(visuals) = << >>
<1>1. \A i \in 1 .. Len(images) : images[i] \in ImageSet
  OBVIOUS
<1>2. \A image \in ImageSet : /\ Visual(image, image.status, FALSE) \in VisualSet
                              /\ Visual(image, image.status, FALSE).status # "supplied_to_model"
                              /\ Visual(image, image.status, FALSE).image = image
  <2> SUFFICES ASSUME NEW image \in ImageSet
               PROVE  /\ Visual(image, image.status, FALSE) \in VisualSet
                      /\ Visual(image, image.status, FALSE).status # "supplied_to_model"
                      /\ Visual(image, image.status, FALSE).image = image
    OBVIOUS
  <2>1. image.status \in {"metadata_only", "over_limit", "unavailable"}
    BY DEF ImageSet
  <2>2. << >> \in Seq(PartLinks)
    OBVIOUS
  <2> QED
    BY <2>1, <2>2 DEF Visual, VisualSet, StatusSet
<1>3. visuals \in Seq(VisualSet) /\ Len(visuals) = Len(images)
  <2> DEFINE v(i) == Visual(images[i], images[i].status, FALSE)
  <2>1. \A i \in 1 .. Len(images) : v(i) \in VisualSet
    BY <1>1, <1>2
  <2>2. visuals = [i \in 1 .. Len(images) |-> v(i)] /\ Len(images) \in Nat
    OBVIOUS
  <2> HIDE DEF v
  <2>3. /\ [i \in 1 .. Len(images) |-> v(i)] \in Seq(VisualSet)
        /\ Len([i \in 1 .. Len(images) |-> v(i)]) = Len(images)
    BY <2>1, <2>2
  <2> QED
    BY <2>2, <2>3
<1>4. \A i \in 1 .. Len(images) : visuals[i].image = images[i] /\ visuals[i].status # "supplied_to_model"
  BY <1>1, <1>2
<1>5. SuppliedOf(visuals) = {}
  BY <1>3, <1>4 DEF SuppliedOf, ToSet
<1>6. IsSelection(Only(visuals, SuppliedOf(visuals)), VisualSet, visuals, SuppliedOf(visuals))
  BY <1>3, OnlyElements
<1>7. Supplied(visuals) \in Seq(VisualSet) /\ \A i \in 1 .. Len(Supplied(visuals)) : FALSE
  BY <1>5, <1>6 DEF IsSelection, Supplied
<1>8. Supplied(visuals) = << >>
  <2> DEFINE s == Supplied(visuals)
  <2>1. s \in Seq(VisualSet) /\ \A i \in 1 .. Len(s) : FALSE
    BY <1>7
  <2> HIDE DEF s
  <2>2. Len(s) \in Nat /\ ~(1 \in 1 .. Len(s))
    BY <2>1
  <2>3. Len(s) = 0
    BY <2>2
  <2>4. s = << >>
    BY <2>1, <2>3
  <2> QED
    BY <2>4 DEF s
<1> QED
  BY <1>3, <1>4, <1>8 DEF VisualsOf

-----------------------------------------------------------------------------
(***************************************************************************)
(* What is selected for the message.                                       *)
(***************************************************************************)
SelectionSet == [parts : Seq(TextSet), remaining : Nat, truncated : BOOLEAN]

\* The parts are whole unless it is said that they are not.
KeepsWhole(kept, parts) ==
  /\ kept \in SelectionSet
  /\ ~kept.truncated =>
       \A i \in 1 .. Len(parts) : parts[i].size = 0 \/ parts[i] \in ToSet(kept.parts)

\* The selection of one part more, and of them all.
LEMMA OnePart ==
  ASSUME NEW kept \in SelectionSet, NEW part \in TextSet
  PROVE  /\ SelectPart(kept, part) \in SelectionSet
         /\ ToSet(kept.parts) \subseteq ToSet(SelectPart(kept, part).parts)
         /\ ~SelectPart(kept, part).truncated =>
              /\ ~kept.truncated
              /\ part.size = 0 \/ part \in ToSet(SelectPart(kept, part).parts)
<1> DEFINE size == Least(part.size, kept.remaining)
           cut == [part EXCEPT !.size = size]
           r == SelectPart(kept, part)
<1>1. /\ kept.parts \in Seq(TextSet) /\ kept.remaining \in Nat /\ kept.truncated \in BOOLEAN
      /\ part.size \in Nat /\ part.part \in Nat /\ part.decode_defect \in BOOLEAN
      /\ part = [part |-> part.part, size |-> part.size, decode_defect |-> part.decode_defect]
      /\ kept = [parts |-> kept.parts, remaining |-> kept.remaining, truncated |-> kept.truncated]
  BY DEF SelectionSet, TextSet
<1>2. CASE kept.remaining = 0
  <2>1. r = [kept EXCEPT !.truncated = @ \/ part.size > 0]
    BY <1>2 DEF SelectPart
  <2>2. r.parts = kept.parts /\ r.remaining = kept.remaining /\ r.truncated = (kept.truncated \/ part.size > 0)
    BY <1>1, <2>1
  <2>3. r \in SelectionSet
    BY <1>1, <2>1 DEF SelectionSet
  <2> HIDE DEF r
  <2>4. ~r.truncated => ~kept.truncated /\ ~(part.size > 0)
    BY <2>2
  <2> QED
    BY <1>1, <2>2, <2>3, <2>4 DEF r
<1>3. CASE kept.remaining # 0
  <2>1. r = [parts |-> Append(kept.parts, cut), remaining |-> kept.remaining - size,
             truncated |-> kept.truncated \/ part.size > kept.remaining]
    BY <1>3 DEF SelectPart
  <2>2. size \in Nat /\ kept.remaining - size \in Nat /\ (~(part.size > kept.remaining) => size = part.size)
    BY <1>1 DEF Least
  <2> HIDE DEF size
  <2>3. cut \in TextSet /\ (size = part.size => cut = part)
    BY <1>1, <2>2 DEF TextSet
  <2> HIDE DEF cut
  <2>4. /\ Append(kept.parts, cut) \in Seq(TextSet) /\ cut \in ToSet(Append(kept.parts, cut))
        /\ ToSet(kept.parts) \subseteq ToSet(Append(kept.parts, cut))
    BY <1>1, <2>3, ToSetOfOneMore
  <2>5. r \in SelectionSet
    BY <1>1, <2>1, <2>2, <2>4 DEF SelectionSet
  <2> DEFINE longer == Append(kept.parts, cut)
             left == kept.remaining - size
             lost == kept.truncated \/ part.size > kept.remaining
  <2>a. lost \in BOOLEAN /\ (~lost => ~kept.truncated /\ ~(part.size > kept.remaining))
    BY <1>1
  <2>b. r = [parts |-> longer, remaining |-> left, truncated |-> lost]
    BY <2>1
  <2> HIDE DEF r, longer, left, lost
  <2>c. r.parts = longer /\ r.truncated = lost
    BY <2>b
  <2>6. r.parts = Append(kept.parts, cut) /\ (~r.truncated => ~kept.truncated /\ ~(part.size > kept.remaining))
    BY <2>a, <2>c DEF longer
  <2> QED
    BY <2>2, <2>3, <2>4, <2>5, <2>6 DEF r
<1> QED
  BY <1>2, <1>3

LEMMA PartsAreWhole ==
  ASSUME NEW parts \in Seq(TextSet), NEW budget \in Nat
  PROVE  KeepsWhole(SelectParts(parts, budget), parts)
<1> DEFINE N == Len(parts)
           D == SelectionSet
           base == [parts |-> << >>, remaining |-> budget, truncated |-> FALSE]
           step(n, d) == SelectPart(d, parts[n])
           g == [n \in 1 .. N |-> [d \in D |-> step(n, d)]]
           K == CHOOSE f : f = [n \in 0 .. N |->
                  IF n = 0 THEN [parts |-> << >>, remaining |-> budget, truncated |-> FALSE]
                  ELSE SelectPart(f[n - 1], parts[n])]
           r == SelectParts(parts, budget)
<1>1. r = K[N]
  BY DEF SelectParts
<1>2. N \in Nat /\ \A n \in 1 .. N : parts[n] \in TextSet
  OBVIOUS
<1>3. base \in D
  BY DEF SelectionSet
<1>4. \A n \in 1 .. N, d \in D :
        /\ step(n, d) \in D /\ ToSet(d.parts) \subseteq ToSet(step(n, d).parts)
        /\ ~step(n, d).truncated =>
             ~d.truncated /\ (parts[n].size = 0 \/ parts[n] \in ToSet(step(n, d).parts))
  BY <1>2, OnePart
<1> HIDE DEF N, D, base, step, r
<1>6. g \in [1 .. N -> [D -> D]] /\ \A n \in 1 .. N, d \in D : g[n][d] = step(n, d)
  BY <1>4
<1> HIDE DEF g
<1>7. PICK f : f \in Runs(N, D, base, g)
  BY <1>2, <1>3, <1>6, Recursion
<1>8. f = [n \in 0 .. N |-> IF n = 0 THEN base ELSE step(n, f[n - 1])]
  BY <1>2, <1>6, <1>7 DEF Runs
<1>9. K = [n \in 0 .. N |-> IF n = 0 THEN base ELSE step(n, K[n - 1])]
  BY <1>8 DEF base, step
<1> HIDE DEF K
<1>10. K \in Runs(N, D, base, g)
  <2>1. K = [n \in 0 .. N |-> K[n]] /\ K[0] = base
    BY <1>2, <1>9
  <2>2. \A n \in 1 .. N : K[n - 1] \in D => K[n] = g[n][K[n - 1]]
    BY <1>2, <1>6, <1>9
  <2> QED
    BY <1>2, <1>3, <1>6, <2>1, <2>2, RecursionIsRun
<1>11. \A n \in 0 .. N : K[n] \in D
  BY <1>10 DEF Runs
<1>12. \A n \in 1 .. N : K[n] = step(n, K[n - 1])
  BY <1>2, <1>9
<1> DEFINE Wholly(k, n) == ~k.truncated => \A i \in 1 .. n : parts[i].size = 0 \/ parts[i] \in ToSet(k.parts)
           P == {n \in 0 .. N : Wholly(K[n], n)}
<1>13. 0 \in P
  BY <1>2
<1>14. ASSUME NEW n \in 1 .. N, n - 1 \in P PROVE n \in P
  <2>1. n - 1 \in 0 .. N /\ n \in 0 .. N
    BY <1>2
  <2> DEFINE old == K[n - 1]
  <2>2. old \in D /\ K[n] = step(n, old)
    BY <1>11, <1>12, <2>1
  <2>3. Wholly(old, n - 1)
    BY <1>14
  <2> HIDE DEF old
  <2>4. \A i \in 1 .. n : i \in 1 .. n - 1 \/ i = n
    BY <1>2
  <2>5. Wholly(K[n], n)
    BY <1>4, <2>2, <2>3, <2>4
  <2> HIDE DEF Wholly
  <2> QED
    BY <2>1, <2>5
<1> HIDE DEF P
<1>15. \A n \in 0 .. N : n \in P
  BY <1>2, <1>13, <1>14, UpTo
<1>16. Wholly(K[N], N) /\ K[N] \in D
  <2>1. N \in P /\ N \in 0 .. N
    BY <1>2, <1>15
  <2> QED
    BY <1>11, <2>1 DEF P
<1> QED
  BY <1>1, <1>16 DEF KeepsWhole, D, N, r

\* Entries are whole, and all of them when as many are left.
KeepsPrefix(entries, kept, T) ==
  /\ kept \in Seq(T) /\ Len(kept) <= Len(entries)
  /\ \A i \in 1 .. Len(kept) : \E j \in 1 .. Len(entries) : kept[i] = entries[j]
  /\ ~(Len(kept) < Len(entries)) => kept = entries

LEMMA EntriesAreAPrefix ==
  ASSUME NEW T, NEW entries \in Seq(T), NEW budget \in Nat
  PROVE  KeepsPrefix(entries, SelectEntries(entries, budget), T)
<1> DEFINE m == Least(Len(entries), budget)
           kept == SelectEntries(entries, budget)
<1>1. m \in 0 .. Len(entries) /\ kept = SubSeq(entries, 1, m) /\ Len(entries) \in Nat
  BY DEF Least, SelectEntries
<1> HIDE DEF m, kept
<1>2. /\ kept \in Seq(T) /\ Len(kept) = m
      /\ \A i \in 1 .. m : kept[i] = entries[i]
  BY <1>1, SubSeqProperties
<1>3. \A i \in 1 .. Len(kept) : \E j \in 1 .. Len(entries) : kept[i] = entries[j]
  BY <1>1, <1>2
<1>4. ASSUME ~(Len(kept) < Len(entries)) PROVE kept = entries
  <2>1. Len(kept) = Len(entries) /\ \A i \in 1 .. Len(kept) : kept[i] = entries[i]
    BY <1>1, <1>2, <1>4
  <2> QED
    BY <1>2, <2>1, SeqEqual
<1> QED
  BY <1>1, <1>2, <1>3, <1>4 DEF KeepsPrefix, kept

\* The limits that flattened contents announce.
LEMMA FlattenTyped ==
  ASSUME NEW T, NEW seqs \in Seq(Seq(T))
  PROVE  FlattenSeq(seqs) \in Seq(T)
<1> DEFINE N == Len(seqs)
           K == CHOOSE f : f = [i \in 1 .. N |-> IF i = 1 THEN seqs[i] ELSE f[i - 1] \o seqs[i]]
           D == Seq(T)
           base == << >>
           step(n, d) == d \o seqs[n]
           g == [n \in 1 .. N |-> [d \in D |-> step(n, d)]]
<1>1. FlattenSeq(seqs) = IF N = 0 THEN seqs ELSE K[N]
  BY DEF FlattenSeq
<1>2. N \in Nat /\ base \in D /\ \A n \in 1 .. N : seqs[n] \in D
  OBVIOUS
<1>3. \A n \in 1 .. N, d \in D : step(n, d) \in D
  BY <1>2
<1>4. \A n \in 1 .. N : step(n, base) = seqs[n]
  BY <1>2
<1>a. N = 0 => seqs = << >>
  OBVIOUS
<1> HIDE DEF N, D, base, step
<1>5. g \in [1 .. N -> [D -> D]] /\ \A n \in 1 .. N, d \in D : g[n][d] = step(n, d)
  BY <1>3
<1> HIDE DEF g
<1>6. PICK f : f \in Runs(N, D, base, g)
  BY <1>2, <1>5, Recursion
<1> DEFINE h == [i \in 1 .. N |-> f[i]]
<1>7. h = [i \in 1 .. N |-> IF i = 1 THEN seqs[i] ELSE step(i, h[i - 1])]
  <2> SUFFICES ASSUME NEW i \in 1 .. N
               PROVE  f[i] = IF i = 1 THEN seqs[i] ELSE step(i, h[i - 1])
    BY <1>2
  <2>1. f[i] = step(i, f[i - 1])
    <3>1. i - 1 \in 0 .. N
      BY <1>2
    <3> QED
      BY <1>5, <1>6, <3>1 DEF Runs
  <2>2. i = 1 => f[i - 1] = base
    BY <1>6 DEF Runs
  <2>3. i # 1 => i - 1 \in 1 .. N
    BY <1>2
  <2> QED
    BY <1>4, <2>1, <2>2, <2>3
<1>8. K = [i \in 1 .. N |-> IF i = 1 THEN seqs[i] ELSE step(i, K[i - 1])]
  <2> HIDE DEF h
  <2> QED
    BY <1>7 DEF step
<1> HIDE DEF K
<1> DEFINE P == {n \in 0 .. N : n = 0 \/ K[n] \in D}
<1>9. 0 \in P
  BY <1>2
<1>10. ASSUME NEW n \in 1 .. N, n - 1 \in P PROVE n \in P
  <2>1. K[n] = IF n = 1 THEN seqs[n] ELSE step(n, K[n - 1])
    BY <1>8
  <2>2. n # 1 => K[n - 1] \in D
    BY <1>2, <1>10
  <2>3. K[n] \in D
    BY <1>2, <1>3, <2>1, <2>2
  <2> QED
    BY <1>2, <2>3
<1> HIDE DEF P
<1>11. \A n \in 0 .. N : n \in P
  BY <1>2, <1>9, <1>10, UpTo
<1>12. N # 0 => K[N] \in D
  BY <1>2, <1>11 DEF P
<1>13. N = 0 => seqs \in D
  BY <1>2, <1>a DEF base
<1> QED
  BY <1>1, <1>12, <1>13 DEF D

\* What is in one of two sequences is in the two; and what is selected is.
LEMMA ContainsConcat ==
  ASSUME NEW T, NEW s \in Seq(T), NEW t \in Seq(T), NEW x
  PROVE  /\ s \o t \in Seq(T)
         /\ Contains(s, x) => Contains(s \o t, x)
         /\ Contains(t, x) => Contains(s \o t, x)
<1> DEFINE both == s \o t
<1>1. /\ both \in Seq(T) /\ Len(both) = Len(s) + Len(t) /\ Len(s) \in Nat /\ Len(t) \in Nat
      /\ \A i \in 1 .. Len(both) : both[i] = IF i <= Len(s) THEN s[i] ELSE t[i - Len(s)]
  BY ConcatProperties
<1> HIDE DEF both
<1>2. \A i \in 1 .. Len(s) : i \in 1 .. Len(both) /\ both[i] = s[i]
  BY <1>1
<1>3. \A i \in 1 .. Len(t) : i + Len(s) \in 1 .. Len(both) /\ both[i + Len(s)] = t[i]
  <2>1. ASSUME NEW i \in 1 .. Len(t)
        PROVE  i + Len(s) \in 1 .. Len(both) /\ ~(i + Len(s) <= Len(s)) /\ (i + Len(s)) - Len(s) = i
    BY <1>1
  <2> QED
    BY <1>1, <2>1
<1>4. Contains(s, x) => Contains(both, x)
  BY <1>2 DEF Contains
<1>5. Contains(t, x) => Contains(both, x)
  BY <1>3 DEF Contains
<1> QED
  BY <1>1, <1>4, <1>5 DEF both

LEMMA OnlyContains ==
  ASSUME NEW T, NEW s \in Seq(T), NEW S
  PROVE  /\ Only(s, S) \in Seq(T)
         /\ \A i \in 1 .. Len(Only(s, S)) : Only(s, S)[i] \in S
         /\ \A x \in S : Contains(s, x) => Contains(Only(s, S), x)
<1>1. IsSelection(Only(s, S), T, s, S)
  BY OnlyElements
<1> QED
  BY <1>1 DEF IsSelection, Contains

\* Those that come first are kept; and all of them when as many are left.
SendsObservables(sent, known, first) ==
  /\ \A o \in first : Contains(sent, o)
  /\ ~(Len(sent) < Len(known)) => \A j \in 1 .. Len(known) : Contains(sent, known[j])

LEMMA ObservablesAreSent ==
  ASSUME NEW T, NEW known \in Seq(T), NEW first, first \subseteq ToSet(known), NEW budget \in Nat
  PROVE  SendsObservables(SelectObservables(known, first, budget), known, first)
<1> DEFINE rest == ToSet(known) \ first
           left == Monus(budget, Cardinality(first))
           a == Only(known, first)
           b == Only(known, rest)
           c == SelectEntries(b, left)
           sent == SelectObservables(known, first, budget)
<1>1. sent = a \o c
  BY DEF SelectObservables
<1>2. left \in Nat
  <2>1. IsFiniteSet(first)
    <3>1. IsFiniteSet(1 .. Len(known)) /\ 1 .. Len(known) = DOMAIN known
      BY FS_Interval
    <3>2. ToSet(known) = {known[i] : i \in 1 .. Len(known)}
      BY <3>1 DEF ToSet
    <3> DEFINE V == ToSet(known)
               f == [i \in 1 .. Len(known) |-> known[i]]
    <3>3. f \in Surjection(1 .. Len(known), V)
      <4>1. f \in [1 .. Len(known) -> V]
        BY <3>2
      <4>2. \A v \in V : \E i \in 1 .. Len(known) : f[i] = v
        BY <3>2
      <4> HIDE DEF f, V
      <4> QED
        BY <4>1, <4>2 DEF Surjection
    <3> HIDE DEF f, V
    <3>4. IsFiniteSet(V)
      BY <3>1, <3>3, FS_Surjection
    <3> QED
      BY <3>4, FS_Subset DEF V
  <2>2. Cardinality(first) \in Nat
    BY <2>1, FS_CardinalityType
  <2> QED
    BY <2>2 DEF Monus
<1>3. /\ a \in Seq(T) /\ b \in Seq(T)
      /\ \A x \in first : Contains(known, x) => Contains(a, x)
      /\ \A x \in rest : Contains(known, x) => Contains(b, x)
  BY OnlyContains
<1>4. Len(a) + Len(b) = Len(known)
  BY OnlySplits
<1> HIDE DEF a, b, left, sent
<1>5. KeepsPrefix(b, c, T)
  BY <1>2, <1>3, EntriesAreAPrefix
<1>6. c \in Seq(T) /\ Len(c) <= Len(b) /\ (~(Len(c) < Len(b)) => c = b)
  BY <1>5 DEF KeepsPrefix
<1> HIDE DEF c
<1>7. \A x : Contains(a, x) \/ Contains(c, x) => Contains(sent, x)
  BY <1>1, <1>3, <1>6, ContainsConcat
<1>8. \A j \in 1 .. Len(known) : known[j] \in ToSet(known) /\ Contains(known, known[j])
  BY DEF ToSet, Contains
<1>9. \A o \in first : Contains(known, o)
  BY DEF ToSet, Contains
<1>10. \A o \in first : Contains(sent, o)
  BY <1>3, <1>7, <1>9
<1>11. ASSUME ~(Len(sent) < Len(known)), NEW j \in 1 .. Len(known)
       PROVE  Contains(sent, known[j])
  <2>1. Len(sent) = Len(a) + Len(c) /\ Len(a) \in Nat /\ Len(b) \in Nat /\ Len(c) \in Nat
    BY <1>1, <1>3, <1>6, ConcatProperties
  <2>2. ~(Len(c) < Len(b))
    BY <1>4, <1>11, <2>1
  <2>3. c = b
    BY <1>6, <2>2
  <2>4. known[j] \in first \/ known[j] \in rest
    BY <1>8
  <2> QED
    BY <1>3, <1>7, <1>8, <2>3, <2>4
<1> QED
  BY <1>10, <1>11 DEF SendsObservables, sent

\* Facts about what is not sent go; those about no observable stay.
KeepsFacts(kept, evidence, first) ==
  /\ \A i \in 1 .. Len(kept) : kept[i].observable \in first \cup {NoObservable}
  /\ \A x : Contains(evidence, x) /\ x.observable = NoObservable => Contains(kept, x)

LEMMA FactsAreKept ==
  ASSUME NEW T, NEW evidence \in Seq(T), NEW first
  PROVE  KeepsFacts(DropDangling(evidence, first), evidence, first)
<1> DEFINE S == {fact \in ToSet(evidence) : fact.observable \in first \cup {NoObservable}}
<1>1. DropDangling(evidence, first) = Only(evidence, S)
  BY DEF DropDangling
<1>2. \A x : Contains(evidence, x) => x \in ToSet(evidence)
  BY DEF Contains, ToSet
<1>3. \A x : Contains(evidence, x) /\ x.observable = NoObservable => x \in S
  BY <1>2
<1>4. \A x \in S : x.observable \in first \cup {NoObservable}
  OBVIOUS
<1> HIDE DEF S
<1>5. /\ \A i \in 1 .. Len(Only(evidence, S)) : Only(evidence, S)[i] \in S
      /\ \A x \in S : Contains(evidence, x) => Contains(Only(evidence, S), x)
  BY OnlyContains
<1> QED
  BY <1>1, <1>3, <1>4, <1>5 DEF KeepsFacts

-----------------------------------------------------------------------------
(***************************************************************************)
(* The registries that are sent.                                           *)
(***************************************************************************)
ObservableSet == ObservablesOver(LinkSet, AttachmentSet)
UrlFact(l) == Fact("url_found", LinkRef(l), NoObservable)
HashFact(known, a) == Fact("attachment_hash", FileRef(a), ObservableOf(known, FileObservable(a).value))
PresentFact(image) == Fact("image_present", ImageRef(image), NoObservable)
PayloadFact(l) == Fact("qr_payload", <<"qr", l.part, l.url>>, NoObservable)
FoundFact(l) == Fact("url_found", LinkRef(l), UrlObservable(l))
FactSet(known) ==
  {UrlFact(l) : l \in LinkSet} \cup {HashFact(known, a) : a \in AttachmentSet}
    \cup {PresentFact(image) : image \in ImageSet}
    \cup {PayloadFact(l) : l \in LinkSet} \cup {FoundFact(l) : l \in LinkSet}

\* The links of the QR codes, and the facts about them.
LEMMA QrLinksTyped ==
  ASSUME NEW visuals \in Seq(VisualSet)
  PROVE  QrLinks(visuals) \in Seq(LinkSet)
<1> DEFINE row(i) == [k \in 1 .. Len(visuals[i].qr) |-> LinkOf(visuals[i].image.part, visuals[i].qr[k])]
           rows == [i \in 1 .. Len(visuals) |-> row(i)]
<1>1. QrLinks(visuals) = FlattenSeq(rows)
  BY DEF QrLinks
<1>2. \A i \in 1 .. Len(visuals) : row(i) \in Seq(LinkSet)
  <2> SUFFICES ASSUME NEW i \in 1 .. Len(visuals) PROVE row(i) \in Seq(LinkSet)
    OBVIOUS
  <2> DEFINE qr == visuals[i].qr
             p == visuals[i].image.part
  <2>1. visuals[i] \in VisualSet
    OBVIOUS
  <2>2. qr \in Seq(PartLinks) /\ visuals[i].image \in ImageSet
    BY <2>1 DEF VisualSet
  <2>3. p \in Nat
    BY <2>2 DEF ImageSet
  <2> HIDE DEF qr, p
  <2>4. \A k \in 1 .. Len(qr) : qr[k] \in PartLinks
    BY <2>2
  <2>5. \A k \in 1 .. Len(qr) : LinkOf(p, qr[k]) \in LinkSet
    BY <2>3, <2>4 DEF LinkSet
  <2>6. [k \in 1 .. Len(qr) |-> LinkOf(p, qr[k])] \in Seq(LinkSet)
    BY <2>2, <2>5
  <2> QED
    BY <2>6 DEF qr, p
<1> HIDE DEF row
<1>3. rows \in Seq(Seq(LinkSet))
  BY <1>2
<1> HIDE DEF rows
<1> QED
  BY <1>1, <1>3, FlattenTyped

LEMMA QrEvidenceTyped ==
  ASSUME NEW links \in Seq(LinkSet), NEW known
  PROVE  QrEvidence(links) \in Seq(FactSet(known))
<1> DEFINE row(i) == <<PayloadFact(links[i]), FoundFact(links[i])>>
           rows == [i \in 1 .. Len(links) |-> row(i)]
<1>1. QrEvidence(links) = FlattenSeq(rows)
  BY DEF QrEvidence, PayloadFact, FoundFact
<1>2. \A i \in 1 .. Len(links) : row(i) \in Seq(FactSet(known))
  <2> SUFFICES ASSUME NEW i \in 1 .. Len(links) PROVE row(i) \in Seq(FactSet(known))
    OBVIOUS
  <2>1. links[i] \in LinkSet
    OBVIOUS
  <2>2. PayloadFact(links[i]) \in FactSet(known) /\ FoundFact(links[i]) \in FactSet(known)
    BY <2>1 DEF FactSet
  <2> QED
    BY <2>2
<1> HIDE DEF row
<1>3. rows \in Seq(Seq(FactSet(known)))
  BY <1>2
<1> HIDE DEF rows
<1> QED
  BY <1>1, <1>3, FlattenTyped

\* The facts of the parser: one for each link among them.
LEMMA EvidenceTyped ==
  ASSUME NEW links \in Seq(LinkSet), NEW attachments \in Seq(AttachmentSet),
         NEW images \in Seq(ImageSet), NEW known
  PROVE  /\ BuildEvidence(links, attachments, images, known) \in Seq(FactSet(known))
         /\ \A i \in 1 .. Len(links) :
              Contains(BuildEvidence(links, attachments, images, known), UrlFact(links[i]))
<1> DEFINE hashed == Hashed(attachments)
           E == FactSet(known)
           a == [i \in 1 .. Len(links) |-> UrlFact(links[i])]
           b == [i \in 1 .. Len(hashed) |-> HashFact(known, hashed[i])]
           c == [i \in 1 .. Len(images) |-> PresentFact(images[i])]
           ab == a \o b
<1>1. BuildEvidence(links, attachments, images, known) = ab \o c
  BY DEF BuildEvidence, UrlFact, HashFact, PresentFact
<1>2. hashed \in Seq(AttachmentSet)
  BY OnlyContains DEF Hashed
<1> HIDE DEF hashed
<1>3. \A i \in 1 .. Len(links) : UrlFact(links[i]) \in E
  <2>1. \A i \in 1 .. Len(links) : links[i] \in LinkSet
    OBVIOUS
  <2> QED
    BY <2>1 DEF FactSet
<1>4. \A i \in 1 .. Len(hashed) : HashFact(known, hashed[i]) \in E
  <2>1. \A i \in 1 .. Len(hashed) : hashed[i] \in AttachmentSet
    BY <1>2
  <2> QED
    BY <2>1 DEF FactSet
<1>5. \A i \in 1 .. Len(images) : PresentFact(images[i]) \in E
  <2>1. \A i \in 1 .. Len(images) : images[i] \in ImageSet
    OBVIOUS
  <2> QED
    BY <2>1 DEF FactSet
<1> HIDE DEF E
<1>6. a \in Seq(E) /\ b \in Seq(E) /\ c \in Seq(E)
  BY <1>2, <1>3, <1>4, <1>5
<1>7. \A i \in 1 .. Len(links) : Contains(a, UrlFact(links[i]))
  <2>1. Len(a) = Len(links)
    OBVIOUS
  <2>2. \A i \in 1 .. Len(links) : a[i] = UrlFact(links[i])
    OBVIOUS
  <2> HIDE DEF a
  <2> QED
    BY <2>1, <2>2 DEF Contains
<1> HIDE DEF a, b, c
<1>8. ab \in Seq(E) /\ \A x : Contains(a, x) => Contains(ab, x)
  BY <1>6, ContainsConcat
<1> HIDE DEF ab
<1>9. ab \o c \in Seq(E) /\ \A x : Contains(ab, x) => Contains(ab \o c, x)
  BY <1>6, <1>8, ContainsConcat
<1> QED
  BY <1>1, <1>7, <1>8, <1>9 DEF E

\* What is to be sent, over the types of the walk.
SendsTyped(mail) ==
  /\ mail.texts \in Seq(TextSet) /\ mail.htmls \in Seq(TextSet)
  /\ mail.links \in Seq(LinkSet)
  /\ mail.observables \in Seq(ObservableSet)
  /\ mail.evidence \in Seq(FactSet(ParsedObservables))

\* The registries with what the QR codes added are of their types.
LEMMA AugmentedTyped ==
  ASSUME ReadSoFar, VisualsOf(prepared.visuals, walk.images)
  PROVE  /\ SendsTyped(Augmented)
         /\ Augmented.texts = walk.texts /\ Augmented.htmls = walk.htmls
         /\ Augmented.attachments = walk.attachments /\ Augmented.images = prepared.visuals
         /\ Augmented.content_limits = walk.limits_hit
         /\ \A i \in 1 .. Len(walk.links) :
              /\ Contains(Augmented.links, walk.links[i])
              /\ Contains(Augmented.evidence, UrlFact(walk.links[i]))
         /\ \A x : Contains(ParsedObservables, x) => Contains(Augmented.observables, x)
<1> DEFINE qr == QrLinks(prepared.visuals)
           known == ParsedObservables
           facts == BuildEvidence(walk.links, walk.attachments, walk.images, known)
           F == FactSet(known)
           O == ObservableSet
<1>1. /\ Augmented.texts = walk.texts /\ Augmented.htmls = walk.htmls
      /\ Augmented.attachments = walk.attachments /\ Augmented.images = prepared.visuals
      /\ Augmented.content_limits = walk.limits_hit
      /\ Augmented.links = walk.links \o qr
      /\ Augmented.observables = known \o UrlsOf(qr)
      /\ Augmented.evidence = facts \o QrEvidence(qr)
  BY DEF Augmented
<1>2. /\ walk.texts \in Seq(TextSet) /\ walk.htmls \in Seq(TextSet)
      /\ walk.links \in Seq(LinkSet) /\ walk.attachments \in Seq(AttachmentSet)
      /\ walk.images \in Seq(ImageSet)
  BY DEF ReadSoFar, SoundWalk, WalkSet
<1>3. qr \in Seq(LinkSet)
  BY QrLinksTyped DEF VisualsOf
<1>4. known \in Seq(O)
  <2>1. IsRegistryOf(known, LinkSet, walk.links, AttachmentSet, walk.attachments)
    BY <1>2, BuiltFromTheMail DEF ParsedObservables
  <2> QED
    BY <2>1 DEF IsRegistryOf, ObservableSet
<1> HIDE DEF qr
<1>5. UrlsOf(qr) \in Seq(O)
  <2>1. \A i \in 1 .. Len(qr) : qr[i] \in LinkSet
    BY <1>3
  <2>2. \A i \in 1 .. Len(qr) : UrlObservable(qr[i]) \in O
    BY <2>1 DEF ObservableSet, ObservablesOver
  <2> HIDE DEF O
  <2>3. [i \in 1 .. Len(qr) |-> UrlObservable(qr[i])] \in Seq(O)
    BY <1>3, <2>2
  <2> QED
    BY <2>3 DEF UrlsOf
<1> HIDE DEF known, O
<1>6. facts \in Seq(F) /\ \A i \in 1 .. Len(walk.links) : Contains(facts, UrlFact(walk.links[i]))
  BY <1>2, EvidenceTyped
<1>7. QrEvidence(qr) \in Seq(F)
  BY <1>3, QrEvidenceTyped
<1> HIDE DEF facts, F
<1>8. walk.links \o qr \in Seq(LinkSet) /\ \A x : Contains(walk.links, x) => Contains(walk.links \o qr, x)
  BY <1>2, <1>3, ContainsConcat
<1>9. known \o UrlsOf(qr) \in Seq(O) /\ \A x : Contains(known, x) => Contains(known \o UrlsOf(qr), x)
  BY <1>4, <1>5, ContainsConcat
<1>10. facts \o QrEvidence(qr) \in Seq(F) /\ \A x : Contains(facts, x) => Contains(facts \o QrEvidence(qr), x)
  BY <1>6, <1>7, ContainsConcat
<1>11. \A i \in 1 .. Len(walk.links) : Contains(walk.links, walk.links[i])
  BY DEF Contains
<1> HIDE DEF Augmented
<1>12. SendsTyped(Augmented)
  BY <1>1, <1>2, <1>8, <1>9, <1>10 DEF SendsTyped, known, F, O
<1>13. \A i \in 1 .. Len(walk.links) :
         /\ Contains(Augmented.links, walk.links[i])
         /\ Contains(Augmented.evidence, UrlFact(walk.links[i]))
  BY <1>1, <1>6, <1>8, <1>10, <1>11
<1>14. \A x : Contains(ParsedObservables, x) => Contains(Augmented.observables, x)
  BY <1>1, <1>9 DEF known
<1> QED
  BY <1>1, <1>12, <1>13, <1>14

\* A message that announces no limit leaves nothing of the registries out.
SendsAll(built, mail) ==
  /\ mail.content_limits = {}
  /\ \A i \in 1 .. Len(mail.texts) : mail.texts[i].size = 0 \/ Contains(built.texts, mail.texts[i])
  /\ \A i \in 1 .. Len(mail.htmls) : mail.htmls[i].size = 0 \/ Contains(built.htmls, mail.htmls[i])
  /\ built.links = mail.links
  /\ \A x : Contains(mail.evidence, x) /\ x.observable = NoObservable => Contains(built.evidence, x)
  /\ \A x : Contains(mail.observables, x) => Contains(built.observables, x)

LEMMA EnvelopeHolds ==
  ASSUME NEW mail, SendsTyped(mail), NEW first \in Firsts(mail), NEW supplied,
         NEW built, built = Envelope(mail, first, supplied)
  PROVE  /\ Closed(built)
         /\ built.content_limits = {} => SendsAll(built, mail)
         /\ built.attachments = mail.attachments /\ built.images = mail.images
<1> DEFINE text == SelectParts(mail.texts, body_chars)
           html == SelectParts(mail.htmls, text.remaining)
           sent_links == SelectEntries(mail.links, urls_observables_chars)
           budget == Monus(urls_observables_chars, Len(sent_links))
           evidence == SelectEntries(mail.evidence, evidence_chars)
           observables == SelectObservables(mail.observables, first, budget)
           facts == DropDangling(evidence, first)
           urls == Len(sent_links) < Len(mail.links) \/ Len(observables) < Len(mail.observables)
           cut == (IF urls THEN {"urls_truncated"} ELSE {})
                    \cup (IF Len(evidence) < Len(mail.evidence) THEN {"evidence_truncated"} ELSE {})
<1>1. /\ built.texts = text.parts /\ built.htmls = html.parts /\ built.links = sent_links
      /\ built.observables = observables /\ built.evidence = facts
      /\ built.attachments = mail.attachments /\ built.images = mail.images
      /\ built.content_limits = mail.content_limits \cup TruncationFlags(text, html, cut)
  BY DEF Envelope
<1>2. /\ body_chars \in Nat /\ urls_observables_chars \in Nat /\ evidence_chars \in Nat
      /\ mail.texts \in Seq(TextSet) /\ mail.htmls \in Seq(TextSet) /\ mail.links \in Seq(LinkSet)
      /\ mail.observables \in Seq(ObservableSet)
      /\ mail.evidence \in Seq(FactSet(ParsedObservables))
  BY ContextLimitsAssumption DEF SendsTyped
<1>3. first \subseteq ToSet(mail.observables)
  BY DEF Firsts, FirstInHashOrder, Mandatory
<1>4. KeepsWhole(text, mail.texts)
  BY <1>2, PartsAreWhole
<1>5. text.remaining \in Nat
  BY <1>4 DEF KeepsWhole, SelectionSet
<1> HIDE DEF text
<1>6. KeepsWhole(html, mail.htmls)
  BY <1>2, <1>5, PartsAreWhole
<1> HIDE DEF html
<1>7. KeepsPrefix(mail.links, sent_links, LinkSet)
  BY <1>2, EntriesAreAPrefix
<1>8. budget \in Nat
  <2>1. Len(sent_links) \in Nat
    BY <1>7 DEF KeepsPrefix
  <2> HIDE DEF sent_links
  <2> QED
    BY <1>2, <2>1 DEF Monus
<1> HIDE DEF sent_links, budget
<1>9. KeepsPrefix(mail.evidence, evidence, FactSet(ParsedObservables))
  BY <1>2, EntriesAreAPrefix
<1> HIDE DEF evidence
<1>10. SendsObservables(observables, mail.observables, first)
  BY <1>2, <1>3, <1>8, ObservablesAreSent
<1>11. KeepsFacts(facts, evidence, first)
  BY <1>9, FactsAreKept DEF KeepsPrefix
<1> HIDE DEF observables, facts
<1>12. Closed(built)
  BY <1>1, <1>10, <1>11 DEF Closed, SendsObservables, KeepsFacts
<1>13. ASSUME built.content_limits = {}
       PROVE  /\ mail.content_limits = {} /\ ~text.truncated /\ ~html.truncated
              /\ ~(Len(sent_links) < Len(mail.links))
              /\ ~(Len(observables) < Len(mail.observables))
              /\ ~(Len(evidence) < Len(mail.evidence))
  <2>1. mail.content_limits = {} /\ TruncationFlags(text, html, cut) = {}
    BY <1>1, <1>13
  <2>2. ~text.truncated /\ ~html.truncated /\ cut = {}
    BY <2>1 DEF TruncationFlags
  <2>3. ~urls /\ ~(Len(evidence) < Len(mail.evidence))
    BY <2>2
  <2> QED
    BY <2>1, <2>2, <2>3
<1> HIDE DEF urls, cut
<1>14. ASSUME built.content_limits = {}
       PROVE  SendsAll(built, mail)
  <2>1. sent_links = mail.links /\ evidence = mail.evidence
    BY <1>7, <1>9, <1>13, <1>14 DEF KeepsPrefix
  <2>2. \A i \in 1 .. Len(mail.texts) : mail.texts[i].size = 0 \/ Contains(text.parts, mail.texts[i])
    <3>1. text.parts \in Seq(TextSet)
      BY <1>4 DEF KeepsWhole, SelectionSet
    <3>2. \A i \in 1 .. Len(mail.texts) : mail.texts[i].size = 0 \/ mail.texts[i] \in ToSet(text.parts)
      BY <1>4, <1>13, <1>14 DEF KeepsWhole
    <3>3. \A x \in ToSet(text.parts) : Contains(text.parts, x)
      BY <3>1 DEF ToSet, Contains
    <3> QED
      BY <3>2, <3>3
  <2>3. \A i \in 1 .. Len(mail.htmls) : mail.htmls[i].size = 0 \/ Contains(html.parts, mail.htmls[i])
    <3>1. html.parts \in Seq(TextSet)
      BY <1>6 DEF KeepsWhole, SelectionSet
    <3>2. \A i \in 1 .. Len(mail.htmls) : mail.htmls[i].size = 0 \/ mail.htmls[i] \in ToSet(html.parts)
      BY <1>6, <1>13, <1>14 DEF KeepsWhole
    <3>3. \A x \in ToSet(html.parts) : Contains(html.parts, x)
      BY <3>1 DEF ToSet, Contains
    <3> QED
      BY <3>2, <3>3
  <2>4. \A x : Contains(mail.evidence, x) /\ x.observable = NoObservable => Contains(facts, x)
    BY <1>11, <2>1 DEF KeepsFacts
  <2>5. \A x : Contains(mail.observables, x) => Contains(observables, x)
    <3>1. \A j \in 1 .. Len(mail.observables) : Contains(observables, mail.observables[j])
      BY <1>10, <1>13, <1>14 DEF SendsObservables
    <3>2. \A x : Contains(mail.observables, x) => \E j \in 1 .. Len(mail.observables) : mail.observables[j] = x
      BY DEF Contains
    <3> QED
      BY <3>1, <3>2
  <2>6. mail.content_limits = {}
    BY <1>13, <1>14
  <2> QED
    BY <1>1, <2>1, <2>2, <2>3, <2>4, <2>5, <2>6 DEF SendsAll
<1> QED
  BY <1>1, <1>12, <1>14

\* A part on record is shown by a message that leaves nothing out.
IsShown(sent, id, part) ==
  LET found == LinksOf(id, part)
      linked == \A i \in 1 .. Len(found) :
                  /\ Contains(sent.links, found[i])
                  /\ Contains(sent.evidence, Fact("url_found", LinkRef(found[i]), NoObservable))
  IN CASE part.kind = "text" -> linked /\ Whole(sent.texts, id, part)
       [] part.kind = "html" -> linked /\ Whole(sent.htmls, id, part)
       [] part.kind = "attachment" ->
            \E i \in 1 .. Len(sent.attachments) :
              LET a == sent.attachments[i]
              IN /\ a.part = id /\ a.status = "ok"
                 /\ \E k \in 1 .. Len(sent.observables) :
                      sent.observables[k].value = <<"sha256", part.size>>
       [] part.kind = "image" ->
            \E i \in 1 .. Len(sent.images) :
              sent.images[i].image = Pictured(id, 0, part, part.size, "metadata_only")
       [] OTHER -> part.kind \in {"multipart", "rfc822"}

LEMMA RecordedIsShown ==
  ASSUME ReadSoFar, VisualsOf(prepared.visuals, walk.images), NEW sent,
         SendsAll(sent, Augmented), sent.attachments = walk.attachments,
         sent.images = prepared.visuals,
         NEW id \in Nat, NEW part \in Parts, Recorded(walk, id, part)
  PROVE  /\ Noted(id) \/ IsShown(sent, id, part)
         /\ part.lost # 0 => Noted(id) \/ part.kind \in {"text", "html", "image"}
<1>1. /\ Augmented.texts = walk.texts /\ Augmented.htmls = walk.htmls
      /\ \A i \in 1 .. Len(walk.links) :
           /\ Contains(Augmented.links, walk.links[i])
           /\ Contains(Augmented.evidence, UrlFact(walk.links[i]))
      /\ \A x : Contains(ParsedObservables, x) => Contains(Augmented.observables, x)
  BY AugmentedTyped
<1>2. /\ walk.texts \in Seq(TextSet) /\ walk.htmls \in Seq(TextSet)
      /\ walk.links \in Seq(LinkSet) /\ walk.attachments \in Seq(AttachmentSet)
      /\ walk.images \in Seq(ImageSet)
  BY DEF ReadSoFar, SoundWalk, WalkSet
<1> HIDE DEF Augmented
<1> DEFINE found == LinksOf(id, part)
           linked == \A i \in 1 .. Len(found) :
                       /\ Contains(sent.links, found[i])
                       /\ Contains(sent.evidence, Fact("url_found", LinkRef(found[i]), NoObservable))
<1>3. \A l \in ToSet(walk.links) : Contains(sent.links, l) /\ Contains(sent.evidence, UrlFact(l))
  <2> SUFFICES ASSUME NEW l \in ToSet(walk.links)
               PROVE  Contains(sent.links, l) /\ Contains(sent.evidence, UrlFact(l))
    OBVIOUS
  <2>0. PICK i \in 1 .. Len(walk.links) : l = walk.links[i]
    BY DEF ToSet
  <2>1. UrlFact(walk.links[i]).observable = NoObservable
    BY DEF UrlFact, Fact
  <2> QED
    BY <1>1, <2>0, <2>1 DEF SendsAll
<1>4. Linked(walk, id, part) => linked
  <2> SUFFICES ASSUME Linked(walk, id, part), NEW i \in 1 .. Len(found)
               PROVE  Contains(sent.links, found[i]) /\ Contains(sent.evidence, UrlFact(found[i]))
    BY DEF UrlFact
  <2>1. found \in Seq(LinkSet)
    BY LinksTyped
  <2>2. found[i] \in ToSet(found)
    BY <2>1 DEF ToSet
  <2>3. found[i] \in ToSet(walk.links)
    BY <2>2 DEF Linked
  <2> QED
    BY <1>3, <2>3
<1> HIDE DEF found, linked
<1>5. TextOf(id, part).size = part.size
  BY DEF TextOf
<1>0. part.lost # 0 => part.broken = "transfer" /\ part.kind \notin {"multipart", "rfc822"}
  BY PartTyped
<1>6. CASE \E defect \in walk.defects : defect[1] = id
  BY <1>6 DEF Noted
<1>7. CASE part.kind = "text" /\ Linked(walk, id, part) /\ TextOf(id, part) \in ToSet(walk.texts)
  <2>1. PICK i \in 1 .. Len(walk.texts) : walk.texts[i] = TextOf(id, part)
    BY <1>2, <1>7 DEF ToSet
  <2>2. part.size = 0 \/ Contains(sent.texts, TextOf(id, part))
    BY <1>1, <1>5, <2>1 DEF SendsAll
  <2>3. Whole(sent.texts, id, part)
    BY <2>2 DEF Whole
  <2>4. linked /\ IsShown(sent, id, part) = (linked /\ Whole(sent.texts, id, part))
    BY <1>4, <1>7 DEF IsShown, linked, found
  <2> QED
    BY <1>7, <2>3, <2>4
<1>8. CASE part.kind = "html" /\ Linked(walk, id, part) /\ TextOf(id, part) \in ToSet(walk.htmls)
  <2>1. PICK i \in 1 .. Len(walk.htmls) : walk.htmls[i] = TextOf(id, part)
    BY <1>2, <1>8 DEF ToSet
  <2>2. part.size = 0 \/ Contains(sent.htmls, TextOf(id, part))
    BY <1>1, <1>5, <2>1 DEF SendsAll
  <2>3. Whole(sent.htmls, id, part)
    BY <2>2 DEF Whole
  <2>4. linked /\ IsShown(sent, id, part) = (linked /\ Whole(sent.htmls, id, part))
    BY <1>4, <1>8 DEF IsShown, linked, found
  <2> QED
    BY <1>8, <2>3, <2>4
<1>9. CASE /\ part.kind = "attachment" /\ part.broken # "transfer"
           /\ Attached(id, part, "ok") \in ToSet(walk.attachments)
  <2> DEFINE a == Attached(id, part, "ok")
  <2>1. PICK i \in 1 .. Len(walk.attachments) : walk.attachments[i] = a
    BY <1>2, <1>9 DEF ToSet
  <2>2. a.part = id /\ a.status = "ok" /\ a.sha256 = part.size
    BY DEF Attached
  <2> HIDE DEF a
  <2>3. FileObservable(a).value = <<"sha256", part.size>>
    BY <2>2 DEF FileObservable
  <2>4. IsRegistryOf(ParsedObservables, LinkSet, walk.links, AttachmentSet, walk.attachments)
    BY <1>2, BuiltFromTheMail DEF ParsedObservables
  <2>5. PICK k \in 1 .. Len(ParsedObservables) : ParsedObservables[k].value = <<"sha256", part.size>>
    BY <2>1, <2>2, <2>3, <2>4 DEF IsRegistryOf
  <2>6. Contains(sent.observables, ParsedObservables[k])
    <3>1. Contains(ParsedObservables, ParsedObservables[k])
      BY DEF Contains
    <3> QED
      BY <1>1, <3>1 DEF SendsAll
  <2>7. PICK n \in 1 .. Len(sent.observables) : sent.observables[n].value = <<"sha256", part.size>>
    BY <2>5, <2>6 DEF Contains
  <2> QED
    BY <1>0, <1>9, <2>1, <2>2, <2>7 DEF IsShown
<1>10. CASE part.kind = "image" /\ Pictured(id, 0, part, part.size, "metadata_only") \in ToSet(walk.images)
  <2> DEFINE image == Pictured(id, 0, part, part.size, "metadata_only")
  <2>1. PICK i \in 1 .. Len(walk.images) : walk.images[i] = image
    BY <1>2, <1>10 DEF ToSet
  <2>2. i \in 1 .. Len(prepared.visuals) /\ prepared.visuals[i].image = image
    BY <2>1 DEF VisualsOf
  <2> HIDE DEF image
  <2> QED
    BY <1>10, <2>2 DEF IsShown, image
<1>11. CASE part.kind \in {"multipart", "rfc822"}
  BY <1>0, <1>11 DEF IsShown
<1> QED
  BY <1>6, <1>7, <1>8, <1>9, <1>10, <1>11 DEF Recorded

-----------------------------------------------------------------------------
(***************************************************************************)
(* The invariant holds at first, and each step keeps it.                   *)
(***************************************************************************)
\* The first state.
LEMMA MailInit == InitMail => MailInv
<1> SUFFICES ASSUME InitMail PROVE MailInv
  OBVIOUS
<1> USE DEF InitMail, ParseInit
<1>1. ReadSoFar
  <2>1. SoundWalk(walk, 0)
    BY NoWalkIsSound
  <2>2. document \in Seq(Parts) /\ Len(document) = 0 /\ unread = FALSE /\ walk.part_count = 0
    BY DEF NoWalk
  <2>3. [depth |-> 1, single |-> TRUE] \in LevelSet
    BY DEF LevelSet
  <2>4. open \in Seq(LevelSet)
    BY <2>3
  <2>5. walk.part_count = Len(document)
    BY <2>2
  <2>6. \A id \in 1 .. Len(document) : Recorded(walk, id, document[id])
    <3>1. 1 .. Len(document) = {}
      BY <2>2
    <3> QED
      BY <3>1
  <2>7. unread \in BOOLEAN /\ (unread => walk.aborted)
    BY <2>2
  <2> HIDE DEF InitMail, ParseInit
  <2> QED
    BY <2>1, <2>2, <2>4, <2>5, <2>6, <2>7 DEF ReadSoFar
<1>2. Planned
  BY DEF Planned
<1>3. PreparedSoFar
  <2>1. StagedFrom(NotPrepared, Supplied(NotPrepared.visuals), switches)
    BY NothingIsPrepared DEF Preparations
  <2> QED
    BY <2>1 DEF PreparedSoFar
<1>4. Closed(envelope)
  BY DEF Closed, NoEnvelope
<1>5. NothingIsLostInSilence
  BY DEF NothingIsLostInSilence
<1> QED
  BY <1>1, <1>2, <1>3, <1>4, <1>5 DEF MailInv

\* Each step, one lemma for each.
LEMMA WalkKeeps ==
  ASSUME MailInv, Walk
  PROVE  MailInv'
<1>1. /\ stage = "walk" /\ stage' = "walk" /\ prepared' = prepared /\ switches' = switches
      /\ envelope' = envelope
  BY DEF Walk
<1>2. ReadSoFar'
  <2>1. CASE \E part \in Parts : WalkPart(part)
    BY <2>1, PartIsRead DEF MailInv
  <2>2. CASE LeaveContainer
    BY <2>2, LeavingIsRead DEF MailInv
  <2> QED
    BY <2>1, <2>2 DEF Walk
<1>3. Planned'
  BY <1>1 DEF Planned
<1>4. PreparedSoFar'
  BY <1>1 DEF PreparedSoFar, MailInv
<1>5. Closed(envelope)'
  BY <1>1 DEF Closed, MailInv
<1>6. NothingIsLostInSilence'
  BY <1>1 DEF NothingIsLostInSilence
<1> QED
  BY <1>2, <1>3, <1>4, <1>5, <1>6 DEF MailInv

LEMMA ParsedKeeps ==
  ASSUME MailInv, Parsed
  PROVE  MailInv'
<1>1. /\ stage = "walk" /\ stage' = "parsed" /\ prepared' = prepared /\ switches' = switches
      /\ envelope' = envelope /\ walk' = walk
      /\ targets' = plan_vt_targets(walk.links, ParsedObservables)
  BY DEF Parsed, EndOfWalk
<1>2. ReadSoFar'
  BY EndIsRead DEF Parsed, MailInv
<1>3. Planned'
  BY <1>1 DEF Planned, ParsedObservables
<1>4. PreparedSoFar'
  BY <1>1 DEF PreparedSoFar, MailInv
<1>5. Closed(envelope)'
  BY <1>1 DEF Closed, MailInv
<1>6. NothingIsLostInSilence'
  BY <1>1 DEF NothingIsLostInSilence
<1> QED
  BY <1>2, <1>3, <1>4, <1>5, <1>6 DEF MailInv

\* The steps after the walk leave what was read and planned alone.
LEMMA AfterTheWalk ==
  ASSUME ReadSoFar, Planned, stage # "walk", stage' \in {"prepared", "sent", "refused"},
         UNCHANGED <<document, open, walk, unread, targets>>
  PROVE  ReadSoFar' /\ Planned'
<1>1. ReadSoFar'
  BY DEF ReadSoFar
<1>2. Planned'
  BY DEF Planned, ParsedObservables
<1> QED
  BY <1>1, <1>2

LEMMA LeavingKeeps ==
  ASSUME MailInv, LeaveVisuals
  PROVE  MailInv'
<1>1. /\ stage = "parsed" /\ stage' = "prepared" /\ switches' = switches /\ envelope' = envelope
      /\ walk' = walk /\ UNCHANGED <<document, open, walk, unread, targets>>
      /\ prepared' = [NotPrepared EXCEPT !.visuals = Images]
  BY DEF LeaveVisuals
<1>2. ReadSoFar' /\ Planned'
  BY <1>1, AfterTheWalk DEF MailInv
<1>3. walk.images \in Seq(ImageSet)
  BY DEF MailInv, ReadSoFar, SoundWalk, WalkSet
<1>4. VisualsOf(Images, walk.images) /\ Supplied(Images) = << >>
  BY <1>3, ImagesAreNotSupplied DEF Images
<1> HIDE DEF Images
<1>5. prepared'.visuals = Images /\ prepared'.staged = << >> /\ prepared'.staged_total = 0 /\ prepared'.accepted = 0
  BY <1>1 DEF NotPrepared
<1>6. StagedFrom(NotPrepared, << >>, switches)
  BY NothingIsPrepared DEF Preparations
<1>7. StagedFrom(prepared', << >>, switches)
  BY <1>5, <1>6 DEF StagedFrom, NotPrepared
<1>8. PreparedSoFar'
  BY <1>1, <1>4, <1>5, <1>7 DEF PreparedSoFar
<1>9. Closed(envelope)'
  BY <1>1 DEF Closed, MailInv
<1>10. NothingIsLostInSilence'
  BY <1>1 DEF NothingIsLostInSilence
<1> QED
  BY <1>2, <1>8, <1>9, <1>10 DEF MailInv

LEMMA PreparingKeeps ==
  ASSUME MailInv, PrepareVisuals
  PROVE  MailInv'
<1>1. PICK on \in Switches :
        \E found \in [1 .. Len(walk.images) -> Contents(on)] :
          /\ prepared' = prepare_visual_bundle(walk.images, found, on)
          /\ switches' = on
  BY DEF PrepareVisuals
<1>0. PICK found : /\ prepared' = prepare_visual_bundle(walk.images, found, on)
                   /\ switches' = on
  BY <1>1
<1>2. /\ stage = "parsed" /\ stage' = "prepared" /\ envelope' = envelope /\ walk' = walk
      /\ UNCHANGED <<document, open, walk, unread, targets>>
  BY DEF PrepareVisuals
<1>3. ReadSoFar' /\ Planned'
  BY <1>2, AfterTheWalk DEF MailInv
<1>4. walk.images \in Seq(ImageSet)
  BY DEF MailInv, ReadSoFar, SoundWalk, WalkSet
<1>5. BundleOf(prepared', walk.images, on)
  BY <1>0, <1>4, BundleHolds
<1>6. VisualsOf(prepared'.visuals, walk.images) /\ StagedFrom(prepared', Supplied(prepared'.visuals), on)
  BY <1>5 DEF BundleOf, Preparations
<1>7. PreparedSoFar'
  BY <1>0, <1>2, <1>6 DEF PreparedSoFar
<1>8. Closed(envelope)'
  BY <1>2 DEF Closed, MailInv
<1>9. NothingIsLostInSilence'
  BY <1>2 DEF NothingIsLostInSilence
<1> QED
  BY <1>3, <1>7, <1>8, <1>9 DEF MailInv

LEMMA GoneKeeps ==
  ASSUME MailInv, FileGone
  PROVE  MailInv'
<1>1. /\ stage = "parsed" /\ stage' = "refused" /\ envelope' = envelope /\ walk' = walk
      /\ prepared' = prepared /\ switches' = switches
      /\ UNCHANGED <<document, open, walk, unread, targets>>
  BY DEF FileGone
<1>2. ReadSoFar' /\ Planned'
  BY <1>1, AfterTheWalk DEF MailInv
<1>3. PreparedSoFar'
  BY <1>1 DEF PreparedSoFar, MailInv
<1>4. Closed(envelope)'
  BY <1>1 DEF Closed, MailInv
<1>5. NothingIsLostInSilence'
  BY <1>1 DEF NothingIsLostInSilence
<1> QED
  BY <1>2, <1>3, <1>4, <1>5 DEF MailInv

LEMMA SendingKeeps ==
  ASSUME MailInv, Send
  PROVE  MailInv'
<1>1. /\ stage = "prepared" /\ stage' \in {"sent", "refused"}
      /\ UNCHANGED <<document, open, walk, unread, switches, prepared, targets>>
  BY DEF Send
<1>2. ReadSoFar' /\ Planned'
  BY <1>1, AfterTheWalk DEF MailInv
<1>3. PreparedSoFar'
  BY <1>1 DEF PreparedSoFar, MailInv
<1>4. ReadSoFar /\ VisualsOf(prepared.visuals, walk.images)
  BY <1>1 DEF MailInv, PreparedSoFar
<1>5. CASE stage' = "refused" /\ envelope' = envelope
  <2>1. Closed(envelope)'
    BY <1>5 DEF Closed, MailInv
  <2>2. NothingIsLostInSilence'
    BY <1>5 DEF NothingIsLostInSilence
  <2> QED
    BY <1>2, <1>3, <2>1, <2>2 DEF MailInv
<1>6. CASE \E first \in Firsts(Augmented) :
             envelope' = Envelope(Augmented, first, prepared.staged)
  <2>1. PICK first \in Firsts(Augmented) :
               envelope' = Envelope(Augmented, first, prepared.staged)
    BY <1>6
  <2>2. /\ SendsTyped(Augmented) /\ Augmented.attachments = walk.attachments
        /\ Augmented.images = prepared.visuals /\ Augmented.content_limits = walk.limits_hit
    BY <1>4, AugmentedTyped
  <2>3. /\ Closed(envelope')
        /\ envelope'.content_limits = {} => SendsAll(envelope', Augmented)
        /\ envelope'.attachments = walk.attachments /\ envelope'.images = prepared.visuals
    BY <2>1, <2>2, EnvelopeHolds
  <2>4. ASSUME envelope'.content_limits = {}
        PROVE  /\ ~unread
               /\ \A id \in 1 .. Len(document) :
                    /\ Noted(id) \/ IsShown(envelope', id, document[id])
                    /\ document[id].lost # 0 =>
                         Noted(id) \/ document[id].kind \in {"text", "html", "image"}
    <3>1. SendsAll(envelope', Augmented) /\ walk.limits_hit = {}
      BY <2>2, <2>3, <2>4 DEF SendsAll
    <3>2. ~walk.aborted /\ ~unread
      BY <1>4, <3>1 DEF ReadSoFar, SoundWalk
    <3>3. ASSUME NEW id \in 1 .. Len(document)
          PROVE  /\ Noted(id) \/ IsShown(envelope', id, document[id])
                 /\ document[id].lost # 0 =>
                      Noted(id) \/ document[id].kind \in {"text", "html", "image"}
      <4>1. id \in Nat /\ document[id] \in Parts /\ Recorded(walk, id, document[id])
        BY <1>4, <3>1 DEF ReadSoFar
      <4> QED
        BY <1>4, <2>3, <3>1, <4>1, RecordedIsShown
    <3> QED
      BY <3>2, <3>3
  <2>5. NothingIsLostInSilence'
    <3>1. \A id, part : Shown(id, part)' <=> IsShown(envelope', id, part)
      BY DEF Shown, IsShown
    <3>2. \A id : Noted(id)' <=> Noted(id)
      BY <1>1 DEF Noted
    <3> QED
      BY <1>1, <2>4, <3>1, <3>2 DEF NothingIsLostInSilence
  <2> QED
    BY <1>2, <1>3, <2>3, <2>5 DEF MailInv, Closed
<1> QED
  BY <1>5, <1>6 DEF Send

LEMMA MailStep == MailInv /\ [NextMail]_mailVars => MailInv'
<1> SUFFICES ASSUME MailInv, [NextMail]_mailVars PROVE MailInv'
  OBVIOUS
<1>1. CASE Walk
  BY <1>1, WalkKeeps
<1>2. CASE Parsed
  BY <1>2, ParsedKeeps
<1>3. CASE LeaveVisuals
  BY <1>3, LeavingKeeps
<1>4. CASE PrepareVisuals
  BY <1>4, PreparingKeeps
<1>5. CASE Send
  BY <1>5, SendingKeeps
<1>7. CASE FileGone
  BY <1>7, GoneKeeps
<1>6. CASE UNCHANGED mailVars
  <2>1. ReadSoFar'
    BY <1>6 DEF MailInv, ReadSoFar, mailVars
  <2>2. Planned'
    BY <1>6 DEF MailInv, Planned, ParsedObservables, mailVars
  <2>3. PreparedSoFar'
    BY <1>6 DEF MailInv, PreparedSoFar, mailVars
  <2>4. Closed(envelope)'
    BY <1>6 DEF MailInv, Closed, mailVars
  <2>5. NothingIsLostInSilence'
    <3>1. \A id, part : Shown(id, part)' <=> Shown(id, part)
      BY <1>6 DEF Shown, mailVars
    <3>2. \A id : Noted(id)' <=> Noted(id)
      BY <1>6 DEF Noted, mailVars
    <3>3. UNCHANGED <<document, stage, unread, envelope>>
      BY <1>6 DEF mailVars
    <3> QED
      BY <3>1, <3>2, <3>3 DEF MailInv, NothingIsLostInSilence
  <2> QED
    BY <2>1, <2>2, <2>3, <2>4, <2>5 DEF MailInv
<1> QED
  BY <1>1, <1>2, <1>3, <1>4, <1>5, <1>6, <1>7 DEF NextMail

-----------------------------------------------------------------------------
(***************************************************************************)
(* The theorems of the mail.                                               *)
(***************************************************************************)

(* Every reachable state of a mail satisfies the inductive invariant: what  *)
(* _walk of src/parsing.py has vouched for is what was charged, each part   *)
(* read is on record, the targets are those planned, what is staged are the *)
(* supplied visuals, and no fact is sent without its observable.            *)
THEOREM MailInvariant == MailSpec => []MailInv
BY MailInit, MailStep, PTL DEF MailSpec

(* plan_vt_targets spends the quota on each content once, on no URL of a    *)
(* decorative resource, and on URLs only when every file has its lookup.    *)
THEOREM FilesFirst == MailSpec => []FilesAreLookedUpFirst
<1>1. MailInv => FilesAreLookedUpFirst
  <2> SUFFICES ASSUME MailInv, stage # "walk" PROVE FilesAreLookedUpFirst
    BY DEF FilesAreLookedUpFirst
  <2>1. walk.links \in Seq(LinkSet) /\ walk.attachments \in Seq(AttachmentSet)
    BY DEF MailInv, ReadSoFar, SoundWalk, WalkSet
  <2>2. targets = plan_vt_targets(walk.links, BuildObservables(walk.links, walk.attachments))
    BY DEF MailInv, Planned, ParsedObservables
  <2>3. PlansFilesFirst(walk.links, walk.attachments, targets)
    BY <2>1, <2>2, PlanHolds
  <2> QED
    BY <2>3 DEF FilesAreLookedUpFirst, PlansFilesFirst
<1> QED
  BY <1>1, MailInvariant, PTL

\* The elements of a sequence made of two are elements of one of them.
LEMMA ElementsOfConcat ==
  ASSUME NEW T, NEW s \in Seq(T), NEW t \in Seq(T), NEW e \in ToSet(s \o t)
  PROVE  e \in ToSet(s) \/ e \in ToSet(t)
<1>1. PICK i \in 1 .. Len(s \o t) : (s \o t)[i] = e
  BY DEF ToSet
<1>2. Len(s) \in Nat /\ Len(t) \in Nat /\ Len(s \o t) = Len(s) + Len(t)
  BY ConcatProperties
<1>3. CASE i <= Len(s)
  <2>1. (s \o t)[i] = s[i]
    BY <1>2, <1>3, ConcatProperties
  <2> QED
    BY <1>1, <1>2, <1>3, <2>1 DEF ToSet
<1>4. CASE i > Len(s)
  <2>1. (s \o t)[i] = t[i - Len(s)] /\ i - Len(s) \in 1 .. Len(t)
    BY <1>1, <1>2, <1>4, ConcatProperties
  <2> QED
    BY <1>1, <2>1 DEF ToSet
<1> QED
  BY <1>2, <1>3, <1>4

(* What the parser vouches for is within the limit of a part, all of it     *)
(* within the limit of the mail, and so are the attachments and the images  *)
(* embedded in the HTML, whatever _walk has refused on the way.             *)
THEOREM ContentWithinLimits == MailSpec => []ContentIsWithinLimits
<1>1. MailInv => ContentIsWithinLimits
  <2> SUFFICES ASSUME MailInv PROVE ContentIsWithinLimits
    OBVIOUS
  <2>1. walk \in WalkSet /\ Bounded(walk, 0)
    BY DEF MailInv, ReadSoFar, SoundWalk
  <2>2. /\ walk.texts \in Seq(TextSet) /\ walk.htmls \in Seq(TextSet)
        /\ walk.attachments \in Seq(AttachmentSet) /\ walk.images \in Seq(ImageSet)
    BY <2>1 DEF WalkSet
  <2> DEFINE t == Sizes(walk.texts)
             h == Sizes(walk.htmls)
             a == Hashes(walk.attachments)
             g == Hashes(walk.images)
  <2>3. ASSUME NEW parts \in Seq(TextSet), \A i \in 1 .. Len(parts) : ~TooBig(parts[i].size)
        PROVE  Sizes(parts) \in Seq(Nat) /\ \A e \in ToSet(Sizes(parts)) : ~TooBig(e)
    <3>1. Sizes(parts) = [i \in 1 .. Len(parts) |-> parts[i].size] /\ Len(parts) \in Nat
      BY <2>3 DEF Sizes
    <3>2. \A i \in 1 .. Len(parts) : parts[i].size \in Nat
      <4>1. \A x \in TextSet : x.size \in Nat
        BY DEF TextSet
      <4> QED
        BY <2>3, <4>1, ElementOfSeq
    <3>3. [i \in 1 .. Len(parts) |-> parts[i].size] \in Seq(Nat)
      BY <3>1, <3>2
    <3>4. Len(Sizes(parts)) = Len(parts) /\ \A i \in 1 .. Len(parts) : Sizes(parts)[i] = parts[i].size
      BY <3>1
    <3> QED
      BY <2>3, <3>1, <3>3, <3>4 DEF ToSet
  <2>4. ASSUME NEW T, NEW parts \in Seq(T), \A x \in T : x.sha256 \in Nat,
               \A i \in 1 .. Len(parts) : ~TooBig(parts[i].sha256)
        PROVE  Hashes(parts) \in Seq(Nat) /\ \A e \in ToSet(Hashes(parts)) : ~TooBig(e)
    <3>1. Hashes(parts) = [i \in 1 .. Len(parts) |-> parts[i].sha256] /\ Len(parts) \in Nat
      BY <2>4 DEF Hashes
    <3>2. \A i \in 1 .. Len(parts) : parts[i].sha256 \in Nat
      BY <2>4, ElementOfSeq
    <3>3. [i \in 1 .. Len(parts) |-> parts[i].sha256] \in Seq(Nat)
      BY <3>1, <3>2
    <3>4. Len(Hashes(parts)) = Len(parts) /\ \A i \in 1 .. Len(parts) : Hashes(parts)[i] = parts[i].sha256
      BY <3>1
    <3> QED
      BY <2>4, <3>1, <3>3, <3>4 DEF ToSet
  <2>5. /\ t \in Seq(Nat) /\ \A e \in ToSet(t) : ~TooBig(e)
        /\ h \in Seq(Nat) /\ \A e \in ToSet(h) : ~TooBig(e)
    BY <2>1, <2>2, <2>3 DEF Bounded
  <2>6. a \in Seq(Nat) /\ \A e \in ToSet(a) : ~TooBig(e)
    <3>1. \A x \in AttachmentSet : x.sha256 \in Nat
      BY DEF AttachmentSet
    <3> QED
      BY <2>1, <2>2, <2>4, <3>1 DEF Bounded
  <2>7. g \in Seq(Nat) /\ \A e \in ToSet(g) : ~TooBig(e)
    <3>1. \A x \in ImageSet : x.sha256 \in Nat
      BY DEF ImageSet
    <3> QED
      BY <2>1, <2>2, <2>4, <3>1 DEF Bounded
  <2>8. Vouched(walk) = ((t \o h) \o a) \o g
    BY DEF Vouched
  <2> HIDE DEF t, h, a, g
  <2>9. ASSUME NEW e \in ToSet(Vouched(walk)) PROVE ~TooBig(e)
    <3>1. t \o h \in Seq(Nat) /\ (t \o h) \o a \in Seq(Nat)
      BY <2>5, <2>6, ConcatProperties
    <3>2. e \in ToSet((t \o h) \o a) \/ e \in ToSet(g)
      BY <2>7, <2>8, <2>9, <3>1, ElementsOfConcat
    <3>3. e \in ToSet((t \o h) \o a) => e \in ToSet(t \o h) \/ e \in ToSet(a)
      BY <2>6, <3>1, ElementsOfConcat
    <3>4. e \in ToSet(t \o h) => e \in ToSet(t) \/ e \in ToSet(h)
      BY <2>5, ElementsOfConcat
    <3> QED
      BY <2>5, <2>6, <2>7, <3>2, <3>3, <3>4
  <2>10. VouchedTotal(walk) \in Nat
    BY <2>1, VouchedIsANumber
  <2>11. VouchedTotal(walk) <= max_decoded_bytes_total
    <3>1. VouchedTotal(walk) + 0 <= max_decoded_bytes_total
      BY <2>1 DEF Bounded
    <3> QED
      BY <2>10, <3>1
  <2> QED
    BY <2>1, <2>9, <2>11 DEF Bounded, ContentIsWithinLimits
<1> QED
  BY <1>1, MailInvariant, PTL

(* build_messages sends no fact about an observable it does not send; and   *)
(* whatever a second reading of the file finds, what prepare_visual_bundle  *)
(* stages under the name of an image is what the parser hashed as that      *)
(* image, for the images shown as supplied, within Vision's limits.         *)
THEOREM EnvelopeClosed == MailSpec => []EnvelopeIsClosed
<1>1. MailInv => EnvelopeIsClosed
  <2> SUFFICES ASSUME MailInv PROVE EnvelopeIsClosed
    OBVIOUS
  <2>1. Closed(envelope)
    BY DEF MailInv
  <2>2. StagedFrom(prepared, Supplied(prepared.visuals), switches)
    BY DEF MailInv, PreparedSoFar
  <2> QED
    BY <2>1, <2>2 DEF EnvelopeIsClosed, Closed, StagedFrom, Supplied, Pixels, References, Tied
<1> QED
  BY <1>1, MailInvariant, PTL

(* In a message that announces no limit every part of the mail has a defect *)
(* to its name, or is shown with everything that was decoded of it; and     *)
(* bytes that the decoding dropped are of a part that has one, or of a text *)
(* or an image, whose broken base64 the parser does not notice.             *)
THEOREM NothingIsLost == MailSpec => []NothingIsLostInSilence
<1>1. MailInv => NothingIsLostInSilence
  BY DEF MailInv
<1> QED
  BY <1>1, MailInvariant, PTL

-----------------------------------------------------------------------------
(***************************************************************************)
(* The inductive invariant of the calls.                                   *)
(***************************************************************************)

\* The loop numbers its attempts as the wire does, and it goes on only as
\* long as no answer was accepted, within the attempts and the budget.
LoopFollowsTheWire ==
  /\ pc = "over" <=> turn = Len(Calls) + 1
  /\ pc \in {"attempting", "waiting"} =>
       /\ attempt = Len(wire[Current]) + 1
       /\ \A i \in 1 .. Len(wire[Current]) : wire[Current][i] \notin Good
  /\ pc = "ready" => attempt = 1
  /\ pc = "waiting" => MayAttempt

\* A call that has not begun left nothing.
NotBegun ==
  \A i \in 1 .. Len(Calls) :
    i > turn \/ (i = turn /\ pc = "ready") =>
      wire[Calls[i]] = << >> /\ record[Calls[i]] = NoRecord

\* The request of a call is under way or has been answered.
Requested(c) == wire[c] # << >> \/ (InProgress(c) /\ pc = "waiting")

\* The audits of a directory and a phase are those of the one call that
\* captures there in that phase, and there are some once it sent a request.
AuditsAreOwned ==
  \A c \in CallSet :
    /\ InputAudits(Dir(c), Phase(c)) # {} <=> Requested(c)
    /\ \A f \in InputAudits(Dir(c), Phase(c)) : disk[Dir(c)][f] = c

CallInv ==
  TypeOK /\ LoopFollowsTheWire /\ NotBegun /\ RecordTellsTheWire /\ AuditsAreOwned

-----------------------------------------------------------------------------
(***************************************************************************)
(* The calls and their names.                                              *)
(***************************************************************************)

LEMMA CallsAre ==
  /\ Len(Calls) = 3
  /\ Calls[1] = "internal" /\ Calls[2] = "final" /\ Calls[3] = "control_b"
  /\ CallSet = {"internal", "final", "control_b"}
<1>1. Len(Calls) = 3 /\ Calls[1] = "internal" /\ Calls[2] = "final" /\ Calls[3] = "control_b"
  BY DEF Calls
<1>2. 1 .. 3 = {1, 2, 3}
  OBVIOUS
<1> QED
  BY <1>1, <1>2 DEF CallSet

\* Two calls never share both the directory and the phase.
LEMMA OneOwner ==
  ASSUME NEW c \in CallSet, NEW d \in CallSet, Dir(c) = Dir(d), Phase(c) = Phase(d)
  PROVE  c = d
  BY CallsAre DEF Dir, Phase

LEMMA DirPhaseType ==
  ASSUME NEW c \in CallSet
  PROVE  Dir(c) \in Dirs /\ Phase(c) \in {"internal", "final"}
  BY CallsAre DEF Dir, Dirs, Phase

\* Every call comes once, in turn.
LEMMA CurrentIsACall ==
  ASSUME TypeOK, turn <= Len(Calls)
  PROVE  /\ Current \in CallSet
         /\ turn \in 1 .. Len(Calls)
         /\ \A i \in 1 .. Len(Calls) : Calls[i] = Current => i = turn
<1>1. turn \in {1, 2, 3}
  BY CallsAre DEF TypeOK
<1> QED
  BY <1>1, CallsAre DEF Current, CallSet

\* A call is in progress unless the email is over.
LEMMA NotOver ==
  ASSUME TypeOK, LoopFollowsTheWire, pc # "over"
  PROVE  turn <= Len(Calls)
  BY CallsAre DEF TypeOK, LoopFollowsTheWire

-----------------------------------------------------------------------------
(***************************************************************************)
(* The files.                                                              *)
(***************************************************************************)

AuditsIn(files) == {f \in DOMAIN files : f[1] = "input_audit"}

\* A directory that got files, none of them an audit.
SameAudits(old, new) ==
  /\ DOMAIN new \subseteq FileNames
  /\ AuditsIn(new) = AuditsIn(old)
  /\ \A f \in AuditsIn(old) : new[f] = old[f]

\* A file of another kind leaves the audits alone.
LEMMA OtherFile ==
  ASSUME NEW old, NEW files, SameAudits(old, files), NEW content,
         NEW name \in FileNames, name[1] # "input_audit"
  PROVE  SameAudits(old, Written(files, name, content))
<1> DEFINE new == Written(files, name, content)
<1>1. /\ DOMAIN new = DOMAIN files \cup {name}
      /\ \A f \in DOMAIN files \ {name} : new[f] = files[f]
  BY DEF Written
<1> HIDE DEF new
<1>2. SameAudits(old, new)
  BY <1>1 DEF AuditsIn, SameAudits
<1> QED
  BY <1>2 DEF new

LEMMA FileNameType ==
  ASSUME NEW c \in CallSet, NEW n \in Nat
  PROVE  /\ AuditFile(c, n) \in FileNames /\ ErrorFile(n) \in FileNames
         /\ MetaFile(n) \in FileNames /\ TraceFile(n) \in FileNames
         /\ RejectFile(c) \in FileNames /\ ProjectionError(c) \in FileNames
  BY DirPhaseType DEF AuditFile, ErrorFile, MetaFile, TraceFile, RejectFile,
       ProjectionError, File, FileNames

\* What an answer leaves is no audit.
LEMMA CapturedFiles ==
  ASSUME TypeOK, NEW files, DOMAIN files \subseteq FileNames, NEW answer
  PROVE  SameAudits(files, Captured(files, answer))
<1> DEFINE meta == IF HasBody(answer)
                   THEN Written(files, MetaFile(attempt), Current) ELSE files
           error == IF Accepted(answer) THEN meta
                    ELSE Written(meta, ErrorFile(attempt), ErrorClass(answer))
           all == IF answer = "fenced" THEN Written(error, TraceFile(attempt), Current)
                  ELSE error
<1>1. attempt \in Nat
  BY LlmAssumption DEF TypeOK
<1>2. /\ MetaFile(attempt) \in FileNames /\ MetaFile(attempt)[1] # "input_audit"
      /\ ErrorFile(attempt) \in FileNames /\ ErrorFile(attempt)[1] # "input_audit"
      /\ TraceFile(attempt) \in FileNames /\ TraceFile(attempt)[1] # "input_audit"
  BY <1>1 DEF MetaFile, ErrorFile, TraceFile, File, FileNames
<1>3. SameAudits(files, files)
  BY DEF SameAudits
<1>4. SameAudits(files, meta)
  BY <1>2, <1>3, OtherFile
<1>5. SameAudits(files, error)
  <2> HIDE DEF meta
  <2> QED
    BY <1>2, <1>4, OtherFile
<1>6. SameAudits(files, all)
  <2> HIDE DEF error
  <2> QED
    BY <1>2, <1>5, OtherFile
<1>7. Captured(files, answer) = all
  BY DEF Captured
<1> QED
  BY <1>6, <1>7

-----------------------------------------------------------------------------
(***************************************************************************)
(* What a record tells of the wire.                                        *)
(***************************************************************************)

\* A call that was not made and a call that begins tell of no exchange.
LEMMA NothingToTell ==
  /\ NoRecord \in CallRecords /\ TellsTheWire(NoRecord, << >>, 0)
  /\ NewRecord \in CallRecords /\ TellsTheWire(NewRecord, << >>, 0)
<1>1. NewRecord \in CallRecords /\ NoRecord \in CallRecords
  BY LlmAssumption DEF NewRecord, NoRecord, CallRecords
<1>2. FirstVerdict(<< >>) = "none"
  BY DEF FirstVerdict
<1> QED
  BY <1>1, <1>2 DEF NewRecord, NoRecord, TellsTheWire

\* The first verdict is settled by the first answer.
LEMMA FirstIsSettled ==
  ASSUME NEW w \in Seq(Answers), NEW a \in Answers
  PROVE  FirstVerdict(Append(w, a)) =
           IF w # << >> \/ ~HasBody(a) \/ a = "status" THEN FirstVerdict(w)
           ELSE IF ValidDocument(a) THEN "valid" ELSE "invalid"
<1>1. CASE w # << >>
  <2>1. Append(w, a) # << >> /\ Append(w, a)[1] = w[1]
    BY <1>1
  <2> QED
    BY <1>1, <2>1 DEF FirstVerdict
<1>2. CASE w = << >>
  <2>1. Append(w, a) # << >> /\ Append(w, a)[1] = a
    BY <1>2
  <2> QED
    BY <1>2, <2>1 DEF FirstVerdict, HasBody, ValidDocument, Answers, Unsent, BadBody,
         WrongModel, Good, Escaping
<1> QED
  BY <1>1, <1>2

\* A record that told the wire of its request still does with the answer,
\* whatever its status when the answer is accepted.
LEMMA AnswerIsTold ==
  ASSUME NEW w \in Seq(Answers), NEW a \in Answers,
         NEW r, NEW s, TellsTheWire(r, w, 1), \A i \in 1 .. Len(w) : w[i] \notin Good,
         s.attempts = r.attempts, s.first = FirstVerdict(Append(w, a)),
         s.status = "ok" => a \in Good
  PROVE  TellsTheWire(s, Append(w, a), 0)
<1> DEFINE v == Append(w, a)
<1>1. Len(v) = Len(w) + 1 /\ v[Len(w) + 1] = a /\ Len(w) \in Nat /\ v # << >>
  BY AppendProperties
<1>2. \A i \in 1 .. Len(w) : v[i] = w[i]
  BY AppendProperties
<1>3. 1 .. Len(v) - 1 = 1 .. Len(w)
  BY <1>1
<1> HIDE DEF v
<1> QED
  BY <1>1, <1>2, <1>3 DEF v, TellsTheWire, Good

-----------------------------------------------------------------------------
(***************************************************************************)
(* What the steps have in common.                                          *)
(***************************************************************************)

DiskOK == DOMAIN disk = Dirs /\ \A d \in Dirs : DOMAIN disk[d] \subseteq FileNames

\* A step that writes no audit and neither begins nor forgets a request.
LEMMA AuditsKept ==
  ASSUME AuditsAreOwned, DOMAIN disk' = Dirs,
         \A d \in Dirs : SameAudits(disk[d], disk'[d]),
         \A c \in CallSet : Requested(c)' <=> Requested(c)
  PROVE  AuditsAreOwned' /\ DiskOK'
<1>1. DiskOK'
  BY DEF DiskOK, SameAudits
<1>2. ASSUME NEW c \in CallSet
      PROVE  /\ InputAudits(Dir(c), Phase(c))' # {} <=> Requested(c)'
             /\ \A f \in InputAudits(Dir(c), Phase(c))' : disk'[Dir(c)][f] = c
  <2>1. /\ InputAudits(Dir(c), Phase(c))'
             = {f \in AuditsIn(disk'[Dir(c)]) : f[2] = Phase(c)}
        /\ InputAudits(Dir(c), Phase(c))
             = {f \in AuditsIn(disk[Dir(c)]) : f[2] = Phase(c)}
    BY DEF InputAudits, AuditsIn
  <2>2. SameAudits(disk[Dir(c)], disk'[Dir(c)])
    BY DirPhaseType
  <2>3. InputAudits(Dir(c), Phase(c))' = InputAudits(Dir(c), Phase(c))
    BY <2>1, <2>2 DEF SameAudits
  <2>4. \A f \in InputAudits(Dir(c), Phase(c)) : disk'[Dir(c)][f] = disk[Dir(c)][f]
    BY <2>1, <2>2 DEF SameAudits
  <2> QED
    BY <2>3, <2>4 DEF AuditsAreOwned
<1> QED
  BY <1>1, <1>2 DEF AuditsAreOwned

\* One directory that gets files other than audits.
LEMMA OneDirectory ==
  ASSUME DiskOK, NEW c \in CallSet, NEW files, SameAudits(disk[Dir(c)], files),
         disk' = [disk EXCEPT ![Dir(c)] = files]
  PROVE  DOMAIN disk' = Dirs /\ \A d \in Dirs : SameAudits(disk[d], disk'[d])
<1>1. \A d \in Dirs : SameAudits(disk[d], disk[d])
  BY DEF SameAudits, DiskOK
<1> QED
  BY <1>1, DirPhaseType DEF DiskOK

LEMMA OneFile ==
  ASSUME DiskOK, NEW c \in CallSet, NEW content,
         NEW name \in FileNames, name[1] # "input_audit",
         disk' = [disk EXCEPT ![Dir(c)] = Written(@, name, content)]
  PROVE  DOMAIN disk' = Dirs /\ \A d \in Dirs : SameAudits(disk[d], disk'[d])
<1>1. SameAudits(disk[Dir(c)], disk[Dir(c)])
  BY DirPhaseType DEF SameAudits, DiskOK
<1>2. SameAudits(disk[Dir(c)], Written(disk[Dir(c)], name, content))
  BY <1>1, OtherFile
<1>3. disk' = [disk EXCEPT ![Dir(c)] = Written(disk[Dir(c)], name, content)]
  OBVIOUS
<1> QED
  BY <1>2, <1>3, OneDirectory

LEMMA AttemptFilesType ==
  ASSUME NEW files, DOMAIN files \subseteq FileNames
  PROVE  AttemptFiles(files) \in SUBSET FileNames
  BY DEF AttemptFiles

\* The call in progress ends with a record that tells the wire.
LEMMA NextCallKeeps ==
  ASSUME CallInv, pc \in {"ready", "attempting", "answered"},
         NEW r \in CallRecords, TellsTheWire(r, wire[Current], 0),
         NextCall(r), wire' = wire, DOMAIN disk' = Dirs,
         \A d \in Dirs : SameAudits(disk[d], disk'[d])
  PROVE  CallInv'
<1> USE DEF CallInv
<1>1. turn <= Len(Calls)
  BY NotOver
<1>2. Current \in CallSet /\ turn \in 1 .. 3 /\ Len(Calls) = 3
  BY <1>1, CurrentIsACall, CallsAre
<1>3. pc' \in {"ready", "over"} /\ turn' = turn + 1 /\ attempt' = 1 /\ elapsed' = 0
        /\ record' = [record EXCEPT ![Current] = r]
  BY DEF NextCall
<1>4. \A c \in CallSet : Requested(c)' <=> Requested(c)
  BY <1>3 DEF Requested
<1>5. AuditsAreOwned' /\ DiskOK'
  BY <1>4, AuditsKept
<1>6. TypeOK'
  <2>1. record' \in [CallSet -> CallRecords]
    BY <1>2, <1>3 DEF TypeOK
  <2> QED
    BY <1>2, <1>3, <1>5, <2>1, LlmAssumption DEF TypeOK, DiskOK
<1>7. LoopFollowsTheWire'
  BY <1>2, <1>3 DEF LoopFollowsTheWire, NextCall
<1>8. NotBegun'
  <2> SUFFICES ASSUME NEW i \in 1 .. Len(Calls), i > turn' \/ (i = turn' /\ pc' = "ready")
               PROVE  wire'[Calls[i]] = << >> /\ record'[Calls[i]] = NoRecord
    BY DEF NotBegun
  <2>1. i > turn /\ i # turn
    BY <1>2, <1>3
  <2>2. Calls[i] # Current /\ Calls[i] \in CallSet
    BY <2>1, <1>1, CurrentIsACall DEF CallSet
  <2>3. wire[Calls[i]] = << >> /\ record[Calls[i]] = NoRecord
    BY <2>1 DEF NotBegun
  <2>4. record'[Calls[i]] = record[Calls[i]]
    BY <1>3, <2>2 DEF TypeOK
  <2> QED
    BY <2>3, <2>4
<1>9. RecordTellsTheWire'
  <2> SUFFICES ASSUME NEW c \in CallSet
               PROVE  TellsTheWire(record'[c], wire'[c], Unanswered(c)')
    BY DEF RecordTellsTheWire
  <2>1. Unanswered(c)' = 0 /\ Unanswered(c) = 0
    BY <1>3 DEF Unanswered
  <2>2. CASE c = Current
    BY <2>1, <2>2, <1>2, <1>3 DEF TypeOK
  <2>3. CASE c # Current
    <3>1. record'[c] = record[c]
      BY <2>3, <1>3 DEF TypeOK
    <3> QED
      BY <2>1, <3>1 DEF RecordTellsTheWire
  <2> QED
    BY <2>2, <2>3
<1> QED
  BY <1>5, <1>6, <1>7, <1>8, <1>9

-----------------------------------------------------------------------------
(***************************************************************************)
(* One lemma per action.                                                   *)
(***************************************************************************)

\* Where the email is not over, a call is in progress and its record tells
\* the wire.
LEMMA InCall ==
  ASSUME CallInv, pc # "over"
  PROVE  /\ turn \in 1 .. 3 /\ turn <= Len(Calls) /\ Current \in CallSet
         /\ record[Current] \in CallRecords /\ wire[Current] \in Seq(Answers)
         /\ TellsTheWire(record[Current], wire[Current],
                         IF pc = "waiting" THEN 1 ELSE 0)
         /\ DiskOK
         /\ \A d \in Dirs : SameAudits(disk[d], disk[d])
<1>1. turn \in 1 .. 3 /\ turn <= Len(Calls) /\ Current \in CallSet
  BY NotOver, CurrentIsACall, CallsAre DEF CallInv
<1>2. Unanswered(Current) = IF pc = "waiting" THEN 1 ELSE 0
  BY <1>1 DEF Unanswered, InProgress
<1>3. TellsTheWire(record[Current], wire[Current], Unanswered(Current))
  BY <1>1 DEF CallInv, RecordTellsTheWire
<1> QED
  BY <1>1, <1>2, <1>3 DEF CallInv, TypeOK, DiskOK, SameAudits

LEMMA ReadyToTell ==
  ASSUME CallInv, pc = "ready"
  PROVE  wire[Current] = << >> /\ record[Current] = NoRecord
  BY InCall, CallsAre DEF CallInv, NotBegun, Current

LEMMA NoCallKeeps == CallInv /\ NoCall => CallInv'
<1> SUFFICES ASSUME CallInv, NoCall PROVE CallInv'
  OBVIOUS
<1>1. pc = "ready" /\ NextCall(NoRecord) /\ wire' = wire /\ disk' = disk
  BY DEF NoCall
<1>2. TellsTheWire(NoRecord, wire[Current], 0)
  BY <1>1, ReadyToTell, NothingToTell
<1> QED
  BY <1>1, <1>2, InCall, NothingToTell, NextCallKeeps DEF DiskOK

LEMMA RefuseEnvelopeKeeps == CallInv /\ RefuseEnvelope => CallInv'
<1> SUFFICES ASSUME CallInv, RefuseEnvelope PROVE CallInv'
  OBVIOUS
<1>1. pc = "ready" /\ NextCall(NewRecord) /\ wire' = wire
  BY DEF RefuseEnvelope
<1>2. Current \in CallSet /\ DiskOK /\ TellsTheWire(NewRecord, wire[Current], 0)
  BY <1>1, InCall, ReadyToTell, NothingToTell
<1>3. ProjectionError(Current) \in FileNames /\ ProjectionError(Current)[1] # "input_audit"
  BY <1>2, FileNameType DEF ProjectionError, File
<1>4. DOMAIN disk' = Dirs /\ \A d \in Dirs : SameAudits(disk[d], disk'[d])
  BY <1>2, <1>3, OneFile DEF RefuseEnvelope
<1> QED
  BY <1>1, <1>2, <1>4, NothingToTell, NextCallKeeps

LEMMA AcceptKeeps == CallInv /\ Accept => CallInv'
<1> SUFFICES ASSUME CallInv, Accept PROVE CallInv'
  OBVIOUS
<1>1. pc = "answered" /\ NextCall(record[Current]) /\ wire' = wire /\ disk' = disk
  BY DEF Accept
<1> QED
  BY <1>1, InCall, NextCallKeeps DEF DiskOK

LEMMA RejectKeeps == CallInv /\ Reject => CallInv'
<1> SUFFICES ASSUME CallInv, Reject PROVE CallInv'
  OBVIOUS
<1> DEFINE refs == record[Current].refs \cup {RejectFile(Current)}
           r == [record[Current] EXCEPT !.status = "error", !.refs = refs]
<1>1. pc = "answered" /\ NextCall(r) /\ wire' = wire
  BY DEF Reject
<1>2. /\ Current \in CallSet /\ DiskOK /\ record[Current] \in CallRecords
      /\ TellsTheWire(record[Current], wire[Current], 0)
  BY <1>1, InCall
<1>3. RejectFile(Current) \in FileNames /\ RejectFile(Current)[1] # "input_audit"
  BY <1>2, FileNameType DEF RejectFile, File
<1>4. DOMAIN disk' = Dirs /\ \A d \in Dirs : SameAudits(disk[d], disk'[d])
  BY <1>2, <1>3, OneFile DEF Reject
<1>5. r \in CallRecords /\ TellsTheWire(r, wire[Current], 0)
  BY <1>2, <1>3 DEF CallRecords, TellsTheWire
<1> HIDE DEF r
<1> QED
  BY <1>1, <1>4, <1>5, NextCallKeeps

LEMMA GiveUpKeeps == CallInv /\ GiveUp => CallInv'
<1> SUFFICES ASSUME CallInv, GiveUp PROVE CallInv'
  OBVIOUS
<1> DEFINE r == [record[Current] EXCEPT !.refs = AttemptFiles(disk[Dir(Current)])]
<1>1. pc = "attempting" /\ NextCall(r) /\ wire' = wire /\ disk' = disk
  BY DEF GiveUp
<1>2. /\ Current \in CallSet /\ DiskOK /\ record[Current] \in CallRecords
      /\ TellsTheWire(record[Current], wire[Current], 0)
      /\ \A d \in Dirs : SameAudits(disk[d], disk[d])
  BY <1>1, InCall
<1>3. AttemptFiles(disk[Dir(Current)]) \in SUBSET FileNames
  BY <1>2, DirPhaseType, AttemptFilesType DEF DiskOK
<1>4. r \in CallRecords /\ TellsTheWire(r, wire[Current], 0)
  BY <1>2, <1>3 DEF CallRecords, TellsTheWire
<1> HIDE DEF r
<1> QED
  BY <1>1, <1>2, <1>4, NextCallKeeps DEF DiskOK

\* A step of the call in progress leaves the records of the others alone.
LEMMA OnlyCurrent ==
  ASSUME CallInv, pc \in {"ready", "attempting", "waiting"}, turn' = turn, pc' # "ready",
         NEW r \in CallRecords, NEW w \in Seq(Answers),
         TellsTheWire(r, w, IF pc' = "waiting" THEN 1 ELSE 0),
         record' = [record EXCEPT ![Current] = r],
         wire' = [wire EXCEPT ![Current] = w]
  PROVE  /\ record' \in [CallSet -> CallRecords] /\ wire' \in [CallSet -> Seq(Answers)]
         /\ wire'[Current] = w /\ \A c \in CallSet \ {Current} : wire'[c] = wire[c]
         /\ RecordTellsTheWire' /\ NotBegun'
<1>1. turn \in 1 .. 3 /\ turn <= Len(Calls) /\ Current \in CallSet
  BY InCall DEF CallInv
<1>2. /\ record'[Current] = r /\ \A c \in CallSet \ {Current} : record'[c] = record[c]
      /\ wire'[Current] = w /\ \A c \in CallSet \ {Current} : wire'[c] = wire[c]
      /\ record' \in [CallSet -> CallRecords] /\ wire' \in [CallSet -> Seq(Answers)]
  BY <1>1 DEF CallInv, TypeOK
<1>3. Current' = Current
  BY DEF Current
<1>4. RecordTellsTheWire'
  <2> SUFFICES ASSUME NEW c \in CallSet
               PROVE  TellsTheWire(record'[c], wire'[c], Unanswered(c)')
    BY DEF RecordTellsTheWire
  <2>1. CASE c = Current
    <3>1. Unanswered(c)' = IF pc' = "waiting" THEN 1 ELSE 0
      BY <2>1, <1>1, <1>3 DEF Unanswered, InProgress
    <3> QED
      BY <2>1, <3>1, <1>2
  <2>2. CASE c # Current
    <3>1. Unanswered(c)' = 0 /\ Unanswered(c) = 0
      BY <2>2, <1>3 DEF Unanswered, InProgress
    <3>2. TellsTheWire(record[c], wire[c], Unanswered(c))
      BY DEF CallInv, RecordTellsTheWire
    <3> QED
      BY <2>2, <3>1, <3>2, <1>2
  <2> QED
    BY <2>1, <2>2
<1>5. NotBegun'
  <2> SUFFICES ASSUME NEW i \in 1 .. Len(Calls), i > turn' \/ (i = turn' /\ pc' = "ready")
               PROVE  wire'[Calls[i]] = << >> /\ record'[Calls[i]] = NoRecord
    BY DEF NotBegun
  <2>1. i > turn
    OBVIOUS
  <2>2. i # turn
    BY <2>1, <1>1, CallsAre
  <2>3. Calls[i] # Current /\ Calls[i] \in CallSet
    BY <2>2, <1>1, CurrentIsACall DEF CallSet, CallInv
  <2>4. wire[Calls[i]] = << >> /\ record[Calls[i]] = NoRecord
    BY <2>1 DEF NotBegun, CallInv
  <2> QED
    BY <2>3, <2>4, <1>2
<1> QED
  BY <1>2, <1>4, <1>5

LEMMA BeginKeeps == CallInv /\ Begin => CallInv'
<1> SUFFICES ASSUME CallInv, Begin PROVE CallInv'
  OBVIOUS
<1>1. /\ pc = "ready" /\ pc' = "attempting"
      /\ record' = [record EXCEPT ![Current] = NewRecord]
      /\ UNCHANGED <<turn, attempt, elapsed, disk, wire>>
  BY DEF Begin
<1>2. /\ Current \in CallSet /\ DiskOK /\ wire[Current] = << >> /\ turn <= Len(Calls)
      /\ \A d \in Dirs : SameAudits(disk[d], disk[d]) /\ turn \in 1 .. 3
  BY <1>1, InCall, ReadyToTell
<1>3. wire' = [wire EXCEPT ![Current] = << >>] /\ << >> \in Seq(Answers)
  BY <1>1, <1>2 DEF CallInv, TypeOK
<1>4. /\ record' \in [CallSet -> CallRecords]
      /\ RecordTellsTheWire' /\ NotBegun'
  BY <1>1, <1>3, NothingToTell, OnlyCurrent
<1>5. AuditsAreOwned'
  <2>1. \A c \in CallSet : Requested(c)' <=> Requested(c)
    BY <1>1 DEF Requested
  <2> QED
    BY <2>1, <1>1, <1>2, AuditsKept DEF CallInv, DiskOK
<1>6. TypeOK'
  BY <1>1, <1>4 DEF CallInv, TypeOK
<1>7. LoopFollowsTheWire'
  BY <1>1, <1>2, CallsAre DEF CallInv, LoopFollowsTheWire, Current
<1> QED
  BY <1>4, <1>5, <1>6, <1>7 DEF CallInv

LEMMA PostKeeps == CallInv /\ Post => CallInv'
<1> SUFFICES ASSUME CallInv, Post PROVE CallInv'
  OBVIOUS
<1> DEFINE name == AuditFile(Current, attempt)
           new == Written(disk[Dir(Current)], name, Current)
           r == [record[Current] EXCEPT !.attempts = attempt]
<1>1. /\ pc = "attempting" /\ MayAttempt /\ pc' = "waiting"
      /\ record' = [record EXCEPT ![Current] = r]
      /\ disk' = [disk EXCEPT ![Dir(Current)] = new]
      /\ UNCHANGED <<turn, attempt, elapsed, wire>>
  BY DEF Post
<1>2. /\ Current \in CallSet /\ DiskOK /\ turn <= Len(Calls) /\ turn \in 1 .. 3
      /\ record[Current] \in CallRecords /\ wire[Current] \in Seq(Answers)
      /\ TellsTheWire(record[Current], wire[Current], 0)
  BY <1>1, InCall
<1>3. /\ attempt \in 1 .. MAX_LLM_ATTEMPTS /\ attempt = Len(wire[Current]) + 1
      /\ \A i \in 1 .. Len(wire[Current]) : wire[Current][i] \notin Good
  BY <1>1, LlmAssumption DEF CallInv, TypeOK, LoopFollowsTheWire, MayAttempt
<1>4. r \in CallRecords /\ TellsTheWire(r, wire[Current], 1)
  BY <1>2, <1>3 DEF CallRecords, TellsTheWire
<1>5. wire' = [wire EXCEPT ![Current] = wire[Current]]
  BY <1>1, <1>2 DEF CallInv, TypeOK
<1>6. record' \in [CallSet -> CallRecords] /\ RecordTellsTheWire' /\ NotBegun'
  <2> HIDE DEF r
  <2> QED
    BY <1>1, <1>2, <1>4, <1>5, OnlyCurrent
<1>7. name \in FileNames /\ name[1] = "input_audit" /\ name[2] = Phase(Current)
  BY <1>2, <1>3, FileNameType, LlmAssumption DEF AuditFile, File
<1>8. /\ DOMAIN new = DOMAIN disk[Dir(Current)] \cup {name}
      /\ new[name] = Current
      /\ \A f \in DOMAIN disk[Dir(Current)] \ {name} : new[f] = disk[Dir(Current)][f]
  BY DEF Written
<1> HIDE DEF new, name
<1>9. /\ disk'[Dir(Current)] = new /\ DOMAIN disk' = Dirs
      /\ \A d \in Dirs \ {Dir(Current)} : disk'[d] = disk[d]
      /\ Dir(Current) \in Dirs
  BY <1>1, <1>2, DirPhaseType DEF DiskOK
<1>10. TypeOK'
  <2>1. \A d \in Dirs : DOMAIN disk'[d] \subseteq FileNames
    BY <1>2, <1>7, <1>8, <1>9 DEF DiskOK
  <2> QED
    BY <1>1, <1>6, <1>9, <2>1 DEF CallInv, TypeOK
<1>11. LoopFollowsTheWire'
  BY <1>1 DEF CallInv, LoopFollowsTheWire, Current, MayAttempt
<1>12. AuditsAreOwned'
  <2> SUFFICES ASSUME NEW c \in CallSet
               PROVE  /\ InputAudits(Dir(c), Phase(c))' # {} <=> Requested(c)'
                      /\ \A f \in InputAudits(Dir(c), Phase(c))' : disk'[Dir(c)][f] = c
    BY DEF AuditsAreOwned
  <2>1. /\ InputAudits(Dir(c), Phase(c)) # {} <=> Requested(c)
        /\ \A f \in InputAudits(Dir(c), Phase(c)) : disk[Dir(c)][f] = c
    BY DEF CallInv, AuditsAreOwned
  <2>2. CASE c = Current
    <3>1. Requested(c)'
      BY <2>2, <1>1, <1>2 DEF Requested, InProgress, Current
    <3>2. name \in InputAudits(Dir(c), Phase(c))'
      BY <2>2, <1>7, <1>8, <1>9 DEF InputAudits
    <3>3. ASSUME NEW f \in InputAudits(Dir(c), Phase(c))'
          PROVE  disk'[Dir(c)][f] = c
      BY <3>3, <2>1, <2>2, <1>8, <1>9 DEF InputAudits
    <3> QED
      BY <3>1, <3>2, <3>3
  <2>3. CASE c # Current
    <3>1. Requested(c)' <=> Requested(c)
      BY <2>3, <1>1 DEF Requested, InProgress, Current
    <3>2. Dir(c) # Dir(Current) \/ Phase(c) # Phase(Current)
      BY <2>3, <1>2, OneOwner
    <3>3. Dir(c) \in Dirs
      BY DirPhaseType
    <3>4. /\ InputAudits(Dir(c), Phase(c))' = InputAudits(Dir(c), Phase(c))
          /\ \A f \in InputAudits(Dir(c), Phase(c)) : disk'[Dir(c)][f] = disk[Dir(c)][f]
      <4>1. CASE Dir(c) # Dir(Current)
        BY <4>1, <3>3, <1>9 DEF InputAudits
      <4>2. CASE Dir(c) = Dir(Current) /\ Phase(c) # Phase(Current)
        BY <4>2, <1>7, <1>8, <1>9 DEF InputAudits
      <4> QED
        BY <4>1, <4>2, <3>2
    <3> QED
      BY <3>1, <3>4, <2>1
  <2> QED
    BY <2>2, <2>3
<1> QED
  BY <1>6, <1>10, <1>11, <1>12 DEF CallInv

LEMMA AnswerKeeps ==
  ASSUME CallInv, NEW a \in Answers, NEW lag \in 0 .. MaxLag, Answer(a, lag)
  PROVE  CallInv'
<1> DEFINE w == Append(wire[Current], a)
           files == Captured(disk[Dir(Current)], a)
           first == [record[Current] EXCEPT !.first = FirstAttempt(a)]
           accepted == [first EXCEPT !.status = "ok", !.refs = AttemptFiles(files)]
<1>1. pc = "waiting" /\ turn' = turn /\ wire' = [wire EXCEPT ![Current] = w]
        /\ elapsed' = elapsed + lag
  BY DEF Answer
<1>2. /\ Current \in CallSet /\ DiskOK /\ turn <= Len(Calls) /\ turn \in 1 .. 3
      /\ record[Current] \in CallRecords /\ wire[Current] \in Seq(Answers)
      /\ TellsTheWire(record[Current], wire[Current], 1)
      /\ \A d \in Dirs : SameAudits(disk[d], disk[d])
  BY <1>1, InCall
<1>3. /\ attempt = Len(wire[Current]) + 1 /\ attempt \in 1 .. MAX_LLM_ATTEMPTS
      /\ \A i \in 1 .. Len(wire[Current]) : wire[Current][i] \notin Good
      /\ elapsed \in Nat /\ elapsed < PHASE_SECONDS
  BY <1>1, LlmAssumption DEF CallInv, TypeOK, LoopFollowsTheWire, MayAttempt
<1>4. w \in Seq(Answers) /\ w # << >> /\ Len(w) = Len(wire[Current]) + 1
  BY <1>2, AppendProperties
<1>5. FirstAttempt(a) = FirstVerdict(w)
  <2>1. record[Current].first = FirstVerdict(wire[Current])
    BY <1>2 DEF TellsTheWire
  <2>2. attempt # 1 <=> wire[Current] # << >>
    BY <1>2, <1>3
  <2> QED
    BY <1>2, <2>1, <2>2, FirstIsSettled DEF FirstAttempt
<1>6. FirstAttempt(a) \in {"none", "valid", "invalid"}
  BY <1>2 DEF FirstAttempt, CallRecords
<1>7. SameAudits(disk[Dir(Current)], files)
  BY <1>2, DirPhaseType, CapturedFiles DEF DiskOK, CallInv
<1>8. elapsed' \in 0 .. PHASE_SECONDS + MaxLag
  BY <1>1, <1>3, LlmAssumption
<1>9. first \in CallRecords /\ first.status = record[Current].status
        /\ first.attempts = record[Current].attempts /\ first.first = FirstVerdict(w)
  BY <1>2, <1>5, <1>6 DEF CallRecords
<1>10. accepted \in CallRecords /\ accepted.status = "ok"
         /\ accepted.attempts = record[Current].attempts /\ accepted.first = FirstVerdict(w)
  <2>1. AttemptFiles(files) \in SUBSET FileNames
    BY <1>7, AttemptFilesType DEF SameAudits
  <2> HIDE DEF first
  <2> QED
    BY <1>9, <2>1 DEF CallRecords
<1>11. record[Current].status # "ok"
  BY <1>2, <1>3 DEF TellsTheWire, Good
<1>12. pc' # "waiting" => \A c \in CallSet : Requested(c)' <=> Requested(c)
  <2> SUFFICES ASSUME pc' # "waiting", NEW c \in CallSet
               PROVE  Requested(c)' <=> Requested(c)
    OBVIOUS
  <2>1. CASE c = Current
    <3>1. wire'[c] = w /\ InProgress(c)
      BY <2>1, <1>1, <1>2 DEF CallInv, TypeOK, InProgress
    <3> QED
      BY <3>1, <1>1, <1>4 DEF Requested
  <2>2. CASE c # Current
    <3>1. wire'[c] = wire[c] /\ ~InProgress(c)
      BY <2>2, <1>1, <1>2 DEF CallInv, TypeOK, InProgress
    <3> QED
      BY <3>1 DEF Requested
  <2> QED
    BY <2>1, <2>2
<1> HIDE DEF w, files, first, accepted
<1>13. CASE a \in Escaping
  <2>1. pc' = "aborted" /\ UNCHANGED <<record, disk, attempt>>
    BY <1>13 DEF Answer
  <2>2. FirstVerdict(w) = record[Current].first
    BY <1>5, <1>13 DEF FirstAttempt, HasBody, Escaping, BadBody, WrongModel, Good
  <2>3. TellsTheWire(record[Current], w, 0)
    BY <1>2, <1>3, <1>11, <2>2, AnswerIsTold DEF w
  <2>4. record' = [record EXCEPT ![Current] = record[Current]]
    BY <1>2, <2>1 DEF CallInv, TypeOK
  <2>5. /\ record' \in [CallSet -> CallRecords] /\ wire' \in [CallSet -> Seq(Answers)]
        /\ RecordTellsTheWire' /\ NotBegun'
    BY <1>1, <1>2, <1>4, <2>1, <2>3, <2>4, OnlyCurrent
  <2>6. AuditsAreOwned' /\ DiskOK'
    BY <1>2, <1>12, <2>1, AuditsKept DEF CallInv, DiskOK
  <2>7. TypeOK' /\ LoopFollowsTheWire'
    BY <1>1, <1>2, <1>8, <2>1, <2>5, <2>6, CallsAre DEF CallInv, TypeOK, LoopFollowsTheWire
  <2> QED
    BY <2>5, <2>6, <2>7 DEF CallInv
<1>14. CASE a \notin Escaping
  <2>1. disk' = [disk EXCEPT ![Dir(Current)] = files]
    BY <1>14 DEF Answer, files
  <2>2. DOMAIN disk' = Dirs /\ \A d \in Dirs : SameAudits(disk[d], disk'[d])
    BY <1>2, <1>7, <2>1, OneDirectory
  <2>3. CASE Accepted(a)
    <3>1. record' = [record EXCEPT ![Current] = accepted] /\ pc' = "answered"
            /\ attempt' = attempt
      BY <1>14, <2>3 DEF Answer, files, first, accepted
    <3>2. TellsTheWire(accepted, w, 0)
      BY <1>2, <1>3, <1>10, <2>3, AnswerIsTold DEF w, Accepted
    <3>3. /\ record' \in [CallSet -> CallRecords] /\ wire' \in [CallSet -> Seq(Answers)]
          /\ RecordTellsTheWire' /\ NotBegun'
      BY <1>1, <1>2, <1>4, <1>10, <3>1, <3>2, OnlyCurrent
    <3>4. AuditsAreOwned' /\ DiskOK'
      BY <1>12, <2>2, <3>1, AuditsKept DEF CallInv
    <3>5. TypeOK' /\ LoopFollowsTheWire'
      BY <1>1, <1>2, <1>8, <3>1, <3>3, <3>4, CallsAre
         DEF CallInv, TypeOK, LoopFollowsTheWire, DiskOK
    <3> QED
      BY <3>3, <3>4, <3>5 DEF CallInv
  <2>4. CASE ~Accepted(a)
    <3>1. record' = [record EXCEPT ![Current] = first] /\ pc' = "attempting"
            /\ attempt' = attempt + 1
      BY <1>14, <2>4 DEF Answer, first
    <3>2. TellsTheWire(first, w, 0)
      BY <1>2, <1>3, <1>9, <1>11, AnswerIsTold DEF w
    <3>3. /\ record' \in [CallSet -> CallRecords] /\ wire' \in [CallSet -> Seq(Answers)]
          /\ wire'[Current] = w /\ RecordTellsTheWire' /\ NotBegun'
      BY <1>1, <1>2, <1>4, <1>9, <3>1, <3>2, OnlyCurrent
    <3>4. AuditsAreOwned' /\ DiskOK'
      BY <1>12, <2>2, <3>1, AuditsKept DEF CallInv
    <3>5. TypeOK'
      BY <1>1, <1>2, <1>3, <1>8, <3>1, <3>3, <3>4, LlmAssumption DEF CallInv, TypeOK, DiskOK
    <3>6. \A i \in 1 .. Len(w) : w[i] \notin Good
      BY <1>2, <1>3, <1>4, <2>4, AppendProperties DEF w, Accepted
    <3>7. LoopFollowsTheWire'
      BY <1>1, <1>2, <1>3, <1>4, <3>1, <3>3, <3>6, CallsAre
         DEF CallInv, LoopFollowsTheWire, Current
    <3> QED
      BY <3>3, <3>4, <3>5, <3>7 DEF CallInv
  <2> QED
    BY <2>3, <2>4
<1> QED
  BY <1>13, <1>14

-----------------------------------------------------------------------------
(***************************************************************************)
(* The theorems.                                                           *)
(***************************************************************************)

LEMMA CallInit == Init => CallInv
<1> SUFFICES ASSUME Init PROVE CallInv
  OBVIOUS
<1>1. /\ \A c \in CallSet : record[c] = NoRecord /\ wire[c] = << >> /\ Unanswered(c) = 0
      /\ pc = "ready" /\ turn = 1 /\ attempt = 1 /\ elapsed = 0
  BY DEF Init, Unanswered
<1>2. DiskOK /\ \A d \in Dirs : DOMAIN disk[d] = {}
  BY DEF Init, DiskOK
<1>3. TypeOK
  <2>1. record \in [CallSet -> CallRecords] /\ wire \in [CallSet -> Seq(Answers)]
    BY NothingToTell DEF Init
  <2> QED
    BY <1>1, <1>2, <2>1, CallsAre, LlmAssumption DEF TypeOK, DiskOK
<1>4. LoopFollowsTheWire
  BY <1>1, CallsAre DEF LoopFollowsTheWire
<1>5. NotBegun
  BY <1>1 DEF NotBegun, CallSet
<1>6. RecordTellsTheWire
  BY <1>1, NothingToTell DEF RecordTellsTheWire
<1>7. AuditsAreOwned
  BY <1>1, <1>2, DirPhaseType DEF AuditsAreOwned, InputAudits, Requested
<1> QED
  BY <1>3, <1>4, <1>5, <1>6, <1>7 DEF CallInv

LEMMA CallStep == CallInv /\ [Next]_vars => CallInv'
<1> SUFFICES ASSUME CallInv, [Next]_vars PROVE CallInv'
  OBVIOUS
<1>1. CASE UNCHANGED vars
  BY <1>1 DEF vars, CallInv, TypeOK, LoopFollowsTheWire, NotBegun, RecordTellsTheWire,
     AuditsAreOwned, Current, MayAttempt, Unanswered, InProgress, Requested, InputAudits
<1>2. CASE Next
  BY <1>2, NoCallKeeps, RefuseEnvelopeKeeps, BeginKeeps, PostKeeps, GiveUpKeeps,
     AcceptKeeps, RejectKeeps, AnswerKeeps DEF Next
<1> QED
  BY <1>1, <1>2

THEOREM CallInvariant == Spec => []CallInv
<1> QED
  BY CallInit, CallStep, PTL DEF Spec

(* Every variable stays in its domain.                                      *)
THEOREM CallTypes == Spec => []TypeOK
<1>1. CallInv => TypeOK
  BY DEF CallInv
<1> QED
  BY <1>1, CallInvariant, PTL

(* Whatever the answers, their order and how long they take, the record of  *)
(* a call tells what complete_json sent and received for that very call:    *)
(* ok only for an accepted last answer, one attempt per request, none after *)
(* an accepted answer, the first attempt judged by the first answer.        *)
THEOREM RecordsAreTrue == Spec => []RecordTellsTheWire
<1>1. CallInv => RecordTellsTheWire
  BY DEF CallInv
<1> QED
  BY <1>1, CallInvariant, PTL

(* validate_control_audits accepts the comparison of the arms B and C       *)
(* exactly when both requests were sent and C carried the evidence there    *)
(* was, although it reads only the files of two shared directories.         *)
THEOREM ControlProof == Spec => []ControlProofIsSound
<1>1. CallInv => ControlProofIsSound
  <2> SUFFICES ASSUME CallInv, pc = "over", NEW bundle \in Bundles
               PROVE  ControlAuditsValid(bundle) <=>
                        /\ wire["final"] # << >> /\ wire["control_b"] # << >>
                        /\ bundle.external => bundle.sent
    BY DEF ControlProofIsSound
  <2> DEFINE b == InputAudits("responses_control_b", "final")
             c == InputAudits("responses", "final")
  <2>1. /\ "final" \in CallSet /\ Dir("final") = "responses" /\ Phase("final") = "final"
        /\ "control_b" \in CallSet /\ Dir("control_b") = "responses_control_b"
        /\ Phase("control_b") = "final"
    BY CallsAre DEF Dir, Phase
  <2>2. /\ b # {} <=> wire["control_b"] # << >>
        /\ c # {} <=> wire["final"] # << >>
    BY <2>1 DEF CallInv, AuditsAreOwned, Requested
  <2>3. /\ \A f \in b : disk["responses_control_b"][f] = "control_b"
        /\ \A f \in c : disk["responses"][f] = "final"
    BY <2>1 DEF CallInv, AuditsAreOwned
  <2>4. ControlAuditsValid(bundle) <=>
          /\ b # {} /\ c # {}
          /\ \A f \in b : ~ExternalSent(disk["responses_control_b"][f], bundle)
          /\ bundle.external => \A f \in c : ExternalSent(disk["responses"][f], bundle)
    BY DEF ControlAuditsValid
  <2> HIDE DEF b, c
  <2> QED
    BY <2>2, <2>3, <2>4 DEF ExternalSent
<1> QED
  BY <1>1, CallInvariant, PTL
=============================================================================
