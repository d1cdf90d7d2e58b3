------------------------- MODULE ConfigContentProofs -------------------------
(* Proofs about ConfigContent, for any application groups, address ranges,  *)
(* documents and lists of custom rules: however imports, settings, edits    *)
(* and switches alternate, custom rules come first (CustomRulesComeFirst),  *)
(* what this program refers to is in the file (EveryTagResolves), and groups *)
(* offer the nodes (EveryGroupOffersTheNodes).                              *)
EXTENDS ConfigContent, SequenceTheorems, FiniteSetTheorems, WellFoundedInduction, TLAPS

----------------------------------------------------------------------------
(* Induction, and what the operators on sequences return.                   *)

\* A non-empty set of natural numbers has a least element.
LEMMA HasLeast ==
  ASSUME NEW S \in SUBSET Nat, S # {}
  PROVE  \E x \in S : \A y \in S : x <= y
<1> DEFINE Less == {ss \in Nat \X Nat : ss[1] < ss[2]}
<1>1. IsWellFoundedOn(Less, Nat)
  <2>1. OpToRel(<, Nat) = Less
    BY DEF OpToRel
  <2> QED
    BY <2>1, NatLessThanWellFounded
<1>2. PICK x \in S : \A y \in S : ~(<<y, x>> \in Less)
  <2> HIDE DEF Less
  <2> QED BY <1>1, WFMin
<1>3. ASSUME NEW y \in S PROVE x <= y
  <2>1. <<y, x>> \in Nat \X Nat /\ <<y, x>>[1] = y /\ <<y, x>>[2] = x
    OBVIOUS
  <2> QED
    BY <1>2, <2>1
<1> QED
  BY <1>3

\* Induction up to a bound, over the set of the numbers for which a fact holds.
LEMMA Induction ==
  ASSUME NEW b \in Nat, NEW G, 0 \in G, \A n \in 0 .. (b - 1) : n \in G => n + 1 \in G
  PROVE  \A n \in 0 .. b : n \in G
<1> SUFFICES ASSUME {n \in 0 .. b : n \notin G} # {} PROVE FALSE
  OBVIOUS
<1>1. PICK x \in {n \in 0 .. b : n \notin G} : \A y \in {n \in 0 .. b : n \notin G} : x <= y
  <2>1. {n \in 0 .. b : n \notin G} \in SUBSET Nat
    OBVIOUS
  <2> QED BY <2>1, HasLeast
<1>2. x # 0 /\ x \in 0 .. b /\ x \notin G
  BY <1>1
<1>3. x - 1 \in 0 .. (b - 1) /\ x - 1 \in G
  BY <1>1, <1>2
<1> QED
  BY <1>2, <1>3

\* A function over 0 .. b may be defined by a first value and a step.
LEMMA Recursion ==
  ASSUME NEW V, NEW first \in V, NEW b \in Nat, NEW step \in [1 .. b -> [V -> V]]
  PROVE  \E f \in [0 .. b -> V] :
           f[0] = first /\ \A n \in 1 .. b : f[n] = step[n][f[n - 1]]
<1> DEFINE Upto(m, f) == /\ f \in [0 .. m -> V] /\ f[0] = first
                         /\ \A n \in 1 .. m : f[n] = step[n][f[n - 1]]
           G == {m \in 0 .. b : \E f : Upto(m, f)}
<1>1. 0 \in G
  <2> DEFINE g == [n \in 0 .. 0 |-> first]
  <2>1. g \in [0 .. 0 -> V]
    OBVIOUS
  <2>2. g[0] = first /\ \A n \in 1 .. 0 : g[n] = step[n][g[n - 1]]
    OBVIOUS
  <2> HIDE DEF g
  <2>3. Upto(0, g) /\ 0 \in 0 .. b
    BY <2>1, <2>2
  <2> HIDE DEF Upto
  <2> QED BY <2>3
<1>2. ASSUME NEW m \in 0 .. (b - 1), NEW f, Upto(m, f) PROVE m + 1 \in G
  <2> DEFINE g == [n \in 0 .. (m + 1) |-> IF n = m + 1 THEN step[m + 1][f[m]] ELSE f[n]]
  <2>0. m \in Nat /\ m + 1 \in 1 .. b /\ m + 1 \in 0 .. b /\ m \in 0 .. m
    OBVIOUS
  <2>1. f \in [0 .. m -> V] /\ f[0] = first /\ \A n \in 1 .. m : f[n] = step[n][f[n - 1]]
    BY <1>2
  <2>2. step[m + 1][f[m]] \in V
    BY <2>0, <2>1
  <2>3. g \in [0 .. (m + 1) -> V]
    <3>1. \A n \in 0 .. (m + 1) : n # m + 1 => n \in 0 .. m
      BY <2>0
    <3>2. \A n \in 0 .. (m + 1) : (IF n = m + 1 THEN step[m + 1][f[m]] ELSE f[n]) \in V
      BY <2>1, <2>2, <3>1
    <3> QED BY <3>2
  <2>4. g[0] = first
    BY <2>0, <2>1
  <2>5. ASSUME NEW n \in 1 .. (m + 1) PROVE g[n] = step[n][g[n - 1]]
    <3>1. g[n - 1] = f[n - 1]
      BY <2>0
    <3>2. CASE n = m + 1
      BY <3>1, <3>2, <2>0
    <3>3. CASE n # m + 1
      <4>1. n \in 1 .. m /\ g[n] = f[n]
        BY <3>3, <2>0
      <4> QED BY <4>1, <3>1, <2>1
    <3> QED BY <3>2, <3>3
  <2> HIDE DEF g
  <2>6. Upto(m + 1, g)
    BY <2>3, <2>4, <2>5
  <2> HIDE DEF Upto
  <2> QED BY <2>0, <2>6
<1>3. \A m \in 0 .. b : m \in G
  <2>1. ASSUME NEW m \in 0 .. (b - 1), m \in G PROVE m + 1 \in G
    <3> HIDE DEF Upto
    <3>1. PICK f : Upto(m, f)
      BY <2>1
    <3> HIDE DEF G
    <3> QED BY <3>1, <1>2
  <2> HIDE DEF G
  <2>2. \A m \in 0 .. (b - 1) : m \in G => m + 1 \in G
    BY <2>1
  <2> QED BY <1>1, <2>2, Induction
<1>4. b \in 0 .. b
  OBVIOUS
<1>5. PICK f : Upto(b, f)
  <2> HIDE DEF Upto
  <2> QED BY <1>3, <1>4
<1> QED
  BY <1>5

\* f[n] is what Only keeps of the first n elements.
Runs(f, S, s, P) ==
    /\ f \in [0 .. Len(s) -> Seq(S)]
    /\ Only(s, P) = f[Len(s)]
    /\ f[0] = <<>>
    /\ \A n \in 1 .. Len(s) : f[n] = IF n \in P THEN Append(f[n - 1], s[n]) ELSE f[n - 1]

\* The steps of Only.
LEMMA OnlySteps ==
  ASSUME NEW S, NEW s \in Seq(S), NEW P
  PROVE  \E f : Runs(f, S, s, P)
<1> DEFINE step == [n \in 1 .. Len(s) |-> [v \in Seq(S) |->
                                               IF n \in P THEN Append(v, s[n]) ELSE v]]
           Next1(f, n) == IF n = 0 THEN <<>>
                          ELSE IF n \in P THEN Append(f[n - 1], s[n]) ELSE f[n - 1]
           Is(f) == f = [n \in 0 .. Len(s) |-> Next1(f, n)]
           g == CHOOSE f : Is(f)
<1>0. Len(s) \in Nat /\ <<>> \in Seq(S)
  OBVIOUS
<1>1. step \in [1 .. Len(s) -> [Seq(S) -> Seq(S)]]
  <2>1. ASSUME NEW n \in 1 .. Len(s), NEW v \in Seq(S)
        PROVE  (IF n \in P THEN Append(v, s[n]) ELSE v) \in Seq(S)
    <3>1. s[n] \in S
      OBVIOUS
    <3> QED BY <3>1
  <2> QED BY <2>1
<1>2. PICK f \in [0 .. Len(s) -> Seq(S)] :
             f[0] = <<>> /\ \A n \in 1 .. Len(s) : f[n] = step[n][f[n - 1]]
  <2> DEFINE V == Seq(S)
             L == Len(s)
             first == <<>>
  <2> HIDE DEF step, V, L, first
  <2>1. L \in Nat /\ first \in V /\ step \in [1 .. L -> [V -> V]]
    BY <1>0, <1>1 DEF V, L, first
  <2>2. \E f \in [0 .. L -> V] : f[0] = first /\ \A n \in 1 .. L : f[n] = step[n][f[n - 1]]
    BY <2>1, Recursion
  <2> QED BY <2>2 DEF V, L, first
<1>3. ASSUME NEW n \in 1 .. Len(s)
      PROVE  f[n] = IF n \in P THEN Append(f[n - 1], s[n]) ELSE f[n - 1]
  <2>1. f[n - 1] \in Seq(S)
    BY <1>0
  <2> QED BY <1>2, <2>1
<1>4. Is(f)
  <2>1. ASSUME NEW n \in 0 .. Len(s) PROVE f[n] = Next1(f, n)
    <3>1. CASE n = 0
      BY <1>2, <3>1
    <3>2. CASE n # 0
      <4>1. n \in 1 .. Len(s)
        BY <1>0, <3>2
      <4> QED BY <4>1, <3>2, <1>3
    <3> QED BY <3>1, <3>2
  <2> HIDE DEF Next1
  <2> QED BY <2>1
<1>5. Is(g)
  <2> HIDE DEF Is
  <2> QED BY <1>4
<1>6. Only(s, P) = g[Len(s)]
  BY DEF Only
<1> HIDE DEF g
<1>7. DOMAIN g = 0 .. Len(s) /\ \A n \in 0 .. Len(s) : g[n] = Next1(g, n)
  <2> HIDE DEF Next1
  <2> QED BY <1>5
<1>8. /\ g[0] = <<>>
      /\ \A n \in 1 .. Len(s) : g[n] = IF n \in P THEN Append(g[n - 1], s[n]) ELSE g[n - 1]
  <2>1. 0 \in 0 .. Len(s) /\ \A n \in 1 .. Len(s) : n \in 0 .. Len(s) /\ n # 0
    BY <1>0
  <2>2. g[0] = <<>>
    BY <2>1, <1>7
  <2>3. \A n \in 1 .. Len(s) : g[n] = IF n \in P THEN Append(g[n - 1], s[n]) ELSE g[n - 1]
    BY <2>1, <1>7
  <2> QED BY <2>2, <2>3
<1>9. \A n \in 0 .. Len(s) : g[n] \in Seq(S)
  <2> DEFINE G == {n \in 0 .. Len(s) : g[n] \in Seq(S)}
  <2>1. 0 \in G
    <3>1. 0 \in 0 .. Len(s) /\ g[0] \in Seq(S)
      BY <1>0, <1>8
    <3> QED BY <3>1
  <2>2. ASSUME NEW n \in 0 .. (Len(s) - 1), n \in G PROVE n + 1 \in G
    <3>1. n + 1 \in 1 .. Len(s) /\ (n + 1) - 1 = n /\ s[n + 1] \in S /\ g[n] \in Seq(S)
      BY <1>0, <2>2
    <3>2. g[n + 1] = IF n + 1 \in P THEN Append(g[n], s[n + 1]) ELSE g[n]
      BY <3>1, <1>8
    <3>3. g[n + 1] \in Seq(S)
      BY <3>1, <3>2
    <3>4. n + 1 \in 0 .. Len(s)
      BY <1>0
    <3> QED BY <3>3, <3>4
  <2> HIDE DEF G
  <2>3. \A n \in 0 .. (Len(s) - 1) : n \in G => n + 1 \in G
    BY <2>2
  <2>4. \A n \in 0 .. Len(s) : n \in G
    BY <1>0, <2>1, <2>3, Induction
  <2> QED BY <2>4 DEF G
<1>10. g \in [0 .. Len(s) -> Seq(S)]
  <2>1. g = [n \in 0 .. Len(s) |-> g[n]]
    <3> HIDE DEF Next1
    <3> QED BY <1>5
  <2> QED BY <2>1, <1>9
<1>11. Runs(g, S, s, P)
  BY <1>6, <1>8, <1>10 DEF Runs
<1> QED
  BY <1>11

\* Only keeps the elements at the positions P, in their order.
LEMMA OnlyKeeps ==
  ASSUME NEW S, NEW s \in Seq(S), NEW P
  PROVE  /\ Only(s, P) \in Seq(S)
         /\ \E g \in [1 .. Len(Only(s, P)) -> 1 .. Len(s)] :
              /\ \A i \in 1 .. Len(Only(s, P)) : Only(s, P)[i] = s[g[i]] /\ g[i] \in P
              /\ \A i, j \in 1 .. Len(Only(s, P)) : i < j => g[i] < g[j]
              /\ \A k \in 1 .. Len(s) :
                   k \in P => \E i \in 1 .. Len(Only(s, P)) : g[i] = k
<1>1. PICK f : Runs(f, S, s, P)
  BY OnlySteps
<1>0. Len(s) \in Nat /\ 0 \in 0 .. Len(s)
  OBVIOUS
<1> DEFINE Maps(g, n) ==
             /\ g \in [1 .. Len(f[n]) -> 1 .. n]
             /\ \A i \in 1 .. Len(f[n]) : f[n][i] = s[g[i]] /\ g[i] \in P
             /\ \A i, j \in 1 .. Len(f[n]) : i < j => g[i] < g[j]
             /\ \A k \in 1 .. n : k \in P => \E i \in 1 .. Len(f[n]) : g[i] = k
           G == {n \in 0 .. Len(s) : \E g : Maps(g, n)}
<1>2. 0 \in G
  <2>1. Len(f[0]) = 0
    BY <1>1 DEF Runs
  <2> DEFINE g == [i \in 1 .. 0 |-> 0]
  <2>2. g \in [1 .. 0 -> 1 .. 0]
    OBVIOUS
  <2> HIDE DEF g
  <2>3. Maps(g, 0)
    BY <2>1, <2>2
  <2> HIDE DEF Maps
  <2> QED BY <1>0, <2>3
<1>3. ASSUME NEW n \in 0 .. (Len(s) - 1), NEW g, Maps(g, n) PROVE n + 1 \in G
  <2> DEFINE m == n + 1
  <2>1. /\ m \in 1 .. Len(s) /\ m - 1 = n /\ s[m] \in S /\ m \in 0 .. Len(s) /\ n \in 0 .. Len(s)
        /\ n \in Nat /\ m \in Nat /\ f[n] \in Seq(S)
    BY <1>0, <1>1 DEF Runs
  <2>2. /\ g \in [1 .. Len(f[n]) -> 1 .. n]
        /\ \A i \in 1 .. Len(f[n]) : f[n][i] = s[g[i]] /\ g[i] \in P
        /\ \A i, j \in 1 .. Len(f[n]) : i < j => g[i] < g[j]
        /\ \A k \in 1 .. n : k \in P => \E i \in 1 .. Len(f[n]) : g[i] = k
    BY <1>3
  <2>3. \A k \in 1 .. m : k # m => k \in 1 .. n
    BY <2>1
  <2>4. CASE m \notin P
    <3>1. f[m] = f[n]
      BY <1>1, <2>1, <2>4 DEF Runs
    <3>2. g \in [1 .. Len(f[n]) -> 1 .. m]
      BY <2>1, <2>2
    <3> HIDE DEF m
    <3>3. Maps(g, m)
      BY <2>2, <2>3, <2>4, <3>1, <3>2
    <3> HIDE DEF Maps
    <3> QED BY <2>1, <3>3 DEF m
  <2>5. CASE m \in P
    <3> DEFINE L == Len(f[n])
               h == [i \in 1 .. (L + 1) |-> IF i = L + 1 THEN m ELSE g[i]]
    <3>1. f[m] = Append(f[n], s[m])
      BY <1>1, <2>1, <2>5 DEF Runs
    <3>2. /\ L \in Nat /\ Len(f[m]) = L + 1 /\ f[m][L + 1] = s[m]
          /\ \A i \in 1 .. L : f[m][i] = f[n][i]
      BY <2>1, <3>1, AppendProperties
    <3>3. \A i \in 1 .. (L + 1) : i # L + 1 => i \in 1 .. L
      BY <3>2
    <3>4. \A i \in 1 .. L : g[i] \in 1 .. n
      BY <2>2
    <3>5. h \in [1 .. (L + 1) -> 1 .. m]
      <4>1. \A i \in 1 .. (L + 1) : (IF i = L + 1 THEN m ELSE g[i]) \in 1 .. m
        BY <2>1, <3>2, <3>3, <3>4
      <4> QED BY <4>1
    <3>6. /\ h[L + 1] = m
          /\ \A i \in 1 .. L : h[i] = g[i]
      BY <3>2
    <3> HIDE DEF h, m, L
    <3>7. \A i \in 1 .. (L + 1) : f[m][i] = s[h[i]] /\ h[i] \in P
      BY <2>2, <2>5, <3>2, <3>3, <3>6 DEF L
    <3>8. ASSUME NEW i \in 1 .. (L + 1), NEW j \in 1 .. (L + 1), i < j PROVE h[i] < h[j]
      <4>1. i \in 1 .. L
        BY <3>2, <3>8
      <4>2. CASE j = L + 1
        <5>1. h[i] \in 1 .. n /\ h[j] = m
          BY <4>1, <4>2, <3>4, <3>6
        <5> QED BY <5>1, <2>1
      <4>3. CASE j # L + 1
        <5>1. j \in 1 .. L
          BY <4>3, <3>3
        <5> QED BY <5>1, <4>1, <3>6, <3>8, <2>2 DEF L
      <4> QED BY <4>2, <4>3
    <3>9. ASSUME NEW k \in 1 .. m, k \in P PROVE \E i \in 1 .. (L + 1) : h[i] = k
      <4>1. CASE k = m
        <5>1. L + 1 \in 1 .. (L + 1)
          BY <3>2
        <5> QED BY <5>1, <3>6, <4>1
      <4>2. CASE k # m
        <5>1. PICK i \in 1 .. L : g[i] = k
          BY <2>2, <2>3, <3>9, <4>2 DEF L
        <5>2. i \in 1 .. (L + 1)
          BY <3>2
        <5> QED BY <5>1, <5>2, <3>6
      <4> QED BY <4>1, <4>2
    <3>10. Maps(h, m)
      BY <3>2, <3>5, <3>7, <3>8, <3>9
    <3> HIDE DEF Maps
    <3> QED BY <2>1, <3>10 DEF m
  <2> QED BY <2>4, <2>5
<1>4. \A n \in 0 .. Len(s) : n \in G
  <2>1. ASSUME NEW n \in 0 .. (Len(s) - 1), n \in G PROVE n + 1 \in G
    <3> HIDE DEF Maps
    <3>1. PICK g : Maps(g, n)
      BY <2>1
    <3> HIDE DEF G
    <3> QED BY <3>1, <1>3
  <2> HIDE DEF G
  <2>2. \A n \in 0 .. (Len(s) - 1) : n \in G => n + 1 \in G
    BY <2>1
  <2> QED BY <1>0, <1>2, <2>2, Induction
<1>5. PICK g : Maps(g, Len(s))
  <2>1. Len(s) \in 0 .. Len(s)
    BY <1>0
  <2> HIDE DEF Maps
  <2> QED BY <1>4, <2>1
<1>6. f[Len(s)] \in Seq(S)
  BY <1>0, <1>1 DEF Runs
<1> QED
  BY <1>1, <1>5, <1>6 DEF Runs

\* Appending to a concatenation.
LEMMA AppendConcat ==
  ASSUME NEW S, NEW a \in Seq(S), NEW b \in Seq(S), NEW e \in S
  PROVE  Append(a \o b, e) = a \o (b \o <<e>>)
<1>1. a \o b \in Seq(S) /\ <<e>> \in Seq(S)
  OBVIOUS
<1>2. Append(a \o b, e) = (a \o b) \o <<e>>
  BY <1>1, AppendIsConcat
<1>3. (a \o b) \o <<e>> = a \o (b \o <<e>>)
  <2> DEFINE u == <<e>>
  <2>1. u \in Seq(S)
    BY <1>1
  <2> HIDE DEF u
  <2>2. (a \o b) \o u = a \o (b \o u)
    BY <2>1, ConcatAssociative
  <2> QED BY <2>2 DEF u
<1> QED
  BY <1>2, <1>3

\* The positions of b in a \o b are in P.
Covers(P, a, b) == \A n \in 1 .. Len(b) : Len(a) + n \in P

\* What comes after a prefix is kept if all its positions are.
LEMMA OnlyConcat ==
  ASSUME NEW S, NEW a \in Seq(S), NEW b \in Seq(S), NEW P, Covers(P, a, b)
  PROVE  Only(a \o b, P) = Only(a, P) \o b
<1> DEFINE s == a \o b
<1>0. /\ s \in Seq(S) /\ Len(s) = Len(a) + Len(b) /\ Len(a) \in Nat /\ Len(b) \in Nat
      /\ \A i \in 1 .. Len(a) : s[i] = a[i]
      /\ \A i \in 1 .. Len(b) : s[Len(a) + i] = b[i]
  OBVIOUS
<1> HIDE DEF s
<1>1. PICK f : Runs(f, S, s, P)
  BY <1>0, OnlySteps
<1>2. PICK h : Runs(h, S, a, P)
  BY OnlySteps
<1>3. f[Len(a)] = h[Len(a)]
  <2> DEFINE G == {n \in 0 .. Len(a) : f[n] = h[n]}
  <2>1. 0 \in G
    BY <1>0, <1>1, <1>2 DEF Runs
  <2>2. ASSUME NEW n \in 0 .. (Len(a) - 1), n \in G PROVE n + 1 \in G
    <3>1. /\ n + 1 \in 1 .. Len(a) /\ n + 1 \in 1 .. Len(s) /\ (n + 1) - 1 = n
          /\ n + 1 \in 0 .. Len(a) /\ f[n] = h[n] /\ s[n + 1] = a[n + 1]
      BY <1>0, <2>2
    <3>2. f[n + 1] = IF n + 1 \in P THEN Append(f[n], s[n + 1]) ELSE f[n]
      BY <1>1, <3>1 DEF Runs
    <3>3. h[n + 1] = IF n + 1 \in P THEN Append(h[n], a[n + 1]) ELSE h[n]
      BY <1>2, <3>1 DEF Runs
    <3>4. f[n + 1] = h[n + 1]
      BY <3>1, <3>2, <3>3
    <3> QED BY <3>1, <3>4
  <2> HIDE DEF G
  <2>3. \A n \in 0 .. (Len(a) - 1) : n \in G => n + 1 \in G
    BY <2>2
  <2>4. Len(a) \in G
    <3>1. Len(a) \in Nat /\ Len(a) \in 0 .. Len(a)
      BY <1>0
    <3>2. \A n \in 0 .. Len(a) : n \in G
      BY <3>1, <2>1, <2>3, Induction
    <3> QED BY <3>1, <3>2
  <2> QED BY <2>4 DEF G
<1> DEFINE o == Only(a, P)
<1>4. o \in Seq(S)
  <2>1. Len(a) \in 0 .. Len(a)
    BY <1>0
  <2> QED BY <1>2, <2>1 DEF Runs
<1>5. o = f[Len(a)]
  BY <1>2, <1>3 DEF Runs
<1> HIDE DEF o
<1>6. f[Len(s)] = o \o SubSeq(b, 1, Len(b))
  <2> DEFINE G == {n \in 0 .. Len(b) : f[Len(a) + n] = o \o SubSeq(b, 1, n)}
  <2>1. 0 \in G
    <3>1. SubSeq(b, 1, 0) = <<>>
      BY SubSeqEmpty
    <3>2. o \o <<>> = o
      BY <1>4, ConcatEmptySeq
    <3>3. Len(a) + 0 = Len(a) /\ 0 \in 0 .. Len(b)
      BY <1>0
    <3>4. f[Len(a) + 0] = o \o SubSeq(b, 1, 0)
      BY <1>5, <3>1, <3>2, <3>3
    <3> QED BY <3>3, <3>4
  <2> HIDE DEF G
  <2>2. ASSUME NEW n \in 0 .. (Len(b) - 1), n \in G PROVE n + 1 \in G
    <3> DEFINE m == n + 1
    <3>0. /\ m \in 1 .. Len(b) /\ Len(a) + m \in 1 .. Len(s) /\ (Len(a) + m) - 1 = Len(a) + n
          /\ m \in 0 .. Len(b) /\ m - 1 = n /\ 1 \in 1 .. Len(b)
      BY <1>0
    <3>1. b[m] \in S
      BY <3>0, ElementOfSeq
    <3>2. s[Len(a) + m] = b[m] /\ Len(a) + m \in P
      BY <1>0, <3>0 DEF Covers
    <3>3. f[Len(a) + m] = Append(f[Len(a) + n], b[m])
      BY <1>1, <3>0, <3>1, <3>2 DEF Runs
    <3>4. f[Len(a) + n] = o \o SubSeq(b, 1, n)
      BY <2>2 DEF G
    <3>5. SubSeq(b, 1, n) \in Seq(S)
      BY <1>0
    <3>6. SubSeq(b, 1, m) = SubSeq(b, 1, n) \o <<b[m]>>
      <4>1. m \in 1 .. Len(b) /\ 1 \in 1 .. Len(b) /\ m - 1 = n
        BY <3>0
      <4> HIDE DEF m
      <4> QED BY <4>1, SubSeqRecursiveSecond
    <3> DEFINE t == SubSeq(b, 1, n)
    <3> HIDE DEF t, m
    <3>7. Append(o \o t, b[m]) = o \o (t \o <<b[m]>>)
      <4>1. t \in Seq(S) /\ b[m] \in S
        BY <3>0, <3>1, <3>5 DEF t
      <4> QED BY <1>4, <4>1, AppendConcat
    <3>9. f[Len(a) + m] = o \o SubSeq(b, 1, m)
      BY <3>3, <3>4, <3>6, <3>7 DEF t
    <3>10. m \in G
      BY <3>0, <3>1, <3>9 DEF G
    <3> QED BY <3>10 DEF m
  <2>3. \A n \in 0 .. (Len(b) - 1) : n \in G => n + 1 \in G
    BY <2>2
  <2>4. Len(b) \in G
    <3>1. Len(b) \in Nat /\ Len(b) \in 0 .. Len(b)
      BY <1>0
    <3>2. \A n \in 0 .. Len(b) : n \in G
      BY <3>1, <2>1, <2>3, Induction
    <3> QED BY <3>1, <3>2
  <2> QED BY <1>0, <2>4 DEF G
<1>7. SubSeq(b, 1, Len(b)) = b
  BY SubSeqFull
<1> QED
  BY <1>1, <1>6, <1>7 DEF o, s, Runs

\* SelectInSeq gives the first of the positions I, or 0.
LEMMA FirstPosition ==
  ASSUME NEW n \in Nat, NEW I \in SUBSET (1 .. n), NEW p, p = IF I # {} THEN Min(I) ELSE 0
  PROVE  /\ p \in 0 .. n
         /\ p = 0 <=> I = {}
         /\ p # 0 => p \in I /\ \A i \in I : p <= i
<1>1. CASE I = {}
  BY <1>1
<1>2. CASE I # {}
  <2>1. \E x \in I : \A y \in I : x <= y
    BY <1>2, HasLeast
  <2>2. Min(I) \in I /\ \A y \in I : Min(I) <= y
    BY <2>1 DEF Min
  <2>3. p = Min(I)
    BY <1>2
  <2>4. p \in 1 .. n
    BY <2>2, <2>3
  <2> QED BY <1>2, <2>2, <2>3, <2>4
<1> QED
  BY <1>1, <1>2

\* What SubSeq gives before a position, and from a position on.
LEMMA Before ==
  ASSUME NEW S, NEW s \in Seq(S), NEW p \in 1 .. (Len(s) + 1)
  PROVE  /\ SubSeq(s, 1, p - 1) \in Seq(S) /\ Len(SubSeq(s, 1, p - 1)) = p - 1
         /\ \A i \in 1 .. (p - 1) : SubSeq(s, 1, p - 1)[i] = s[i]
<1> DEFINE a == SubSeq(s, 1, p - 1)
<1>1. Len(s) \in Nat /\ p \in Nat /\ 1 \in Int /\ p - 1 \in Int /\ \A i \in 1 .. Len(s) : s[i] \in S
  BY ElementOfSeq
<1>2. \A i \in 1 .. (p - 1) : s[i] \in S
  BY <1>1
<1>3. /\ a \in Seq(S) /\ Len(a) = (IF 1 <= p - 1 THEN (p - 1) - 1 + 1 ELSE 0)
      /\ \A i \in 1 .. ((p - 1) - 1 + 1) : a[i] = s[1 + i - 1]
  BY <1>1, <1>2, SubSeqProperties
<1>4. /\ (p - 1) - 1 + 1 = p - 1 /\ (~(1 <= p - 1) => p - 1 = 0)
      /\ \A i \in 1 .. (p - 1) : 1 + i - 1 = i
  BY <1>1
<1> HIDE DEF a
<1>5. Len(a) = p - 1
  BY <1>3, <1>4
<1>6. \A i \in 1 .. (p - 1) : a[i] = s[i]
  BY <1>3, <1>4
<1> QED
  BY <1>3, <1>5, <1>6 DEF a

LEMMA From ==
  ASSUME NEW S, NEW s \in Seq(S), NEW p \in 1 .. (Len(s) + 1)
  PROVE  /\ SubSeq(s, p, Len(s)) \in Seq(S) /\ Len(SubSeq(s, p, Len(s))) = Len(s) - p + 1
         /\ \A i \in 1 .. (Len(s) - p + 1) : SubSeq(s, p, Len(s))[i] = s[p + i - 1]
<1> DEFINE b == SubSeq(s, p, Len(s))
<1>1. Len(s) \in Nat /\ p \in Nat /\ \A i \in 1 .. Len(s) : s[i] \in S
  BY ElementOfSeq
<1>2. \A i \in p .. Len(s) : s[i] \in S
  BY <1>1
<1>3. /\ b \in Seq(S) /\ Len(b) = (IF p <= Len(s) THEN Len(s) - p + 1 ELSE 0)
      /\ \A i \in 1 .. (Len(s) - p + 1) : b[i] = s[p + i - 1]
  BY <1>1, <1>2, SubSeqProperties
<1>4. ~(p <= Len(s)) => Len(s) - p + 1 = 0
  BY <1>1
<1> HIDE DEF b
<1> QED
  BY <1>3, <1>4 DEF b

\* InsertAt, element by element.
LEMMA Inserted ==
  ASSUME NEW S, NEW s \in Seq(S), NEW p \in 1 .. (Len(s) + 1), NEW e \in S
  PROVE  /\ InsertAt(s, p, e) \in Seq(S)
         /\ Len(InsertAt(s, p, e)) = Len(s) + 1
         /\ \A i \in 1 .. (Len(s) + 1) :
              InsertAt(s, p, e)[i] = IF i < p THEN s[i] ELSE IF i = p THEN e ELSE s[i - 1]
<1> DEFINE a == SubSeq(s, 1, p - 1)
           b == SubSeq(s, p, Len(s))
           u == <<e>>
<1>1. Len(s) \in Nat /\ p \in Nat
  OBVIOUS
<1>2. a \in Seq(S) /\ Len(a) = p - 1 /\ \A i \in 1 .. (p - 1) : a[i] = s[i]
  BY Before
<1>3. /\ b \in Seq(S) /\ Len(b) = Len(s) - p + 1
      /\ \A i \in 1 .. (Len(s) - p + 1) : b[i] = s[p + i - 1]
  BY From
<1>4. u \in Seq(S) /\ Len(u) = 1 /\ u[1] = e
  OBVIOUS
<1> DEFINE o == a \o u
           t == o \o b
<1>5. InsertAt(s, p, e) = t
  BY DEF InsertAt
<1> HIDE DEF a, b, u
<1>6. /\ o \in Seq(S) /\ Len(o) = p
      /\ \A i \in 1 .. p : o[i] = IF i < p THEN s[i] ELSE e
  <2>1. /\ o \in Seq(S) /\ Len(o) = Len(a) + Len(u)
        /\ \A i \in 1 .. (Len(a) + Len(u)) : o[i] = IF i <= Len(a) THEN a[i] ELSE u[i - Len(a)]
    BY <1>2, <1>4, ConcatProperties
  <2> HIDE DEF o
  <2>2. Len(o) = p
    BY <1>1, <1>2, <1>4, <2>1
  <2>3. ASSUME NEW i \in 1 .. p PROVE o[i] = IF i < p THEN s[i] ELSE e
    <3>1. o[i] = IF i <= p - 1 THEN a[i] ELSE u[i - (p - 1)]
      BY <1>1, <1>2, <1>4, <2>1
    <3>2. CASE i < p
      BY <1>1, <1>2, <3>1, <3>2
    <3>3. CASE ~(i < p)
      <4>1. i - (p - 1) = 1 /\ ~(i <= p - 1)
        BY <1>1, <3>3
      <4> QED BY <1>4, <3>1, <3>3, <4>1
    <3> QED BY <3>2, <3>3
  <2> QED BY <2>1, <2>2, <2>3
<1> HIDE DEF o
<1>7. /\ t \in Seq(S) /\ Len(t) = Len(o) + Len(b)
      /\ \A i \in 1 .. (Len(o) + Len(b)) : t[i] = IF i <= Len(o) THEN o[i] ELSE b[i - Len(o)]
  BY <1>3, <1>6, ConcatProperties
<1> HIDE DEF t
<1>8. Len(t) = Len(s) + 1 /\ Len(o) + Len(b) = Len(s) + 1
  BY <1>1, <1>3, <1>6, <1>7
<1>9. ASSUME NEW i \in 1 .. (Len(s) + 1)
      PROVE  t[i] = IF i < p THEN s[i] ELSE IF i = p THEN e ELSE s[i - 1]
  <2>1. t[i] = IF i <= p THEN o[i] ELSE b[i - p]
    BY <1>1, <1>6, <1>7, <1>8
  <2>2. CASE i <= p
    <3>1. i \in 1 .. p /\ (~(i < p) => i = p)
      BY <1>1, <2>2
    <3> QED BY <1>6, <2>1, <2>2, <3>1
  <2>3. CASE ~(i <= p)
    <3>1. i - p \in 1 .. (Len(s) - p + 1) /\ p + (i - p) - 1 = i - 1 /\ ~(i < p) /\ i # p
      BY <1>1, <2>3
    <3>2. b[i - p] = s[i - 1]
      BY <1>3, <3>1
    <3> QED BY <2>1, <2>3, <3>1, <3>2
  <2> QED BY <2>2, <2>3
<1> QED
  BY <1>5, <1>7, <1>8, <1>9

\* RemoveAt, element by element.
LEMMA Removed ==
  ASSUME NEW S, NEW s \in Seq(S), NEW p \in 1 .. Len(s)
  PROVE  /\ RemoveAt(s, p) \in Seq(S)
         /\ Len(RemoveAt(s, p)) = Len(s) - 1
         /\ \A i \in 1 .. (Len(s) - 1) : RemoveAt(s, p)[i] = IF i < p THEN s[i] ELSE s[i + 1]
<1> DEFINE a == SubSeq(s, 1, p - 1)
           b == SubSeq(s, p + 1, Len(s))
           t == a \o b
<1>1. Len(s) \in Nat /\ p \in Nat
  OBVIOUS
<1>2. a \in Seq(S) /\ Len(a) = p - 1 /\ \A i \in 1 .. (p - 1) : a[i] = s[i]
  <2>1. p \in 1 .. (Len(s) + 1)
    BY <1>1
  <2> QED BY <2>1, Before
<1>3. b \in Seq(S) /\ Len(b) = Len(s) - p /\ \A i \in 1 .. (Len(s) - p) : b[i] = s[p + i]
  <2>1. p + 1 \in 1 .. (Len(s) + 1)
    BY <1>1
  <2>2. /\ b \in Seq(S) /\ Len(b) = Len(s) - (p + 1) + 1
        /\ \A i \in 1 .. (Len(s) - (p + 1) + 1) : b[i] = s[(p + 1) + i - 1]
    BY <2>1, From
  <2>3. Len(s) - (p + 1) + 1 = Len(s) - p /\ \A i \in 1 .. (Len(s) - p) : (p + 1) + i - 1 = p + i
    BY <1>1
  <2> HIDE DEF b
  <2> QED BY <2>2, <2>3
<1>4. RemoveAt(s, p) = t
  BY DEF RemoveAt
<1> HIDE DEF a, b
<1>5. /\ t \in Seq(S) /\ Len(t) = Len(a) + Len(b)
      /\ \A i \in 1 .. (Len(a) + Len(b)) : t[i] = IF i <= Len(a) THEN a[i] ELSE b[i - Len(a)]
  BY <1>2, <1>3, ConcatProperties
<1> HIDE DEF t
<1>6. Len(t) = Len(s) - 1 /\ Len(a) + Len(b) = Len(s) - 1
  BY <1>1, <1>2, <1>3, <1>5
<1>7. ASSUME NEW i \in 1 .. (Len(s) - 1) PROVE t[i] = IF i < p THEN s[i] ELSE s[i + 1]
  <2>1. t[i] = IF i <= p - 1 THEN a[i] ELSE b[i - (p - 1)]
    BY <1>1, <1>2, <1>5, <1>6
  <2>2. CASE i < p
    <3>1. i \in 1 .. (p - 1) /\ i <= p - 1
      BY <1>1, <2>2
    <3> QED BY <1>2, <2>1, <2>2, <3>1
  <2>3. CASE ~(i < p)
    <3>1. i - (p - 1) \in 1 .. (Len(s) - p) /\ p + (i - (p - 1)) = i + 1 /\ ~(i <= p - 1)
      BY <1>1, <2>3
    <3>2. b[i - (p - 1)] = s[i + 1]
      BY <1>3, <3>1
    <3> QED BY <2>1, <2>3, <3>1, <3>2
  <2> QED BY <2>2, <2>3
<1> QED
  BY <1>4, <1>5, <1>6, <1>7

----------------------------------------------------------------------------
(* The rules of a file: which there are, and their order.                   *)

Chosen == {"manual", "auto"}
Matches == UNION {{list[i].match : i \in DOMAIN list} : list \in RuleLists}

Own(on, sets, to) == [on |-> on, sets |-> sets, to |-> to, user |-> FALSE]
Custom(on, to) == [on |-> on, sets |-> {}, to |-> to, user |-> TRUE]

\* The rules the program writes itself.
BuiltInRules(G) ==
    {Sniff, Hijack, Ads, On("mode-direct", "direct"), On("cidr", "direct"),
     Matching({"private"}, "direct"), Matching({"cn", "geoip-cn"}, "direct")}
    \cup {On("mode-global", to) : to \in Chosen} \cup {Matching({"notcn"}, to) : to \in Chosen}
    \cup {Matching({g}, g) : g \in G} \cup FakeRoutes

\* The user's rules, with the outbound they had when they were written.
CustomRules ==
    {Custom(match, to) :
       match \in Matches, to \in {"direct", "reject"} \cup Chosen}
AllRules(G) == BuiltInRules(G) \cup CustomRules

\* Decided after the user's rules.
Late(r) == /\ ~r.user
           /\ r.to \notin {"sniff", "hijack-dns"}
           /\ r.on \notin {"mode-global", "mode-direct"}
Ordered(rules) == \A i, j \in 1 .. Len(rules) : rules[i].user /\ Late(rules[j]) => i < j
RulesOK(rules, G) == rules \in Seq(AllRules(G)) /\ Ordered(rules)

\* Before what a custom rule is inserted.
Anchor(r) == r.on = "rule_set" \/ r.on \in {"cidr", "domain", "domain_suffix"}
                                             \cup {FakeOn(range) : range \in Ranges}

LEMMA BuiltInFacts ==
  ASSUME NEW G, NEW r \in BuiltInRules(G)
  PROVE  ~r.user /\ (Late(r) => Anchor(r))
<1>1. CASE r \in {Sniff, Hijack, Ads, On("mode-direct", "direct"), On("cidr", "direct"),
                  Matching({"private"}, "direct"), Matching({"cn", "geoip-cn"}, "direct")}
  BY <1>1 DEF Sniff, Hijack, Ads, On, Matching, Late, Anchor
<1>2. CASE r \in {On("mode-global", to) : to \in Chosen}
  BY <1>2 DEF On, Late
<1>3. CASE r \in {Matching({"notcn"}, to) : to \in Chosen}
  BY <1>3 DEF Matching, Anchor
<1>4. CASE r \in {Matching({g}, g) : g \in G}
  BY <1>4 DEF Matching, Anchor
<1>5. CASE r \in FakeRoutes
  <2>1. PICK range \in Ranges : r = FakeRoute(range)
    BY <1>5 DEF FakeRoutes
  <2>2. r.on = FakeOn(range) /\ ~r.user
    BY <2>1 DEF FakeRoute, On
  <2> QED BY <2>2 DEF Anchor
<1> QED
  BY <1>1, <1>2, <1>3, <1>4, <1>5 DEF BuiltInRules

LEMMA CustomFacts ==
  ASSUME NEW r \in CustomRules
  PROVE  r.user /\ ~Late(r) /\ r.sets = {} /\ r.to \in {"direct", "reject"} \cup Chosen
BY DEF CustomRules, Custom, Late

LEMMA RuleFacts ==
  ASSUME NEW G, NEW r \in AllRules(G)
  PROVE  /\ ~r.user => r \in BuiltInRules(G)
         /\ r.user => r \in CustomRules
BY BuiltInFacts, CustomFacts DEF AllRules

\* Leaving rules out, keeping the others in their order, keeps the order.
LEMMA OrderKept ==
  ASSUME NEW G, NEW rules, RulesOK(rules, G), NEW out \in Seq(AllRules(G)),
         NEW g \in [1 .. Len(out) -> 1 .. Len(rules)],
         \A i \in 1 .. Len(out) : out[i] = rules[g[i]],
         \A i, j \in 1 .. Len(out) : i < j => g[i] < g[j]
  PROVE  RulesOK(out, G)
<1>1. ASSUME NEW i \in 1 .. Len(out), NEW j \in 1 .. Len(out), out[i].user, Late(out[j])
      PROVE  i < j
  <2>1. g[i] \in 1 .. Len(rules) /\ g[j] \in 1 .. Len(rules)
    OBVIOUS
  <2>2. out[i] = rules[g[i]] /\ out[j] = rules[g[j]]
    OBVIOUS
  <2>3. g[i] < g[j]
    BY <1>1, <2>1, <2>2 DEF RulesOK, Ordered
  <2>4. i = j => FALSE
    BY <2>1, <2>3
  <2>5. j < i => FALSE
    BY <2>1, <2>3
  <2> QED BY <2>4, <2>5
<1> QED
  BY <1>1 DEF RulesOK, Ordered

LEMMA OnlyRules ==
  ASSUME NEW G, NEW rules, RulesOK(rules, G), NEW P
  PROVE  RulesOK(Only(rules, P), G)
<1>1. rules \in Seq(AllRules(G))
  BY DEF RulesOK
<1> DEFINE out == Only(rules, P)
<1>2. out \in Seq(AllRules(G))
  BY <1>1, OnlyKeeps
<1>3. PICK g \in [1 .. Len(out) -> 1 .. Len(rules)] :
             /\ \A i \in 1 .. Len(out) : out[i] = rules[g[i]] /\ g[i] \in P
             /\ \A i, j \in 1 .. Len(out) : i < j => g[i] < g[j]
  BY <1>1, OnlyKeeps
<1> HIDE DEF out
<1>4. \A i \in 1 .. Len(out) : out[i] = rules[g[i]]
  BY <1>3
<1>5. RulesOK(out, G)
  BY <1>2, <1>3, <1>4, OrderKept
<1> QED
  BY <1>5 DEF out

LEMMA RemovedRules ==
  ASSUME NEW G, NEW rules, RulesOK(rules, G), NEW p \in 1 .. Len(rules)
  PROVE  RulesOK(RemoveAt(rules, p), G)
<1>1. rules \in Seq(AllRules(G)) /\ Len(rules) \in Nat
  BY DEF RulesOK
<1> DEFINE out == RemoveAt(rules, p)
           g == [i \in 1 .. Len(out) |-> IF i < p THEN i ELSE i + 1]
<1>2. /\ out \in Seq(AllRules(G)) /\ Len(out) = Len(rules) - 1
      /\ \A i \in 1 .. (Len(rules) - 1) : out[i] = IF i < p THEN rules[i] ELSE rules[i + 1]
  BY <1>1, Removed
<1> HIDE DEF out
<1>3. g \in [1 .. Len(out) -> 1 .. Len(rules)]
  BY <1>1, <1>2
<1>4. \A i \in 1 .. Len(out) : out[i] = rules[g[i]]
  BY <1>1, <1>2
<1>5. \A i, j \in 1 .. Len(out) : i < j => g[i] < g[j]
  BY <1>1, <1>2
<1> HIDE DEF g
<1>6. RulesOK(out, G)
  BY <1>2, <1>3, <1>4, <1>5, OrderKept
<1> QED
  BY <1>6 DEF out

\* A rule that is neither the user's nor late may go anywhere.
LEMMA InsertedRules ==
  ASSUME NEW G, NEW rules, RulesOK(rules, G), NEW p \in 1 .. (Len(rules) + 1),
         NEW r \in BuiltInRules(G), ~Late(r)
  PROVE  RulesOK(InsertAt(rules, p, r), G)
<1>1. rules \in Seq(AllRules(G)) /\ Len(rules) \in Nat /\ r \in AllRules(G) /\ ~r.user
  BY BuiltInFacts DEF RulesOK, AllRules
<1> DEFINE out == InsertAt(rules, p, r)
<1>2. /\ out \in Seq(AllRules(G)) /\ Len(out) = Len(rules) + 1
      /\ \A i \in 1 .. (Len(rules) + 1) :
           out[i] = IF i < p THEN rules[i] ELSE IF i = p THEN r ELSE rules[i - 1]
  BY <1>1, Inserted
<1> HIDE DEF out
<1>3. ASSUME NEW i \in 1 .. Len(out), NEW j \in 1 .. Len(out), out[i].user, Late(out[j])
      PROVE  i < j
  <2>1. i # p /\ j # p
    BY <1>1, <1>2, <1>3
  <2> DEFINE at(k) == IF k < p THEN k ELSE k - 1
  <2>2. at(i) \in 1 .. Len(rules) /\ at(j) \in 1 .. Len(rules)
    BY <1>1, <1>2, <2>1
  <2>3. out[i] = rules[at(i)] /\ out[j] = rules[at(j)]
    BY <1>2, <2>1
  <2>4. at(i) < at(j)
    <3> HIDE DEF at
    <3> QED BY <1>3, <2>2, <2>3 DEF RulesOK, Ordered
  <2> QED BY <1>1, <1>2, <2>1, <2>4
<1>4. Ordered(out)
  BY <1>3 DEF Ordered
<1> QED
  BY <1>2, <1>4 DEF RulesOK, out

\* A built-in rule may go last.
LEMMA AppendedRules ==
  ASSUME NEW G, NEW rules, RulesOK(rules, G), NEW r \in BuiltInRules(G)
  PROVE  RulesOK(Append(rules, r), G)
<1>1. rules \in Seq(AllRules(G)) /\ Len(rules) \in Nat /\ r \in AllRules(G) /\ ~r.user
  BY BuiltInFacts DEF RulesOK, AllRules
<1> DEFINE out == Append(rules, r)
<1>2. /\ out \in Seq(AllRules(G)) /\ Len(out) = Len(rules) + 1 /\ out[Len(rules) + 1] = r
      /\ \A i \in 1 .. Len(rules) : out[i] = rules[i]
  BY <1>1, AppendProperties
<1> HIDE DEF out
<1>3. ASSUME NEW i \in 1 .. Len(out), NEW j \in 1 .. Len(out), out[i].user, Late(out[j])
      PROVE  i < j
  <2>1. i # Len(rules) + 1
    BY <1>1, <1>2, <1>3
  <2>2. i \in 1 .. Len(rules) /\ out[i] = rules[i]
    BY <1>1, <1>2, <2>1
  <2>3. CASE j = Len(rules) + 1
    BY <1>1, <2>2, <2>3
  <2>4. CASE j # Len(rules) + 1
    <3>1. j \in 1 .. Len(rules) /\ out[j] = rules[j]
      BY <1>1, <1>2, <2>4
    <3> QED BY <1>3, <2>2, <3>1 DEF RulesOK, Ordered
  <2> QED BY <2>3, <2>4
<1>4. Ordered(out)
  BY <1>3 DEF Ordered
<1> QED
  BY <1>2, <1>4 DEF RulesOK, out

\* Changing rules where they are keeps the order if none becomes late or the
\* user's.
LEMMA MappedRules ==
  ASSUME NEW G, NEW rules, RulesOK(rules, G), NEW out \in Seq(AllRules(G)), Len(out) = Len(rules),
         \A i \in 1 .. Len(rules) : /\ out[i].user => rules[i].user
                                    /\ Late(out[i]) => Late(rules[i])
  PROVE  RulesOK(out, G)
BY DEF RulesOK, Ordered

\* A sequence whose elements are all in T.
LEMMA Narrowed ==
  ASSUME NEW S, NEW s \in Seq(S), NEW T, \A i \in 1 .. Len(s) : s[i] \in T
  PROVE  s \in Seq(T)
OBVIOUS

LEMMA Joined ==
  ASSUME NEW S, NEW a \in Seq(S), NEW b \in Seq(S)
  PROVE  a \o b \in Seq(S)
BY ConcatProperties

LEMMA BuiltInOrdered ==
  ASSUME NEW G, NEW rules \in Seq(BuiltInRules(G))
  PROVE  RulesOK(rules, G)
<1>1. rules \in Seq(AllRules(G))
  <2>1. \A i \in 1 .. Len(rules) : rules[i] \in AllRules(G)
    BY ElementOfSeq DEF AllRules
  <2> QED BY <2>1, Narrowed
<1>2. \A i \in 1 .. Len(rules) : ~rules[i].user
  BY ElementOfSeq, BuiltInFacts
<1> QED
  BY <1>1, <1>2 DEF RulesOK, Ordered

LEMMA SniffAdded ==
  ASSUME NEW G, NEW rules, RulesOK(rules, G)
  PROVE  RulesOK(WithSniff(rules), G)
<1>1. Sniff \in BuiltInRules(G) /\ ~Late(Sniff)
  BY DEF BuiltInRules, Sniff, On, Late
<1>2. rules \in Seq(AllRules(G)) /\ 1 \in 1 .. (Len(rules) + 1)
  BY DEF RulesOK
<1>3. InsertAt(rules, 1, Sniff) = <<Sniff>> \o rules
  <2> DEFINE u == <<Sniff>>
  <2>1. SubSeq(rules, 1, 1 - 1) = <<>>
    <3>1. 1 - 1 = 0 /\ SubSeq(rules, 1, 0) = <<>>
      BY SubSeqEmpty
    <3> QED BY <3>1
  <2>2. SubSeq(rules, 1, Len(rules)) = rules
    BY <1>2, SubSeqFull
  <2>3. <<>> \o u = u
    <3>1. u \in Seq(BuiltInRules(G))
      BY <1>1
    <3> HIDE DEF u
    <3> QED BY <3>1, ConcatEmptySeq
  <2> HIDE DEF u
  <2>4. InsertAt(rules, 1, Sniff) = (<<>> \o u) \o rules
    BY <2>1, <2>2 DEF InsertAt, u
  <2> QED BY <2>3, <2>4 DEF u
<1>4. RulesOK(InsertAt(rules, 1, Sniff), G)
  BY <1>1, <1>2, InsertedRules
<1> QED
  BY <1>3, <1>4 DEF WithSniff

\* A rule with another target.
LEMMA Retargeted ==
  ASSUME NEW on, NEW sets, NEW to, NEW other
  PROVE  /\ [Own(on, sets, to) EXCEPT !.to = other] = Own(on, sets, other)
         /\ [Custom(on, to) EXCEPT !.to = other] = Custom(on, other)
<1>1. ASSUME NEW all, NEW user
      PROVE  [[on |-> on, sets |-> all, to |-> to, user |-> user] EXCEPT !.to = other]
               = [on |-> on, sets |-> all, to |-> other, user |-> user]
  <2>1. [[on |-> on, sets |-> all, to |-> to, user |-> user] EXCEPT !.to = other]
          = [on |-> on, sets |-> all, user |-> user, to |-> other]
    OBVIOUS
  <2> QED BY <2>1
<1>2. [Own(on, sets, to) EXCEPT !.to = other] = Own(on, sets, other)
  BY <1>1 DEF Own
<1>3. [Custom(on, to) EXCEPT !.to = other] = Custom(on, other)
  BY <1>1 DEF Custom
<1> QED
  BY <1>2, <1>3

LEMMA RedirectedFacts ==
  ASSUME NEW G, NEW r \in AllRules(G), NEW s, s.outbound \in Chosen
  PROVE  /\ Redirected(r, s) \in AllRules(G)
         /\ Redirected(r, s).user => r.user
         /\ Late(Redirected(r, s)) => Late(r)
<1> DEFINE q == [r EXCEPT !.to = s.outbound]
<1>1. CASE ~(r.on = "mode-global" \/ r.sets = {"notcn"})
  BY <1>1 DEF Redirected
<1>2. CASE r \in CustomRules /\ (r.on = "mode-global" \/ r.sets = {"notcn"})
  <2>1. PICK match \in Matches, to \in {"direct", "reject"} \cup Chosen :
             r = Custom(match, to)
    BY <1>2 DEF CustomRules
  <2>2. q = Custom(match, s.outbound)
    BY <2>1, Retargeted
  <2>3. q \in CustomRules
    <3> HIDE DEF q
    <3>1. s.outbound \in {"direct", "reject"} \cup Chosen
      OBVIOUS
    <3> QED BY <2>2, <3>1 DEF CustomRules
  <2>4. Redirected(r, s) = q
    BY <1>2 DEF Redirected
  <2>5. q \in AllRules(G) /\ r.user /\ ~Late(q)
    BY <1>2, <2>3, CustomFacts DEF AllRules
  <2> QED BY <2>4, <2>5
<1>3. CASE r \in BuiltInRules(G) /\ (r.on = "mode-global" \/ r.sets = {"notcn"})
  <2>1. Redirected(r, s) = q
    BY <1>3 DEF Redirected
  <2>2. r = Own(r.on, r.sets, r.to)
    <3>1. CASE r \in FakeRoutes
      BY <3>1 DEF Own, FakeRoutes, FakeRoute, On
    <3>2. CASE r \in {Sniff, Hijack, Ads, On("mode-direct", "direct"), On("cidr", "direct"),
                      Matching({"private"}, "direct"), Matching({"cn", "geoip-cn"}, "direct")}
      BY <3>2 DEF Own, Sniff, Hijack, Ads, On, Matching
    <3>3. CASE r \in {On("mode-global", to) : to \in Chosen}
      BY <3>3 DEF Own, On
    <3>4. CASE r \in {Matching({"notcn"}, to) : to \in Chosen}
      BY <3>4 DEF Own, Matching
    <3>5. CASE r \in {Matching({g}, g) : g \in G}
      BY <3>5 DEF Own, Matching
    <3> QED BY <1>3, <3>1, <3>2, <3>3, <3>4, <3>5 DEF BuiltInRules
  <2>3. q = Own(r.on, r.sets, s.outbound)
    <3> DEFINE on == r.on
               sets == r.sets
               to == r.to
               other == s.outbound
    <3> HIDE DEF on, sets, to, other
    <3>1. r = Own(on, sets, to)
      BY <2>2 DEF on, sets, to
    <3>2. [r EXCEPT !.to = other] = Own(on, sets, other)
      BY <3>1, Retargeted
    <3> QED BY <3>2 DEF on, sets, other
  <2>4. q.on = r.on /\ ~q.user /\ ~r.user
    BY <2>2, <2>3 DEF Own
  <2>5. CASE r.on = "mode-global" /\ r.sets = {}
    <3>1. q = On("mode-global", s.outbound)
      BY <2>3, <2>5 DEF On, Own
    <3>2. q \in BuiltInRules(G)
      BY <3>1 DEF BuiltInRules
    <3>3. ~Late(q)
      BY <2>4, <2>5 DEF Late
    <3> QED BY <2>1, <2>4, <3>2, <3>3 DEF AllRules
  <2>6. CASE r.on = "rule_set" /\ r.sets = {"notcn"}
    <3>1. q = Matching({"notcn"}, s.outbound)
      BY <2>3, <2>6 DEF Matching, Own
    <3>2. q \in BuiltInRules(G)
      BY <3>1 DEF BuiltInRules
    <3>3. r.to \notin {"sniff", "hijack-dns"}
      <4>1. CASE r \in {Matching({"notcn"}, to) : to \in Chosen}
        BY <4>1 DEF Matching, Chosen
      <4>2. CASE r \in {Matching({g}, g) : g \in G}
        <5>1. PICK g \in G : r = Matching({g}, g)
          BY <4>2
        <5>2. g = "notcn" /\ r.to = g
          BY <2>6, <5>1 DEF Matching
        <5> QED BY <5>2
      <4>3. CASE r \in {Sniff, Hijack, Ads, On("mode-direct", "direct"), On("cidr", "direct"),
                        Matching({"private"}, "direct"), Matching({"cn", "geoip-cn"}, "direct")}
        BY <2>6, <4>3 DEF Sniff, Hijack, Ads, On, Matching
      <4>4. CASE r \in {On("mode-global", to) : to \in Chosen} \cup FakeRoutes
        BY <2>6, <4>4 DEF On, FakeRoutes, FakeRoute
      <4> QED BY <1>3, <4>1, <4>2, <4>3, <4>4 DEF BuiltInRules
    <3>4. Late(r)
      BY <2>4, <2>6, <3>3 DEF Late
    <3> QED BY <2>1, <2>4, <3>2, <3>4 DEF AllRules
  <2>7. \/ r.on = "mode-global" /\ r.sets = {}
        \/ r.on = "rule_set" /\ r.sets = {"notcn"}
    <3>1. CASE r \in FakeRoutes
      BY <1>3, <3>1 DEF FakeRoutes, FakeRoute, On
    <3>2. CASE r \in {Sniff, Hijack, Ads, On("mode-direct", "direct"), On("cidr", "direct"),
                      Matching({"private"}, "direct"), Matching({"cn", "geoip-cn"}, "direct")}
      BY <1>3, <3>2 DEF Sniff, Hijack, Ads, On, Matching
    <3>3. CASE r \in {On("mode-global", to) : to \in Chosen}
      BY <1>3, <3>3 DEF On
    <3>4. CASE r \in {Matching({"notcn"}, to) : to \in Chosen}
      BY <1>3, <3>4 DEF Matching
    <3>5. CASE r \in {Matching({g}, g) : g \in G}
      BY <1>3, <3>5 DEF Matching
    <3> QED BY <1>3, <3>1, <3>2, <3>3, <3>4, <3>5 DEF BuiltInRules
  <2> QED BY <2>5, <2>6, <2>7
<1> QED
  BY <1>1, <1>2, <1>3 DEF AllRules

LEMMA HijackSet ==
  ASSUME NEW G, NEW rules, RulesOK(rules, G), NEW s
  PROVE  RulesOK(WithHijack(rules, s), G)
<1> DEFINE I == {i \in 1 .. Len(rules) : rules[i].to = "sniff"}
           J == {i \in 1 .. Len(rules) : rules[i].to = "hijack-dns"}
           sniff == IF I # {} THEN Min(I) ELSE 0
           hijack == IF J # {} THEN Min(J) ELSE 0
<1>1. WithHijack(rules, s) =
        CASE s.hijack /\ hijack = 0  -> InsertAt(rules, sniff + 1, Hijack)
          [] ~s.hijack /\ hijack # 0 -> RemoveAt(rules, hijack)
          [] OTHER                   -> rules
  BY DEF WithHijack, SelectInSeq
<1>2. Len(rules) \in Nat
  BY DEF RulesOK
<1>3. sniff \in 0 .. Len(rules) /\ hijack \in 0 .. Len(rules)
  <2>1. I \in SUBSET (1 .. Len(rules)) /\ J \in SUBSET (1 .. Len(rules))
    OBVIOUS
  <2> HIDE DEF I, J
  <2>2. sniff \in 0 .. Len(rules)
    BY <1>2, <2>1, FirstPosition
  <2>3. hijack \in 0 .. Len(rules)
    BY <1>2, <2>1, FirstPosition
  <2> QED BY <2>2, <2>3
<1> HIDE DEF sniff, hijack
<1>4. Hijack \in BuiltInRules(G) /\ ~Late(Hijack)
  BY DEF BuiltInRules, Hijack, On, Late
<1>5. RulesOK(InsertAt(rules, sniff + 1, Hijack), G)
  <2>1. sniff + 1 \in 1 .. (Len(rules) + 1)
    BY <1>2, <1>3
  <2> QED BY <1>4, <2>1, InsertedRules
<1>6. hijack # 0 => RulesOK(RemoveAt(rules, hijack), G)
  <2>1. hijack # 0 => hijack \in 1 .. Len(rules)
    BY <1>2, <1>3
  <2> QED BY <2>1, RemovedRules
<1> QED
  BY <1>1, <1>5, <1>6

LEMMA AdsRouteSet ==
  ASSUME NEW G, NEW rules, RulesOK(rules, G), NEW s
  PROVE  RulesOK(WithAdsRoute(rules, s), G)
<1> DEFINE I == {i \in 1 .. Len(rules) : rules[i].sets = {"ads"} /\ rules[i].to = "reject"}
           ads == IF I # {} THEN Min(I) ELSE 0
<1>1. WithAdsRoute(rules, s) =
        CASE s.ads /\ ads = 0  -> Append(rules, Ads)
          [] ~s.ads /\ ads # 0 -> RemoveAt(rules, ads)
          [] OTHER             -> rules
  BY DEF WithAdsRoute, SelectInSeq
<1>2. Len(rules) \in Nat
  BY DEF RulesOK
<1>3. ads \in 0 .. Len(rules)
  <2>1. I \in SUBSET (1 .. Len(rules))
    OBVIOUS
  <2> HIDE DEF I
  <2> QED BY <1>2, <2>1, FirstPosition
<1> HIDE DEF ads
<1>4. RulesOK(Append(rules, Ads), G)
  <2>1. Ads \in BuiltInRules(G)
    BY DEF BuiltInRules
  <2> QED BY <2>1, AppendedRules
<1>5. ads # 0 => RulesOK(RemoveAt(rules, ads), G)
  <2>1. ads # 0 => ads \in 1 .. Len(rules)
    BY <1>2, <1>3
  <2> QED BY <2>1, RemovedRules
<1> QED
  BY <1>1, <1>4, <1>5

\* More groups allow more rules.
LEMMA RulesWidened ==
  ASSUME NEW H, NEW G, H \subseteq G, NEW rules, RulesOK(rules, H)
  PROVE  RulesOK(rules, G)
<1>1. rules \in Seq(AllRules(H)) /\ Ordered(rules)
  BY DEF RulesOK
<1>2. AllRules(H) \subseteq AllRules(G)
  BY DEF AllRules, BuiltInRules
<1>3. \A i \in 1 .. Len(rules) : rules[i] \in AllRules(G)
  BY <1>1, <1>2, ElementOfSeq
<1>4. rules \in Seq(AllRules(G))
  BY <1>1, <1>3, Narrowed
<1> QED
  BY <1>1, <1>4 DEF RulesOK

\* A rule that is not one of a group's is allowed whatever groups there are.
LEMMA OtherRules ==
  ASSUME NEW G, NEW H, NEW r \in AllRules(G), r.sets \notin {{g} : g \in G \ H}
  PROVE  r \in AllRules(H)
<1>1. CASE r \in {Matching({g}, g) : g \in G}
  <2>1. PICK g \in G : r = Matching({g}, g)
    BY <1>1
  <2>2. r.sets = {g}
    BY <2>1 DEF Matching
  <2>3. g \in H
    BY <2>2
  <2> QED BY <2>1, <2>3 DEF AllRules, BuiltInRules
<1>2. CASE r \notin {Matching({g}, g) : g \in G}
  BY <1>2 DEF AllRules, BuiltInRules
<1> QED
  BY <1>1, <1>2

\* The groups that stay when the settings are patched in.
Staying(G, s) == {g \in G : g \in GroupSet => s.groups}

\* A patch keeps the order, and the rules of the groups that stay.
LEMMA RulesPatched ==
  ASSUME NEW G, NEW f, RulesOK(f.rules, G), NEW s, s.outbound \in Chosen, s.range \in Ranges
  PROVE  RulesOK(PatchedRules(f, s), Staying(G, s))
<1> DEFINE sniffed == WithSniff(f.rules)
           redirected == [i \in DOMAIN sniffed |-> Redirected(sniffed[i], s)]
           ads == WithAdsRoute(WithHijack(redirected, s), s)
           stale == {FakeRoute(range) : range \in CleanupRanges(f.servers, s)}
           P == {i \in DOMAIN ads : /\ (ads[i].sets \in {{g} : g \in GroupSet}) => s.groups
                                    /\ ads[i] \notin stale}
           kept == Only(ads, P)
<1>1. RulesOK(sniffed, G)
  BY SniffAdded
<1>2. sniffed \in Seq(AllRules(G)) /\ Len(sniffed) \in Nat /\ DOMAIN sniffed = 1 .. Len(sniffed)
  BY <1>1 DEF RulesOK
<1>3. PatchedRules(f, s) = kept \o If(s.fake # "off", <<FakeRoute(s.range)>>)
  BY DEF PatchedRules
<1> DEFINE H == Staying(G, s)
<1> HIDE DEF sniffed
<1>4. RulesOK(redirected, G)
  <2>1. \A i \in 1 .. Len(sniffed) : Redirected(sniffed[i], s) \in AllRules(G)
    BY <1>2, ElementOfSeq, RedirectedFacts
  <2>2. redirected \in Seq(AllRules(G)) /\ Len(redirected) = Len(sniffed)
    BY <1>2, <2>1
  <2>3. \A i \in 1 .. Len(sniffed) : redirected[i] = Redirected(sniffed[i], s)
    BY <1>2
  <2>4. \A i \in 1 .. Len(sniffed) : /\ redirected[i].user => sniffed[i].user
                                     /\ Late(redirected[i]) => Late(sniffed[i])
    BY <1>2, <2>3, ElementOfSeq, RedirectedFacts
  <2> HIDE DEF redirected
  <2> QED BY <1>1, <2>2, <2>4, MappedRules
<1> HIDE DEF redirected
<1>5. RulesOK(ads, G)
  BY <1>4, HijackSet, AdsRouteSet
<1> HIDE DEF ads
<1>6. RulesOK(kept, H)
  <2>1. RulesOK(kept, G)
    <3> HIDE DEF P
    <3> QED BY <1>5, OnlyRules
  <2>2. ads \in Seq(AllRules(G)) /\ DOMAIN ads = 1 .. Len(ads)
    BY <1>5 DEF RulesOK
  <2>3. PICK g \in [1 .. Len(kept) -> 1 .. Len(ads)] :
               \A i \in 1 .. Len(kept) : kept[i] = ads[g[i]] /\ g[i] \in P
    <3> HIDE DEF P
    <3> QED BY <2>2, OnlyKeeps
  <2> HIDE DEF kept
  <2>4. ASSUME NEW i \in 1 .. Len(kept) PROVE kept[i] \in AllRules(H)
    <3>1. kept[i] \in AllRules(G)
      BY <2>1, ElementOfSeq DEF RulesOK
    <3>2. (kept[i].sets \in {{x} : x \in GroupSet}) => s.groups
      BY <2>3
    <3>3. kept[i].sets \notin {{x} : x \in G \ H}
      BY <3>2 DEF Staying
    <3> HIDE DEF H
    <3> QED BY <3>1, <3>3, OtherRules
  <2> HIDE DEF H
  <2>5. kept \in Seq(AllRules(G)) /\ Ordered(kept)
    BY <2>1 DEF RulesOK
  <2>6. kept \in Seq(AllRules(H))
    BY <2>4, <2>5, Narrowed
  <2> QED BY <2>5, <2>6 DEF RulesOK
<1> HIDE DEF kept, H
<1>7. ASSUME s.fake # "off" PROVE RulesOK(PatchedRules(f, s), H)
  <2>1. FakeRoute(s.range) \in BuiltInRules(H)
    BY DEF BuiltInRules, FakeRoutes
  <2>2. RulesOK(Append(kept, FakeRoute(s.range)), H)
    BY <1>6, <2>1, AppendedRules
  <2>3. Append(kept, FakeRoute(s.range)) = kept \o <<FakeRoute(s.range)>>
    <3>1. kept \in Seq(AllRules(H)) /\ FakeRoute(s.range) \in AllRules(H)
      BY <1>6, <2>1 DEF RulesOK, AllRules
    <3> QED BY <3>1, AppendIsConcat
  <2> QED BY <1>3, <1>7, <2>2, <2>3 DEF If
<1>8. ASSUME s.fake = "off" PROVE RulesOK(PatchedRules(f, s), H)
  <2>1. kept \o <<>> = kept
    <3>1. kept \in Seq(AllRules(H))
      BY <1>6 DEF RulesOK
    <3> QED BY <3>1, ConcatEmptySeq
  <2> QED BY <1>3, <1>6, <1>8, <2>1 DEF If
<1>9. RulesOK(PatchedRules(f, s), H)
  BY <1>7, <1>8
<1> QED
  BY <1>9 DEF H

\* The rules of a new file.
LEMMA RulesBuilt ==
  ASSUME NEW G, NEW s, s.outbound \in Chosen, s.range \in Ranges, s.groups => GroupSet \subseteq G
  PROVE  RulesOK(BaseRules(s), G)
<1> DEFINE S == Seq(BuiltInRules(G))
           a == If(s.hijack, <<Hijack>>)
           b == <<On("mode-global", s.outbound), On("mode-direct", "direct")>>
           c == If(s.ads, <<Ads>>)
           d == If(s.groups, [i \in DOMAIN Groups |-> Matching({Groups[i]}, Groups[i])])
           e == <<Matching({"private"}, "direct"), On("cidr", "direct"),
                  Matching({"cn", "geoip-cn"}, "direct"), Matching({"notcn"}, s.outbound)>>
           f == If(s.fake # "off", <<FakeRoute(s.range)>>)
<1>1. <<Sniff>> \in S
  BY DEF BuiltInRules
<1>2. a \in S
  <2>1. <<Hijack>> \in S /\ <<>> \in S
    BY DEF BuiltInRules
  <2> QED BY <2>1 DEF If
<1>3. b \in S
  <2>1. /\ On("mode-global", s.outbound) \in BuiltInRules(G)
        /\ On("mode-direct", "direct") \in BuiltInRules(G)
    BY DEF BuiltInRules
  <2> QED BY <2>1
<1>4. c \in S
  <2>1. <<Ads>> \in S /\ <<>> \in S
    BY DEF BuiltInRules
  <2> QED BY <2>1 DEF If
<1>5. d \in S
  <2>1. Len(Groups) \in Nat /\ DOMAIN Groups = 1 .. Len(Groups)
    BY GroupsAssumption
  <2>2. s.groups => \A i \in DOMAIN Groups : Matching({Groups[i]}, Groups[i]) \in BuiltInRules(G)
    BY DEF BuiltInRules, GroupSet
  <2>3. s.groups => [i \in DOMAIN Groups |-> Matching({Groups[i]}, Groups[i])] \in S
    BY <2>1, <2>2
  <2>4. <<>> \in S
    OBVIOUS
  <2> QED BY <2>3, <2>4 DEF If
<1>6. e \in S
  <2>1. /\ Matching({"private"}, "direct") \in BuiltInRules(G)
        /\ On("cidr", "direct") \in BuiltInRules(G)
        /\ Matching({"cn", "geoip-cn"}, "direct") \in BuiltInRules(G)
        /\ Matching({"notcn"}, s.outbound) \in BuiltInRules(G)
    BY DEF BuiltInRules
  <2> QED BY <2>1
<1>7. f \in S
  <2>1. FakeRoute(s.range) \in BuiltInRules(G)
    BY DEF BuiltInRules, FakeRoutes
  <2>2. <<FakeRoute(s.range)>> \in S /\ <<>> \in S
    BY <2>1
  <2> QED BY <2>2 DEF If
<1>8. BaseRules(s) = <<Sniff>> \o a \o b \o c \o d \o e \o f
  BY DEF BaseRules
<1> HIDE DEF a, b, c, d, e, f
<1>9. <<Sniff>> \o a \o b \o c \in S
  BY <1>1, <1>2, <1>3, <1>4, Joined
<1>10. <<Sniff>> \o a \o b \o c \o d \o e \o f \in S
  <2> DEFINE g == <<Sniff>> \o a \o b \o c
  <2> HIDE DEF g
  <2>1. g \o d \o e \o f \in S
    BY <1>5, <1>6, <1>7, <1>9, Joined DEF g
  <2> QED BY <2>1 DEF g
<1> QED
  BY <1>8, <1>10, BuiltInOrdered

----------------------------------------------------------------------------
(* Files                                                                    *)

Fields == {"outbounds", "servers", "dnsRules", "ruleSets", "rules", "inbounds", "final",
           "resolver", "uiDetour", "rdrc", "reverse", "dnsStrategy", "mode"}
IsFile(f) == f = [field \in Fields |-> f[field]]

\* The fields a patch writes.
LEMMA PatchFields ==
  ASSUME NEW f, IsFile(f), NEW s
  PROVE  /\ IsFile(Patch(f, s))
         /\ Patch(f, s).rules = PatchedRules(f, s)
         /\ Patch(f, s).servers = PatchedServers(f.servers, s)
         /\ Patch(f, s).dnsRules = PatchedDnsRules(f.dnsRules, s)
         /\ Patch(f, s).ruleSets = PatchedRuleSets(f.ruleSets, s)
         /\ Patch(f, s).outbounds =
              Only(f.outbounds,
                   {i \in DOMAIN f.outbounds : f.outbounds[i].tag \in GroupSet => s.groups})
         /\ Patch(f, s).final = s.outbound
         /\ Patch(f, s).uiDetour = s.detour
<1>1. DOMAIN f = Fields
  BY DEF IsFile
<1> HIDE DEF Fields
<1>2. DOMAIN Patch(f, s) = Fields
  BY <1>1 DEF Patch
<1>3. IsFile(Patch(f, s))
  <2> DEFINE q == Patch(f, s)
  <2>1. q = [field \in DOMAIN q |-> q[field]]
    BY DEF Patch
  <2> HIDE DEF q
  <2>2. IsFile(q)
    BY <1>2, <2>1 DEF IsFile, q
  <2> QED BY <2>2 DEF q
<1>4. Patch(f, s).rules = PatchedRules(f, s)
  BY <1>1 DEF Patch, Fields
<1>5. Patch(f, s).servers = PatchedServers(f.servers, s)
  BY <1>1 DEF Patch, Fields
<1>6. Patch(f, s).dnsRules = PatchedDnsRules(f.dnsRules, s)
  BY <1>1 DEF Patch, Fields
<1>7. Patch(f, s).ruleSets = PatchedRuleSets(f.ruleSets, s)
  BY <1>1 DEF Patch, Fields
<1>8. Patch(f, s).outbounds =
        Only(f.outbounds, {i \in DOMAIN f.outbounds : f.outbounds[i].tag \in GroupSet => s.groups})
  BY <1>1 DEF Patch, Fields
<1>9. Patch(f, s).final = s.outbound
  BY <1>1 DEF Patch, Fields
<1>10. Patch(f, s).uiDetour = s.detour
  BY <1>1 DEF Patch, Fields
<1> QED
  BY <1>3, <1>4, <1>5, <1>6, <1>7, <1>8, <1>9, <1>10

\* The custom rules, as they are written.
LEMMA CustomWritten ==
  ASSUME NEW list \in RuleLists, NEW s, s.outbound \in Chosen, NEW P
  PROVE  [i \in DOMAIN Only(list, P) |-> RouteRule(Only(list, P)[i], s)] \in Seq(CustomRules)
<1> DEFINE S == ToSet(list)
           enabled == Only(list, P)
<1>1. list \in Seq(S)
  BY RuleListsAssumption
<1> HIDE DEF S
<1>2. enabled \in Seq(S)
  BY <1>1, OnlyKeeps
<1>3. PICK g \in [1 .. Len(enabled) -> 1 .. Len(list)] :
             \A i \in 1 .. Len(enabled) : enabled[i] = list[g[i]]
  BY <1>1, OnlyKeeps
<1>4. ASSUME NEW i \in 1 .. Len(enabled) PROVE RouteRule(enabled[i], s) \in CustomRules
  <2>1. enabled[i].match \in Matches
    <3>1. g[i] \in DOMAIN list
      BY <1>1, <1>3
    <3>2. enabled[i].match \in {list[k].match : k \in DOMAIN list}
      BY <1>3, <3>1
    <3> QED BY <3>2 DEF Matches
  <2> DEFINE e == enabled[i]
             to == CASE e.action = "direct" -> "direct"
                     [] e.action = "proxy"  -> s.outbound
                     [] OTHER               -> "reject"
  <2>2. to \in {"direct", "reject"} \cup Chosen
    OBVIOUS
  <2>3. RouteRule(e, s) = Custom(e.match, to)
    <3>1. RouteRule(e, s) = [on |-> e.match, sets |-> {}, user |-> TRUE, to |-> to]
      BY DEF RouteRule
    <3> HIDE DEF to, e
    <3>2. Custom(e.match, to) = [on |-> e.match, sets |-> {}, user |-> TRUE, to |-> to]
      BY DEF Custom
    <3> QED BY <3>1, <3>2
  <2> HIDE DEF to
  <2>4. Custom(e.match, to) \in CustomRules
    BY <2>1, <2>2 DEF CustomRules
  <2> QED BY <2>3, <2>4
<1> HIDE DEF enabled
<1>5. DOMAIN enabled = 1 .. Len(enabled) /\ Len(enabled) \in Nat
  BY <1>2
<1>6. [i \in DOMAIN enabled |-> RouteRule(enabled[i], s)] \in Seq(CustomRules)
  BY <1>4, <1>5
<1> QED
  BY <1>6 DEF enabled

\* What comes before and from the place where custom rules are inserted.
LEMMA InsertionPoint ==
  ASSUME NEW G, NEW rules \in Seq(BuiltInRules(G))
  PROVE  /\ InsertBefore(rules) \in 1 .. (Len(rules) + 1)
         /\ \A i \in 1 .. (InsertBefore(rules) - 1) : ~Late(rules[i])
<1> DEFINE I == {i \in 1 .. Len(rules) :
                   rules[i].on = "rule_set" \/ rules[i].on \in {"cidr", "domain", "domain_suffix"}
                                                \cup {FakeOn(range) : range \in Ranges}}
           anchor == IF I # {} THEN Min(I) ELSE 0
<1>1. InsertBefore(rules) = IF anchor = 0 THEN Len(rules) + 1 ELSE anchor
  BY DEF InsertBefore, SelectInSeq
<1>2. Len(rules) \in Nat
  OBVIOUS
<1>3. /\ anchor \in 0 .. Len(rules)
      /\ anchor = 0 <=> I = {}
      /\ anchor # 0 => \A i \in I : anchor <= i
  <2>1. I \in SUBSET (1 .. Len(rules))
    OBVIOUS
  <2> HIDE DEF I
  <2> QED BY <1>2, <2>1, FirstPosition
<1>4. I = {i \in 1 .. Len(rules) : Anchor(rules[i])}
  BY DEF Anchor
<1> HIDE DEF I, anchor
<1>5. InsertBefore(rules) \in 1 .. (Len(rules) + 1)
  BY <1>1, <1>2, <1>3
<1>6. ASSUME NEW i \in 1 .. (InsertBefore(rules) - 1) PROVE ~Late(rules[i])
  <2>1. i \in 1 .. Len(rules)
    BY <1>2, <1>5
  <2>2. i \notin I
    BY <1>1, <1>2, <1>3, <2>1
  <2>3. ~Anchor(rules[i])
    BY <1>4, <2>1, <2>2
  <2>4. rules[i] \in BuiltInRules(G)
    BY <2>1, ElementOfSeq
  <2> QED BY <2>3, <2>4, BuiltInFacts
<1> QED
  BY <1>5, <1>6

\* Custom rules between built-in ones that are not late and the others.
LEMMA Sandwiched ==
  ASSUME NEW G, NEW a \in Seq(BuiltInRules(G)), NEW b \in Seq(CustomRules),
         NEW c \in Seq(BuiltInRules(G)), \A i \in 1 .. Len(a) : ~Late(a[i])
  PROVE  RulesOK(a \o b \o c, G)
<1> DEFINE S == AllRules(G)
           ab == a \o b
           t == ab \o c
<1>1. a \in Seq(S) /\ b \in Seq(S) /\ c \in Seq(S)
  <2>1. \A i \in 1 .. Len(a) : a[i] \in S
    BY ElementOfSeq DEF AllRules
  <2>2. \A i \in 1 .. Len(b) : b[i] \in S
    BY ElementOfSeq DEF AllRules
  <2>3. \A i \in 1 .. Len(c) : c[i] \in S
    BY ElementOfSeq DEF AllRules
  <2> HIDE DEF S
  <2> QED BY <2>1, <2>2, <2>3, Narrowed
<1> HIDE DEF S
<1>2. /\ ab \in Seq(S) /\ Len(ab) = Len(a) + Len(b)
      /\ \A i \in 1 .. (Len(a) + Len(b)) : ab[i] = IF i <= Len(a) THEN a[i] ELSE b[i - Len(a)]
  BY <1>1, ConcatProperties
<1> HIDE DEF ab
<1>3. /\ t \in Seq(S) /\ Len(t) = Len(ab) + Len(c)
      /\ \A i \in 1 .. (Len(ab) + Len(c)) : t[i] = IF i <= Len(ab) THEN ab[i] ELSE c[i - Len(ab)]
  BY <1>1, <1>2, ConcatProperties
<1> HIDE DEF t
<1>4. Len(a) \in Nat /\ Len(b) \in Nat /\ Len(c) \in Nat
  BY <1>1
<1>5. ASSUME NEW i \in 1 .. Len(t), t[i].user PROVE i <= Len(ab)
  <2>1. CASE ~(i <= Len(ab))
    <3>1. i - Len(ab) \in 1 .. Len(c) /\ t[i] = c[i - Len(ab)]
      BY <1>2, <1>3, <1>4, <2>1
    <3>2. c[i - Len(ab)] \in BuiltInRules(G)
      BY <3>1, ElementOfSeq
    <3> QED BY <1>5, <3>1, <3>2, BuiltInFacts
  <2> QED BY <2>1
<1>6. ASSUME NEW j \in 1 .. Len(t), Late(t[j]) PROVE ~(j <= Len(ab))
  <2>1. CASE j <= Len(a)
    <3>1. j \in 1 .. Len(a) /\ t[j] = a[j]
      BY <1>2, <1>3, <1>4, <2>1
    <3> QED BY <1>6, <3>1
  <2>2. CASE ~(j <= Len(a)) /\ j <= Len(ab)
    <3>1. j - Len(a) \in 1 .. Len(b) /\ t[j] = b[j - Len(a)]
      BY <1>2, <1>3, <1>4, <2>2
    <3>2. b[j - Len(a)] \in CustomRules
      BY <3>1, ElementOfSeq
    <3> QED BY <1>6, <3>1, <3>2, CustomFacts
  <2> QED BY <2>1, <2>2
<1>7. Ordered(t)
  <2>1. ASSUME NEW i \in 1 .. Len(t), NEW j \in 1 .. Len(t), t[i].user /\ Late(t[j]) PROVE i < j
    <3>1. i <= Len(ab) /\ ~(j <= Len(ab))
      BY <1>5, <1>6, <2>1
    <3> QED BY <1>2, <1>4, <3>1
  <2> QED BY <2>1 DEF Ordered
<1> QED
  BY <1>3, <1>7 DEF RulesOK, S, t, ab

\* Writing the custom rules anew puts them first again.
LEMMA RulesRewritten ==
  ASSUME NEW G, NEW f, IsFile(f), RulesOK(f.rules, G), NEW list \in RuleLists,
         NEW s, s.outbound \in Chosen
  PROVE  /\ IsFile(WithUserRules(f, list, s))
         /\ RulesOK(WithUserRules(f, list, s).rules, G)
         /\ \A field \in Fields \ {"rules"} : WithUserRules(f, list, s)[field] = f[field]
<1> DEFINE P == {i \in DOMAIN f.rules : ~f.rules[i].user}
           stripped == Only(f.rules, P)
           Q == {i \in DOMAIN list : list[i].enabled}
           enabled == Only(list, Q)
           at == InsertBefore(stripped)
           b == [i \in DOMAIN enabled |-> RouteRule(enabled[i], s)]
           a == SubSeq(stripped, 1, at - 1)
           c == SubSeq(stripped, at, Len(stripped))
           rules == a \o b \o c
<1>1. WithUserRules(f, list, s) = [f EXCEPT !.rules = rules]
  BY DEF WithUserRules
<1>2. f.rules \in Seq(AllRules(G)) /\ DOMAIN f.rules = 1 .. Len(f.rules)
  BY DEF RulesOK
<1>3. stripped \in Seq(BuiltInRules(G))
  <2>1. stripped \in Seq(AllRules(G))
    <3> HIDE DEF P
    <3> QED BY <1>2, OnlyKeeps
  <2>2. PICK g \in [1 .. Len(stripped) -> 1 .. Len(f.rules)] :
               \A i \in 1 .. Len(stripped) : stripped[i] = f.rules[g[i]] /\ g[i] \in P
    <3> HIDE DEF P
    <3> QED BY <1>2, OnlyKeeps
  <2> HIDE DEF stripped
  <2>3. ASSUME NEW i \in 1 .. Len(stripped) PROVE stripped[i] \in BuiltInRules(G)
    <3>1. stripped[i] \in AllRules(G) /\ ~stripped[i].user
      BY <2>1, <2>2, ElementOfSeq
    <3> QED BY <3>1, RuleFacts
  <2> QED BY <2>1, <2>3, Narrowed
<1>4. b \in Seq(CustomRules)
  <2> HIDE DEF Q
  <2> QED BY CustomWritten
<1> HIDE DEF stripped, b
<1>5. /\ at \in 1 .. (Len(stripped) + 1)
      /\ \A i \in 1 .. (at - 1) : ~Late(stripped[i])
  BY <1>3, InsertionPoint
<1> HIDE DEF at
<1>6. /\ a \in Seq(BuiltInRules(G)) /\ Len(a) = at - 1
      /\ \A i \in 1 .. (at - 1) : a[i] = stripped[i]
  BY <1>3, <1>5, Before
<1>7. c \in Seq(BuiltInRules(G))
  BY <1>3, <1>5, From
<1> HIDE DEF a, c
<1>8. RulesOK(rules, G)
  <2>1. \A i \in 1 .. Len(a) : ~Late(a[i])
    BY <1>5, <1>6
  <2> QED BY <1>4, <1>6, <1>7, <2>1, Sandwiched
<1> DEFINE w == [f EXCEPT !.rules = rules]
<1> HIDE DEF rules
<1>9. DOMAIN f = Fields
  BY DEF IsFile
<1>10. w.rules = rules
  BY <1>9 DEF Fields
<1>11. \A field \in Fields \ {"rules"} : w[field] = f[field]
  BY <1>9
<1>12. IsFile(w)
  <2>1. DOMAIN w = Fields /\ w = [field \in DOMAIN w |-> w[field]]
    BY <1>9
  <2> HIDE DEF w
  <2> QED BY <2>1 DEF IsFile
<1> HIDE DEF w
<1>13. WithUserRules(f, list, s) = w
  BY <1>1 DEF w
<1> QED
  BY <1>8, <1>10, <1>11, <1>12, <1>13

\* A record with the fields of a file is a file.
Contents(outbounds, servers, dnsRules, ruleSets, rules, final, resolver, uiDetour, fake) ==
    [outbounds |-> outbounds, servers |-> servers, dnsRules |-> dnsRules,
     ruleSets |-> ruleSets, rules |-> rules, inbounds |-> <<>>,
     final |-> final, resolver |-> resolver, uiDetour |-> uiDetour,
     rdrc |-> fake, reverse |-> fake, dnsStrategy |-> "", mode |-> "rule"]

LEMMA ContentsIsFile ==
  ASSUME NEW o, NEW d, NEW q, NEW rs, NEW r, NEW fin, NEW res, NEW ui, NEW fake
  PROVE  /\ IsFile(Contents(o, d, q, rs, r, fin, res, ui, fake))
         /\ Contents(o, d, q, rs, r, fin, res, ui, fake).rules = r
         /\ Contents(o, d, q, rs, r, fin, res, ui, fake).outbounds = o
         /\ Contents(o, d, q, rs, r, fin, res, ui, fake).servers = d
         /\ Contents(o, d, q, rs, r, fin, res, ui, fake).dnsRules = q
         /\ Contents(o, d, q, rs, r, fin, res, ui, fake).ruleSets = rs
<1> DEFINE c == Contents(o, d, q, rs, r, fin, res, ui, fake)
<1>1. DOMAIN c = Fields /\ c = [field \in DOMAIN c |-> c[field]]
  BY DEF Contents, Fields
<1>2. c.rules = r /\ c.outbounds = o /\ c.servers = d /\ c.dnsRules = q /\ c.ruleSets = rs
  BY DEF Contents
<1> HIDE DEF c
<1>3. IsFile(c)
  BY <1>1 DEF IsFile
<1> QED
  BY <1>2, <1>3 DEF c

\* A new file is a patched one.
BaseOutbounds(s) ==
    <<Group("auto", <<"direct">>), Group("manual", <<"auto">>)>>
    \o If(s.groups, [i \in DOMAIN Groups |-> Group(Groups[i], <<"manual", "auto">>)])
    \o <<Group("direct", <<>>), Group("block", <<>>)>>

Skeleton(s) == Contents(BaseOutbounds(s), BaseServers(s), BaseDnsRules(s), BaseRuleSets(s),
                        BaseRules(s), s.outbound, Strategy(s), s.detour, s.fake # "off")

LEMMA SkeletonPatched ==
  ASSUME NEW s
  PROVE  /\ BaseConfig(s) = Patch(Skeleton(s), s)
         /\ IsFile(Skeleton(s))
         /\ Skeleton(s).rules = BaseRules(s)
         /\ Skeleton(s).outbounds = BaseOutbounds(s)
         /\ Skeleton(s).servers = BaseServers(s)
         /\ Skeleton(s).dnsRules = BaseDnsRules(s)
         /\ Skeleton(s).ruleSets = BaseRuleSets(s)
<1>1. BaseConfig(s) = Patch(Skeleton(s), s)
  BY DEF BaseConfig, Skeleton, Contents, BaseOutbounds
<1> DEFINE fake == s.fake # "off"
           o == BaseOutbounds(s)
           d == BaseServers(s)
           q == BaseDnsRules(s)
           rs == BaseRuleSets(s)
           r == BaseRules(s)
           fin == s.outbound
           res == Strategy(s)
           ui == s.detour
<1>2. Skeleton(s) = Contents(o, d, q, rs, r, fin, res, ui, fake)
  BY DEF Skeleton
<1> HIDE DEF fake, o, d, q, rs, r, fin, res, ui
<1>3. /\ IsFile(Skeleton(s)) /\ Skeleton(s).rules = r /\ Skeleton(s).outbounds = o
      /\ Skeleton(s).servers = d /\ Skeleton(s).dnsRules = q /\ Skeleton(s).ruleSets = rs
  BY <1>2, ContentsIsFile
<1> QED
  BY <1>1, <1>3 DEF o, d, q, rs, r

\* Adding nodes changes the outbounds only.
WithMembers(outbounds, offered) ==
    [i \in DOMAIN outbounds |-> [outbounds[i] EXCEPT !.members = Members(outbounds[i], offered)]]
Added(outbounds, list) == NodeOutbounds(Tags(outbounds), list)

LEMMA NodesFields ==
  ASSUME NEW f, IsFile(f), NEW list
  PROVE  /\ IsFile(WithNodes(f, list))
         /\ \A field \in Fields \ {"outbounds"} : WithNodes(f, list)[field] = f[field]
         /\ WithNodes(f, list).outbounds =
              WithMembers(f.outbounds, Offered(Added(f.outbounds, list))) \o Added(f.outbounds, list)
<1> DEFINE obs == WithMembers(f.outbounds, Offered(Added(f.outbounds, list)))
                    \o Added(f.outbounds, list)
           w == [f EXCEPT !.outbounds = obs]
<1>0. DOMAIN f = Fields
  BY DEF IsFile
<1>1. WithNodes(f, list) = w
  BY DEF WithNodes, WithMembers, Added
<1> HIDE DEF obs
<1>2. w.outbounds = obs
  BY <1>0 DEF Fields
<1>3. \A field \in Fields \ {"outbounds"} : w[field] = f[field]
  BY <1>0
<1>4. DOMAIN w = Fields /\ w = [field \in DOMAIN w |-> w[field]]
  BY <1>0
<1> HIDE DEF w
<1>5. IsFile(w)
  BY <1>4 DEF IsFile
<1> QED
  BY <1>1, <1>2, <1>3, <1>5 DEF obs

\* A generated file: its rules, for the groups the settings have.
LEMMA GeneratedRules ==
  ASSUME NEW s, s.outbound \in Chosen, s.range \in Ranges, NEW list
  PROVE  /\ IsFile(Generated(s, list))
         /\ RulesOK(Generated(s, list).rules, Staying(GroupSet, s))
<1>1. /\ IsFile(Skeleton(s)) /\ Skeleton(s).rules = BaseRules(s)
      /\ BaseConfig(s) = Patch(Skeleton(s), s)
  BY SkeletonPatched
<1>2. RulesOK(BaseRules(s), GroupSet)
  BY RulesBuilt
<1>3. IsFile(BaseConfig(s)) /\ BaseConfig(s).rules = PatchedRules(Skeleton(s), s)
  BY <1>1, PatchFields
<1>4. RulesOK(BaseConfig(s).rules, Staying(GroupSet, s))
  BY <1>1, <1>2, <1>3, RulesPatched
<1>5. "rules" \in Fields \ {"outbounds"}
  BY DEF Fields
<1>6. IsFile(Generated(s, list)) /\ Generated(s, list).rules = BaseConfig(s).rules
  BY <1>3, <1>5, NodesFields DEF Generated
<1> QED
  BY <1>4, <1>6

\* Changing one setting to one of its values.
LEMMA SettingsKept ==
  ASSUME NEW s \in Settings, NEW field \in DOMAIN Default, NEW value \in Values[field]
  PROVE  [s EXCEPT ![field] = value] \in Settings
<1>1. DOMAIN s = DOMAIN Default /\ s = [x \in DOMAIN s |-> s[x]]
  BY DEF Settings, Default
<1>2. \A x \in DOMAIN Default : s[x] \in Values[x]
  BY DEF Settings, Default, Values
<1> DEFINE t == [s EXCEPT ![field] = value]
<1>3. /\ t = [x \in DOMAIN Default |-> t[x]]
      /\ \A x \in DOMAIN Default : t[x] \in Values[x]
  BY <1>1, <1>2
<1> HIDE DEF t
<1>4. t \in Settings
  BY <1>3 DEF Settings, Default, Values
<1> QED
  BY <1>4 DEF t

LEMMA SettingsFacts ==
  ASSUME NEW s \in Settings
  PROVE  s.outbound \in Chosen /\ s.range \in Ranges /\ s.detour \in {"direct", "manual"}
BY DEF Settings, Chosen

----------------------------------------------------------------------------
(* The custom rules come first, whatever the nodes are called.              *)

FirstInv == /\ settings \in Settings
            /\ userRules \in RuleLists
            /\ HasFile => IsFile(file) /\ RulesOK(file.rules, GroupSet)

LEMMA FirstInit ==
  Init => FirstInv
<1> SUFFICES ASSUME Init PROVE FirstInv
  OBVIOUS
<1>1. settings \in Settings
  BY RangeAssumption DEF Init, Settings, Default
<1>2. userRules \in RuleLists
  BY RuleListsAssumption DEF Init
<1>3. ~HasFile
  BY DEF Init, HasFile
<1> QED
  BY <1>1, <1>2, <1>3 DEF FirstInv

\* Only Init, an import and a change of settings touch the variables FirstInv
\* is about other than through a step of the file alone.
LEMMA FirstImport ==
  ASSUME FirstInv, NEW doc, NEW manual, Import(doc, manual)
  PROVE  FirstInv'
<1>1. PICK list : file' = WithUserRules(Generated(settings, list), userRules, settings)
  BY DEF Import
<1>2. settings' = settings /\ userRules' = userRules
  BY DEF Import
<1>3. settings.outbound \in Chosen /\ settings.range \in Ranges
  BY SettingsFacts DEF FirstInv
<1>4. IsFile(Generated(settings, list)) /\ RulesOK(Generated(settings, list).rules, GroupSet)
  <2>1. Staying(GroupSet, settings) \subseteq GroupSet
    BY DEF Staying
  <2> QED BY <1>3, <2>1, GeneratedRules, RulesWidened
<1>5. IsFile(file') /\ RulesOK(file'.rules, GroupSet)
  BY <1>1, <1>3, <1>4, RulesRewritten DEF FirstInv
<1> QED
  BY <1>2, <1>5 DEF FirstInv

LEMMA FirstSaveSettings ==
  ASSUME FirstInv, NEW field \in Varied, NEW value \in Values[field], SaveSettings(field, value)
  PROVE  FirstInv'
<1>1. settings' \in Settings
  BY SettingsKept, VariedAssumption DEF FirstInv, SaveSettings
<1>2. userRules' = userRules
  BY DEF SaveSettings
<1>3. CASE HasFile
  <2>1. file' = Patch(file, settings') /\ IsFile(file) /\ RulesOK(file.rules, GroupSet)
    BY <1>3 DEF SaveSettings, FirstInv
  <2>2. settings'.outbound \in Chosen /\ settings'.range \in Ranges
    BY <1>1, SettingsFacts
  <2>3. IsFile(file') /\ file'.rules = PatchedRules(file, settings')
    BY <2>1, PatchFields
  <2>4. RulesOK(PatchedRules(file, settings'), Staying(GroupSet, settings'))
    BY <2>1, <2>2, RulesPatched
  <2>5. RulesOK(PatchedRules(file, settings'), GroupSet)
    <3>1. Staying(GroupSet, settings') \subseteq GroupSet
      BY DEF Staying
    <3> QED BY <2>4, <3>1, RulesWidened
  <2> QED BY <1>1, <1>2, <2>3, <2>5 DEF FirstInv
<1>4. CASE ~HasFile
  <2>1. file' = file /\ ~HasFile'
    BY <1>4 DEF SaveSettings, HasFile
  <2> QED BY <1>1, <1>2, <2>1 DEF FirstInv
<1> QED
  BY <1>3, <1>4

LEMMA FirstEditRules ==
  ASSUME FirstInv, NEW list \in RuleLists, EditRules(list)
  PROVE  FirstInv'
<1>1. settings' = settings /\ userRules' \in RuleLists
  BY DEF EditRules
<1>2. CASE HasFile
  <2>1. file' = WithUserRules(file, list, settings) /\ IsFile(file) /\ RulesOK(file.rules, GroupSet)
    BY <1>2 DEF EditRules, FirstInv
  <2>2. settings.outbound \in Chosen
    BY SettingsFacts DEF FirstInv
  <2>3. IsFile(file') /\ RulesOK(file'.rules, GroupSet)
    BY <2>1, <2>2, RulesRewritten
  <2> QED BY <1>1, <2>3 DEF FirstInv
<1>3. CASE ~HasFile
  <2>1. file' = file /\ ~HasFile'
    BY <1>3 DEF EditRules, HasFile
  <2> QED BY <1>1, <2>1 DEF FirstInv
<1> QED
  BY <1>2, <1>3

LEMMA FirstActivate ==
  ASSUME FirstInv, Activate
  PROVE  FirstInv'
<1> DEFINE w == WithUserRules(file, userRules, settings)
<1>1. /\ HasFile /\ file' = Patch(w, settings) /\ settings' = settings /\ userRules' = userRules
      /\ IsFile(file) /\ RulesOK(file.rules, GroupSet) /\ userRules \in RuleLists
  BY DEF Activate, FirstInv
<1>2. settings.outbound \in Chosen /\ settings.range \in Ranges
  BY SettingsFacts DEF FirstInv
<1>3. IsFile(w) /\ RulesOK(w.rules, GroupSet)
  BY <1>1, <1>2, RulesRewritten
<1> HIDE DEF w
<1>4. IsFile(file') /\ file'.rules = PatchedRules(w, settings)
  BY <1>1, <1>3, PatchFields
<1>5. RulesOK(PatchedRules(w, settings), Staying(GroupSet, settings))
  BY <1>2, <1>3, RulesPatched
<1>6. RulesOK(file'.rules, GroupSet)
  <2>1. Staying(GroupSet, settings) \subseteq GroupSet
    BY DEF Staying
  <2> QED BY <1>4, <1>5, <2>1, RulesWidened
<1> QED
  BY <1>1, <1>4, <1>6 DEF FirstInv

\* A change of other fields leaves a file a file.
Changed(f, x, v, y, u) == [f EXCEPT ![x] = v, ![y] = u]

LEMMA OtherFields ==
  ASSUME NEW f, IsFile(f), NEW x \in Fields, NEW v, NEW y \in Fields, NEW u
  PROVE  /\ IsFile(Changed(f, x, v, y, u))
         /\ \A field \in Fields \ {x, y} : Changed(f, x, v, y, u)[field] = f[field]
<1> DEFINE w == Changed(f, x, v, y, u)
<1>1. DOMAIN f = Fields
  BY DEF IsFile
<1> HIDE DEF Fields
<1>2. DOMAIN w = Fields /\ w = [field \in DOMAIN w |-> w[field]]
  BY <1>1 DEF Changed
<1>3. \A field \in Fields \ {x, y} : w[field] = f[field]
  BY <1>1 DEF Changed
<1> HIDE DEF w
<1>4. IsFile(w)
  BY <1>2 DEF IsFile
<1> QED
  BY <1>3, <1>4 DEF w

\* The switches and the start of the kernel write other fields.
LEMMA SwitchedFile ==
  ASSUME IsFile(file),
         \/ \E mode : ToggleMode(mode)
         \/ StartKernel
         \/ \E prefer : ToggleIpVersion(prefer)
  PROVE  /\ IsFile(file')
         /\ \A field \in Fields \ {"mode", "rdrc", "dnsStrategy", "inbounds"} :
              file'[field] = file[field]
<1>1. CASE \E mode : ToggleMode(mode)
  <2>1. PICK mode : ToggleMode(mode)
    BY <1>1
  <2> DEFINE no == FALSE
  <2>2. file' = Changed(file, "mode", mode, "rdrc", no)
    BY <2>1 DEF ToggleMode, Changed
  <2> HIDE DEF no
  <2>3. "mode" \in Fields /\ "rdrc" \in Fields
    BY DEF Fields
  <2> HIDE DEF Fields
  <2>4. IsFile(file') /\ \A field \in Fields \ {"mode", "rdrc"} : file'[field] = file[field]
    BY <2>2, <2>3, OtherFields
  <2> QED BY <2>4
<1>2. CASE StartKernel
  <2>1. PICK i, d : file' = Changed(file, "dnsStrategy", d, "inbounds", i)
    BY <1>2 DEF StartKernel, Changed
  <2>2. "dnsStrategy" \in Fields /\ "inbounds" \in Fields
    BY DEF Fields
  <2> HIDE DEF Fields
  <2>4. /\ IsFile(file')
        /\ \A field \in Fields \ {"dnsStrategy", "inbounds"} : file'[field] = file[field]
    BY <2>1, <2>2, OtherFields
  <2> QED BY <2>4
<1>3. CASE \E prefer : ToggleIpVersion(prefer)
  <2>1. PICK d : file' = [file EXCEPT !["dnsStrategy"] = d]
    BY <1>3 DEF ToggleIpVersion
  <2>2. file' = Changed(file, "dnsStrategy", d, "dnsStrategy", d)
    BY <2>1 DEF Changed
  <2>3. "dnsStrategy" \in Fields
    BY DEF Fields
  <2> HIDE DEF Fields
  <2>4. /\ IsFile(file')
        /\ \A field \in Fields \ {"dnsStrategy", "dnsStrategy"} : file'[field] = file[field]
    BY <2>2, <2>3, OtherFields
  <2> QED BY <2>4
<1> QED
  BY <1>1, <1>2, <1>3

LEMMA FirstSwitch ==
  ASSUME FirstInv,
         \/ \E mode : ToggleMode(mode)
         \/ StartKernel
         \/ \E prefer : ToggleIpVersion(prefer)
  PROVE  FirstInv'
<1>1. HasFile /\ settings' = settings /\ userRules' = userRules
  BY DEF ToggleMode, StartKernel, ToggleIpVersion
<1>2. IsFile(file) /\ RulesOK(file.rules, GroupSet)
  BY <1>1 DEF FirstInv
<1>3. "rules" \in Fields \ {"mode", "rdrc", "dnsStrategy", "inbounds"}
  BY DEF Fields
<1>4. IsFile(file') /\ file'.rules = file.rules
  BY <1>2, <1>3, SwitchedFile
<1> QED
  BY <1>1, <1>2, <1>4 DEF FirstInv

LEMMA FirstNext ==
  FirstInv /\ [Next]_vars => FirstInv'
<1> SUFFICES ASSUME FirstInv, [Next]_vars PROVE FirstInv'
  OBVIOUS
<1>1. ASSUME NEW doc \in Documents, NEW manual \in BOOLEAN, Import(doc, manual) PROVE FirstInv'
  BY <1>1, FirstImport
<1>2. ASSUME NEW field \in Varied, NEW value \in Values[field], SaveSettings(field, value)
      PROVE  FirstInv'
  BY <1>2, FirstSaveSettings
<1>3. ASSUME NEW list \in RuleLists, EditRules(list) PROVE FirstInv'
  BY <1>3, FirstEditRules
<1>4. CASE Activate
  BY <1>4, FirstActivate
<1>5. CASE \/ \E mode \in {"global", "rule"} : ToggleMode(mode)
           \/ StartKernel
           \/ \E prefer \in BOOLEAN : ToggleIpVersion(prefer)
  BY <1>5, FirstSwitch
<1>6. CASE UNCHANGED vars
  BY <1>6 DEF FirstInv, HasFile, vars
<1> QED
  BY <1>1, <1>2, <1>3, <1>4, <1>5, <1>6 DEF Next

LEMMA FirstHolds ==
  FirstInv => UserRulesFirst
<1> SUFFICES ASSUME FirstInv, HasFile PROVE UserRulesFirst
  BY DEF UserRulesFirst
<1>1. Ordered(file.rules) /\ DOMAIN file.rules = 1 .. Len(file.rules)
  BY DEF FirstInv, RulesOK
<1> QED
  BY <1>1 DEF UserRulesFirst, Ordered, Late

\* Whichever documents are imported, settings changed and rules edited, in
\* whatever order, every custom rule in the file is decided before every
\* built-in rule on a rule set or an address.
THEOREM CustomRulesComeFirst ==
  Spec => []UserRulesFirst
<1>1. Spec => []FirstInv
  BY FirstInit, FirstNext, PTL DEF Spec
<1> QED
  BY <1>1, FirstHolds, PTL

----------------------------------------------------------------------------
(* The nodes: tags that are free, and outbounds that are groups or nodes.   *)

IsSeq(s) == s \in Seq(ToSet(s))

LEMMA SeqIs ==
  ASSUME NEW S, NEW s \in Seq(S)
  PROVE  IsSeq(s)
<1>1. \A i \in 1 .. Len(s) : s[i] \in ToSet(s)
  BY DEF ToSet
<1> DEFINE T == ToSet(s)
<1> HIDE DEF T
<1>2. s \in Seq(T)
  BY <1>1, Narrowed DEF T
<1> QED
  BY <1>2 DEF IsSeq, T

LEMMA SeqFacts ==
  ASSUME NEW s, IsSeq(s)
  PROVE  Len(s) \in Nat /\ DOMAIN s = 1 .. Len(s)
BY DEF IsSeq

\* A function over 1 .. n is a sequence.
LEMMA FunctionIs ==
  ASSUME NEW n \in Nat, NEW s, s = [i \in 1 .. n |-> s[i]]
  PROVE  IsSeq(s) /\ Len(s) = n
<1> DEFINE S == {s[i] : i \in 1 .. n}
<1>1. s \in Seq(S) /\ Len(s) = n
  OBVIOUS
<1> HIDE DEF S
<1> QED
  BY <1>1, SeqIs

LEMMA ConcatIs ==
  ASSUME NEW a, IsSeq(a), NEW b, IsSeq(b)
  PROVE  /\ IsSeq(a \o b)
         /\ Len(a \o b) = Len(a) + Len(b)
         /\ \A i \in 1 .. Len(a) : (a \o b)[i] = a[i]
         /\ \A i \in 1 .. Len(b) : (a \o b)[Len(a) + i] = b[i]
<1> DEFINE S == ToSet(a) \cup ToSet(b)
           t == a \o b
<1>1. a \in Seq(S) /\ b \in Seq(S)
  <2>1. a \in Seq(ToSet(a)) /\ b \in Seq(ToSet(b))
    BY DEF IsSeq
  <2>2. \A i \in 1 .. Len(a) : a[i] \in S
    BY <2>1, ElementOfSeq
  <2>3. \A i \in 1 .. Len(b) : b[i] \in S
    BY <2>1, ElementOfSeq
  <2> HIDE DEF S
  <2> QED BY <2>1, <2>2, <2>3, Narrowed
<1> HIDE DEF S
<1>2. /\ t \in Seq(S) /\ Len(t) = Len(a) + Len(b)
      /\ \A i \in 1 .. (Len(a) + Len(b)) : t[i] = IF i <= Len(a) THEN a[i] ELSE b[i - Len(a)]
  BY <1>1, ConcatProperties
<1> HIDE DEF t
<1>3. Len(a) \in Nat /\ Len(b) \in Nat
  BY <1>1
<1>4. \A i \in 1 .. Len(a) : t[i] = a[i]
  BY <1>2, <1>3
<1>5. ASSUME NEW i \in 1 .. Len(b) PROVE t[Len(a) + i] = b[i]
  <2>1. Len(a) + i \in 1 .. (Len(a) + Len(b)) /\ ~(Len(a) + i <= Len(a)) /\ Len(a) + i - Len(a) = i
    BY <1>3
  <2> QED BY <1>2, <2>1
<1>6. IsSeq(t)
  BY <1>2, SeqIs
<1> QED
  BY <1>2, <1>4, <1>5, <1>6 DEF t

\* What holds for the elements of two sequences holds for their concatenation.
LEMMA ConcatEach ==
  ASSUME NEW a, IsSeq(a), NEW b, IsSeq(b), NEW T,
         \A i \in 1 .. Len(a) : a[i] \in T, \A i \in 1 .. Len(b) : b[i] \in T
  PROVE  \A i \in 1 .. Len(a \o b) : (a \o b)[i] \in T
<1> DEFINE t == a \o b
<1>1. /\ Len(t) = Len(a) + Len(b) /\ \A i \in 1 .. Len(a) : t[i] = a[i]
      /\ \A i \in 1 .. Len(b) : t[Len(a) + i] = b[i]
  BY ConcatIs
<1>2. Len(a) \in Nat /\ Len(b) \in Nat
  BY SeqFacts
<1> HIDE DEF t
<1>3. ASSUME NEW i \in 1 .. Len(t) PROVE t[i] \in T
  <2>1. CASE i <= Len(a)
    <3>1. i \in 1 .. Len(a) /\ t[i] = a[i]
      BY <1>1, <1>2, <2>1
    <3> QED BY <3>1
  <2>2. CASE ~(i <= Len(a))
    <3> DEFINE k == i - Len(a)
    <3>1. k \in 1 .. Len(b) /\ i = Len(a) + k
      BY <1>1, <1>2, <2>2
    <3> HIDE DEF k
    <3>2. t[i] = b[k]
      BY <1>1, <3>1
    <3> QED BY <3>1, <3>2
  <2> QED BY <2>1, <2>2
<1> QED
  BY <1>3 DEF t

\* Where the elements come from that Only keeps.
Picks(g, s, P) ==
    /\ g \in [1 .. Len(Only(s, P)) -> 1 .. Len(s)]
    /\ \A i \in 1 .. Len(Only(s, P)) : Only(s, P)[i] = s[g[i]] /\ g[i] \in P
    /\ \A i, j \in 1 .. Len(Only(s, P)) : i < j => g[i] < g[j]
    /\ \A k \in 1 .. Len(s) : k \in P => \E i \in 1 .. Len(Only(s, P)) : g[i] = k

LEMMA OnlyIs ==
  ASSUME NEW s, IsSeq(s), NEW P
  PROVE  IsSeq(Only(s, P)) /\ \E g : Picks(g, s, P)
<1> DEFINE S == ToSet(s)
<1>1. s \in Seq(S)
  BY DEF IsSeq
<1> HIDE DEF S
<1>2. Only(s, P) \in Seq(S)
  BY <1>1, OnlyKeeps
<1>3. \E g \in [1 .. Len(Only(s, P)) -> 1 .. Len(s)] :
         /\ \A i \in 1 .. Len(Only(s, P)) : Only(s, P)[i] = s[g[i]] /\ g[i] \in P
         /\ \A i, j \in 1 .. Len(Only(s, P)) : i < j => g[i] < g[j]
         /\ \A k \in 1 .. Len(s) :
              k \in P => \E i \in 1 .. Len(Only(s, P)) : g[i] = k
  BY <1>1, OnlyKeeps
<1>4. \E g : Picks(g, s, P)
  BY <1>3 DEF Picks
<1> QED
  BY <1>2, <1>4, SeqIs

Counted(raw) == \A j, k \in Nat : Numbered(raw, j) = Numbered(raw, k) => j = k
NamesOf(raw) == {raw} \cup {Numbered(raw, k) : k \in Nat}

\* A node gets a tag that is not taken: among one number more than there are
\* tags, one is free.
LEMMA FreeTagIsFree ==
  ASSUME NEW taken, IsFiniteSet(taken), NEW raw, Counted(raw), NEW idx \in Nat
  PROVE  FreeTag(taken, raw, idx) \in NamesOf(raw) \ taken
<1> DEFINE c == Cardinality(taken)
           free == {k \in 1 .. (c + 1) : Numbered(raw, k) \notin taken}
           least == CHOOSE k \in free : \A other \in free : k <= other
<1>1. c \in Nat
  BY FS_CardinalityType
<1>2. FreeTag(taken, raw, idx) =
        IF raw \notin taken THEN raw
        ELSE IF Numbered(raw, idx) \notin taken THEN Numbered(raw, idx)
        ELSE Numbered(raw, least)
  BY DEF FreeTag
<1>3. free # {}
  <2> SUFFICES ASSUME free = {} PROVE FALSE
    OBVIOUS
  <2> DEFINE T == 1 .. (c + 1)
             f == [k \in T |-> Numbered(raw, k)]
  <2>1. f \in [T -> taken]
    OBVIOUS
  <2>2. IsFiniteSet(T) /\ Cardinality(T) = c + 1
    <3>1. 1 \in Int /\ c + 1 \in Int /\ ~(1 > c + 1) /\ (c + 1) - 1 + 1 = c + 1
      BY <1>1
    <3> QED BY <3>1, FS_Interval
  <2>3. Cardinality(taken) < Cardinality(T)
    BY <1>1, <2>2
  <2>4. \A x, y \in T : f[x] = f[y] => x = y
    BY <1>1 DEF Counted
  <2> HIDE DEF f, T, free, c
  <2>5. \E x, y \in T : x # y /\ f[x] = f[y]
    BY <2>1, <2>2, <2>3, FS_PigeonHole
  <2> QED BY <2>4, <2>5
<1>4. least \in free
  <2>1. free \in SUBSET Nat
    BY <1>1
  <2> HIDE DEF free
  <2>2. \E x \in free : \A y \in free : x <= y
    BY <1>3, <2>1, HasLeast
  <2> QED BY <2>2
<1>5. Numbered(raw, least) \notin taken /\ least \in Nat
  <2> HIDE DEF least
  <2> QED BY <1>1, <1>4
<1> HIDE DEF least
<1>6. \A k \in Nat : Numbered(raw, k) \in NamesOf(raw)
  BY DEF NamesOf
<1>7. raw \in NamesOf(raw)
  BY DEF NamesOf
<1> QED
  BY <1>2, <1>5, <1>6, <1>7

\* The tags of a sequence of outbounds are finitely many.
LEMMA TagsFinite ==
  ASSUME NEW s, IsSeq(s)
  PROVE  IsFiniteSet(Tags(s))
<1> DEFINE D == 1 .. Len(s)
           f == [i \in D |-> s[i].tag]
<1>1. D = DOMAIN s /\ Len(s) \in Nat
  BY SeqFacts
<1>2. IsFiniteSet(D)
  BY <1>1, FS_Interval
<1>3. Tags(s) = {f[i] : i \in D}
  BY <1>1 DEF Tags
<1>4. f \in Surjection(D, Tags(s))
  <2>1. f \in [D -> Tags(s)] /\ \A t \in Tags(s) : \E i \in D : f[i] = t
    BY <1>1 DEF Tags
  <2> QED BY <2>1 DEF Surjection
<1> HIDE DEF D, f
<1> QED
  BY <1>2, <1>4, FS_Surjection

\* A node as an outbound.
NodeAs(tag, server, resolver, dial) ==
    [tag |-> tag, members |-> <<>>, server |-> server, resolver |-> resolver, dial |-> dial]
Resolvers == {"", "dns_resolver"}
NodesOf(node) ==
    {NodeAs(tag, node.server, resolver, node.dial) :
       tag \in NamesOf(node.tag), resolver \in Resolvers}
NodeSet(list) == UNION {NodesOf(list[n]) : n \in 1 .. Len(list)}
Named(list) == Len(list) \in Nat /\ \A n \in 1 .. Len(list) : Counted(list[n].tag)
Distinct(s) == \A i, j \in 1 .. Len(s) : s[i].tag = s[j].tag => i = j

\* f[n] is what the first n nodes have become.
NodeRuns(f, taken, list) ==
    /\ f \in [0 .. Len(list) -> Seq(NodeSet(list))]
    /\ NodeOutbounds(taken, list) = f[Len(list)]
    /\ f[0] = <<>>
    /\ \A n \in 1 .. Len(list) :
         f[n] = Append(f[n - 1], NodeOutbound(taken \cup Tags(f[n - 1]), list[n], n - 1))

\* A group, and a group with other members.
Dress(t, m, s, r) == [tag |-> t, members |-> m, server |-> s, resolver |-> r, dial |-> NoDial]
Filled(ob, m) == [ob EXCEPT !.members = m]

LEMMA Dressed ==
  ASSUME NEW t, NEW m, NEW s, NEW r, NEW m2
  PROVE  Filled(Dress(t, m, s, r), m2) = Dress(t, m2, s, r)
BY DEF Filled, Dress

\* The outbound of the next node has a tag that is not taken.
LEMMA NodeNext ==
  ASSUME NEW taken, IsFiniteSet(taken), NEW list, Named(list),
         NEW n \in 1 .. Len(list), NEW v \in Seq(NodeSet(list))
  PROVE  /\ NodeOutbound(taken \cup Tags(v), list[n], n - 1) \in NodeSet(list)
         /\ NodeOutbound(taken \cup Tags(v), list[n], n - 1).tag \notin taken \cup Tags(v)
<1> DEFINE all == taken \cup Tags(v)
           raw == list[n].tag
           tag == FreeTag(all, raw, n - 1)
           server == list[n].server
           dial == list[n].dial
           resolver == IF IsDomain(server) /\ dial.resolver = "" THEN "dns_resolver" ELSE ""
<1>1. IsFiniteSet(all)
  <2>1. IsFiniteSet(Tags(v))
    BY SeqIs, TagsFinite
  <2> QED BY <2>1, FS_Union
<1>2. tag \in NamesOf(raw) \ all
  <2>1. n - 1 \in Nat /\ Counted(raw)
    BY DEF Named
  <2> HIDE DEF all, raw
  <2> QED BY <1>1, <2>1, FreeTagIsFree
<1>3. NodeOutbound(all, list[n], n - 1) = NodeAs(tag, server, resolver, dial)
  BY DEF NodeOutbound, NodeAs
<1>4. resolver \in Resolvers
  BY DEF Resolvers
<1> HIDE DEF all, tag, resolver
<1>5. NodeAs(tag, server, resolver, dial) \in NodeSet(list)
  <2>1. NodeAs(tag, server, resolver, dial) \in NodesOf(list[n])
    BY <1>2, <1>4 DEF NodesOf
  <2> QED BY <2>1 DEF NodeSet
<1>6. NodeAs(tag, server, resolver, dial).tag = tag
  BY DEF NodeAs
<1> QED
  BY <1>2, <1>3, <1>5, <1>6 DEF all

LEMMA NodeSteps ==
  ASSUME NEW taken, IsFiniteSet(taken), NEW list, Named(list)
  PROVE  \E f : NodeRuns(f, taken, list)
<1> DEFINE V == Seq(NodeSet(list))
           b == Len(list)
           Node1(v, n) == NodeOutbound(taken \cup Tags(v), list[n], n - 1)
           step == [n \in 1 .. b |-> [v \in V |-> Append(v, Node1(v, n))]]
           Next1(f, n) == IF n = 0 THEN <<>>
                          ELSE LET before == f[n - 1] IN
                               Append(before, NodeOutbound(taken \cup Tags(before), list[n], n - 1))
           Is(f) == f = [n \in 0 .. b |-> Next1(f, n)]
           g == CHOOSE f : Is(f)
           first == <<>>
<1>0. b \in Nat /\ first \in V
  BY DEF Named
<1>1. step \in [1 .. b -> [V -> V]]
  <2>1. ASSUME NEW n \in 1 .. b, NEW v \in V PROVE Append(v, Node1(v, n)) \in V
    <3>1. Node1(v, n) \in NodeSet(list)
      BY NodeNext
    <3> HIDE DEF Node1
    <3> QED BY <3>1, AppendProperties
  <2> HIDE DEF V, Node1
  <2> QED BY <2>1
<1>2. PICK f \in [0 .. b -> V] : f[0] = first /\ \A n \in 1 .. b : f[n] = step[n][f[n - 1]]
  <2> HIDE DEF step, V, b, first
  <2> QED BY <1>0, <1>1, Recursion
<1> DEFINE Steps(h) == h[0] = <<>> /\ \A n \in 1 .. b : h[n] = Append(h[n - 1], Node1(h[n - 1], n))
<1>3. Steps(f)
  <2>1. ASSUME NEW n \in 1 .. b PROVE f[n] = Append(f[n - 1], Node1(f[n - 1], n))
    <3> HIDE DEF V, Node1
    <3>1. f[n - 1] \in V
      BY <1>0
    <3>2. f[n] = step[n][f[n - 1]]
      BY <1>2
    <3> QED BY <3>1, <3>2
  <2> HIDE DEF Node1
  <2> QED BY <1>2, <2>1
<1>4. Is(f)
  <2>1. ASSUME NEW n \in 0 .. b PROVE f[n] = Next1(f, n)
    <3>1. CASE n = 0
      BY <1>3, <3>1
    <3>2. CASE n # 0
      <4>1. n \in 1 .. b
        BY <1>0, <3>2
      <4>2. Next1(f, n) = Append(f[n - 1], Node1(f[n - 1], n))
        BY <3>2
      <4> HIDE DEF Next1, Node1
      <4> QED BY <4>1, <4>2, <1>3
    <3> QED BY <3>1, <3>2
  <2> HIDE DEF Next1
  <2> QED BY <2>1
<1>5. Is(g)
  <2> HIDE DEF Is
  <2> QED BY <1>4
<1>6. NodeOutbounds(taken, list) = g[b]
  BY DEF NodeOutbounds
<1> HIDE DEF g
<1>7. DOMAIN g = 0 .. b /\ g = [n \in 0 .. b |-> g[n]] /\ \A n \in 0 .. b : g[n] = Next1(g, n)
  <2> HIDE DEF Next1, b
  <2> QED BY <1>5
<1>8. Steps(g)
  <2>1. g[0] = <<>>
    <3>1. 0 \in 0 .. b
      BY <1>0
    <3> QED BY <3>1, <1>7
  <2>2. ASSUME NEW n \in 1 .. b PROVE g[n] = Append(g[n - 1], Node1(g[n - 1], n))
    <3>1. n \in 0 .. b /\ n # 0
      BY <1>0
    <3>2. Next1(g, n) = Append(g[n - 1], Node1(g[n - 1], n))
      BY <3>1
    <3> HIDE DEF Next1, Node1, b
    <3> QED BY <3>1, <3>2, <1>7
  <2> HIDE DEF Node1
  <2> QED BY <2>1, <2>2
<1>9. \A n \in 0 .. b : g[n] \in V
  <2> DEFINE G == {n \in 0 .. b : g[n] \in V}
  <2> HIDE DEF Node1
  <2>1. 0 \in G
    <3>1. 0 \in 0 .. b /\ g[0] = first
      BY <1>0, <1>8
    <3> HIDE DEF first, V
    <3> QED BY <1>0, <3>1
  <2>2. ASSUME NEW n \in 0 .. (b - 1), n \in G PROVE n + 1 \in G
    <3>1. n + 1 \in 1 .. b /\ (n + 1) - 1 = n /\ g[n] \in V /\ n + 1 \in 0 .. b
      BY <1>0, <2>2
    <3>2. g[n + 1] = Append(g[n], Node1(g[n], n + 1))
      BY <1>8, <3>1
    <3>3. Node1(g[n], n + 1) \in NodeSet(list)
      BY <3>1, NodeNext DEF Node1
    <3>4. g[n + 1] \in V
      BY <3>1, <3>2, <3>3, AppendProperties
    <3> QED BY <3>1, <3>4
  <2> HIDE DEF G, V, b
  <2>3. \A n \in 0 .. (b - 1) : n \in G => n + 1 \in G
    BY <2>2
  <2>4. \A n \in 0 .. b : n \in G
    BY <1>0, <2>1, <2>3, Induction
  <2> QED BY <2>4 DEF G
<1>10. g \in [0 .. b -> V]
  <2> HIDE DEF Next1, V, b
  <2> QED BY <1>7, <1>9
<1>11. NodeRuns(g, taken, list)
  BY <1>6, <1>8, <1>10 DEF NodeRuns
<1> QED
  BY <1>11

\* Every node gets an outbound; their tags differ from each other and from
\* those taken before.
NodesPlaced(new, taken, list) ==
    /\ new \in Seq(NodeSet(list))
    /\ Len(new) = Len(list)
    /\ Distinct(new)
    /\ Tags(new) \cap taken = {}

LEMMA NodesArePlaced ==
  ASSUME NEW taken, IsFiniteSet(taken), NEW list, Named(list)
  PROVE  NodesPlaced(NodeOutbounds(taken, list), taken, list)
<1> DEFINE b == Len(list)
<1>0. b \in Nat /\ 0 \in 0 .. b /\ b \in 0 .. b
  BY DEF Named
<1>1. PICK f : NodeRuns(f, taken, list)
  BY NodeSteps
<1> DEFINE Ok(n) == Len(f[n]) = n /\ Distinct(f[n]) /\ Tags(f[n]) \cap taken = {}
           G == {n \in 0 .. b : Ok(n)}
<1>2. 0 \in G
  <2>1. f[0] = <<>> /\ Len(f[0]) = 0 /\ DOMAIN f[0] = {}
    BY <1>1 DEF NodeRuns
  <2>2. Distinct(f[0]) /\ Tags(f[0]) = {}
    BY <2>1 DEF Distinct, Tags
  <2> QED BY <1>0, <2>1, <2>2
<1>3. ASSUME NEW n \in 0 .. (b - 1), n \in G PROVE n + 1 \in G
  <2> DEFINE m == n + 1
             v == f[n]
             e == NodeOutbound(taken \cup Tags(v), list[m], m - 1)
  <2>1. m \in 1 .. b /\ m - 1 = n /\ m \in 0 .. b /\ n \in 0 .. b /\ n \in Nat /\ b \in Nat
    BY <1>0
  <2>2. v \in Seq(NodeSet(list)) /\ f[m] = Append(v, e)
    BY <1>1, <2>1 DEF NodeRuns
  <2>3. e \in NodeSet(list) /\ e.tag \notin taken \cup Tags(v)
    BY <2>1, <2>2, NodeNext
  <2>4. Len(v) = n /\ Distinct(v) /\ Tags(v) \cap taken = {} /\ DOMAIN v = 1 .. n
    BY <1>3, <2>2
  <2> HIDE DEF e, v, m
  <2>5. /\ Len(f[m]) = m /\ DOMAIN f[m] = 1 .. m /\ f[m][m] = e
        /\ \A i \in 1 .. n : f[m][i] = v[i]
    BY <2>1, <2>2, <2>3, <2>4, AppendProperties
  <2>6. \A i \in 1 .. n : v[i].tag \in Tags(v)
    BY <2>4 DEF Tags
  <2>7. \A i \in 1 .. m : i # m => i \in 1 .. n
    BY <2>1
  <2>8. Distinct(f[m])
    <3>1. ASSUME NEW i \in 1 .. m, NEW j \in 1 .. m, f[m][i].tag = f[m][j].tag PROVE i = j
      <4>1. CASE i = m /\ j = m
        BY <4>1
      <4>2. CASE i = m /\ j # m
        BY <2>3, <2>5, <2>6, <2>7, <3>1, <4>2
      <4>3. CASE i # m /\ j = m
        BY <2>3, <2>5, <2>6, <2>7, <3>1, <4>3
      <4>4. CASE i # m /\ j # m
        BY <2>4, <2>5, <2>7, <3>1, <4>4 DEF Distinct
      <4> QED BY <4>1, <4>2, <4>3, <4>4
    <3> QED BY <2>5, <3>1 DEF Distinct
  <2>9. Tags(f[m]) \cap taken = {}
    <3>1. ASSUME NEW i \in 1 .. m PROVE f[m][i].tag \notin taken
      <4>1. CASE i = m
        BY <2>3, <2>5, <4>1
      <4>2. CASE i # m
        BY <2>4, <2>5, <2>6, <2>7, <4>2
      <4> QED BY <4>1, <4>2
    <3> QED BY <2>5, <3>1 DEF Tags
  <2> QED BY <2>1, <2>5, <2>8, <2>9 DEF m
<1>4. b \in G
  <2> HIDE DEF G, b
  <2>1. \A n \in 0 .. (b - 1) : n \in G => n + 1 \in G
    BY <1>3
  <2>2. \A n \in 0 .. b : n \in G
    BY <1>0, <1>2, <2>1, Induction
  <2> QED BY <1>0, <2>2
<1>5. f[b] \in Seq(NodeSet(list)) /\ NodeOutbounds(taken, list) = f[b]
  BY <1>0, <1>1 DEF NodeRuns
<1> QED
  BY <1>4, <1>5 DEF NodesPlaced

\* The selectors and built-in outbounds every file has.
Fixed == {"auto", "manual", "direct", "block"}
UsableIn(new) == {new[i].tag : i \in {j \in 1 .. Len(new) : Dialable(new[j])}}

\* What a group offers.
Offers(ob, usable) ==
    /\ ob.tag = "auto" => ToSet(ob.members) = IF usable = {} THEN {"direct"} ELSE usable
    /\ ob.tag = "manual" => ToSet(ob.members) = {"auto"} \cup usable
    /\ ob.tag \in GroupSet => ToSet(ob.members) = {"auto", "manual"} \cup usable
    /\ ob.tag \in {"direct", "block"} => ob.members = <<>>
GroupOK(ob, usable) == /\ ob = Dress(ob.tag, ob.members, "", "")
                       /\ ob.tag \in Fixed \cup GroupSet
                       /\ Offers(ob, usable)
NodeOK(ob) == /\ ob.tag \notin Fixed \cup GroupSet
              /\ ob.members = <<>>
              /\ ob.resolver \in Resolvers

\* The outbounds of a file are groups that offer the nodes, and the nodes.
Split(obs, base, new) ==
    /\ obs = base \o new /\ IsSeq(base) /\ IsSeq(new)
    /\ \A i \in 1 .. Len(base) : GroupOK(base[i], UsableIn(new))
    /\ \A i \in 1 .. Len(new) : NodeOK(new[i])
    /\ Distinct(base) /\ Distinct(new)
    /\ Fixed \subseteq Tags(base)
OutboundsOK(obs, k) == \E base, new : Split(obs, base, new) /\ Len(new) = k

LEMMA FixedApart ==
  Fixed \cap GroupSet = {}
BY GroupsAssumption DEF Fixed, GroupSet

LEMMA ConcatSet ==
  ASSUME NEW a, IsSeq(a), NEW b, IsSeq(b)
  PROVE  ToSet(a \o b) = ToSet(a) \cup ToSet(b)
<1> DEFINE t == a \o b
<1>1. /\ IsSeq(t) /\ Len(t) = Len(a) + Len(b) /\ \A i \in 1 .. Len(a) : t[i] = a[i]
      /\ \A i \in 1 .. Len(b) : t[Len(a) + i] = b[i]
  BY ConcatIs
<1> HIDE DEF t
<1>2. /\ Len(a) \in Nat /\ Len(b) \in Nat /\ DOMAIN a = 1 .. Len(a) /\ DOMAIN b = 1 .. Len(b)
      /\ DOMAIN t = 1 .. (Len(a) + Len(b))
  BY <1>1, SeqFacts
<1>3. \A i \in 1 .. Len(a) : i \in DOMAIN t
  BY <1>2
<1>4. \A i \in 1 .. Len(b) : Len(a) + i \in DOMAIN t
  BY <1>2
<1>5. ToSet(a) \subseteq ToSet(t)
  BY <1>1, <1>2, <1>3 DEF ToSet
<1>6. ToSet(b) \subseteq ToSet(t)
  BY <1>1, <1>2, <1>4 DEF ToSet
<1>7. ToSet(t) \subseteq ToSet(a) \cup ToSet(b)
  <2>1. \A i \in 1 .. Len(a) : a[i] \in ToSet(a) \cup ToSet(b)
    BY <1>2 DEF ToSet
  <2>2. \A i \in 1 .. Len(b) : b[i] \in ToSet(a) \cup ToSet(b)
    BY <1>2 DEF ToSet
  <2> DEFINE T == ToSet(a) \cup ToSet(b)
  <2> HIDE DEF T
  <2>3. \A i \in 1 .. Len(t) : t[i] \in T
    BY <2>1, <2>2, ConcatEach DEF T, t
  <2> QED BY <2>3, <1>1, SeqFacts DEF ToSet, T
<1> QED
  BY <1>5, <1>6, <1>7 DEF t

LEMMA ConcatTags ==
  ASSUME NEW a, IsSeq(a), NEW b, IsSeq(b)
  PROVE  /\ Tags(a \o b) = Tags(a) \cup Tags(b)
         /\ Distinct(a) /\ Distinct(b) /\ Tags(a) \cap Tags(b) = {} => Distinct(a \o b)
<1> DEFINE t == a \o b
<1>1. /\ IsSeq(t) /\ Len(t) = Len(a) + Len(b) /\ \A i \in 1 .. Len(a) : t[i] = a[i]
      /\ \A i \in 1 .. Len(b) : t[Len(a) + i] = b[i]
  BY ConcatIs
<1> HIDE DEF t
<1>2. /\ Len(a) \in Nat /\ Len(b) \in Nat /\ DOMAIN a = 1 .. Len(a) /\ DOMAIN b = 1 .. Len(b)
      /\ DOMAIN t = 1 .. (Len(a) + Len(b))
  BY <1>1, SeqFacts
<1>3. \A s : IsSeq(s) => Tags(s) = {ob.tag : ob \in ToSet(s)}
  BY SeqFacts DEF Tags, ToSet
<1>4. Tags(t) = Tags(a) \cup Tags(b)
  <2>1. ToSet(t) = ToSet(a) \cup ToSet(b)
    BY ConcatSet DEF t
  <2> QED BY <1>1, <1>3, <2>1
<1>5. ASSUME Distinct(a), Distinct(b), Tags(a) \cap Tags(b) = {} PROVE Distinct(t)
  <2>1. \A i \in 1 .. Len(a) : a[i].tag \in Tags(a)
    BY <1>2 DEF Tags
  <2>2. \A i \in 1 .. Len(b) : b[i].tag \in Tags(b)
    BY <1>2 DEF Tags
  <2>3. ASSUME NEW i \in 1 .. Len(t), ~(i <= Len(a))
        PROVE  i - Len(a) \in 1 .. Len(b) /\ t[i] = b[i - Len(a)]
    <3> DEFINE k == i - Len(a)
    <3>1. k \in 1 .. Len(b) /\ i = Len(a) + k
      BY <1>1, <1>2, <2>3
    <3> HIDE DEF k
    <3>2. t[i] = b[k]
      BY <1>1, <3>1
    <3> QED BY <3>1, <3>2 DEF k
  <2>4. \A i \in 1 .. Len(t) : i <= Len(a) => i \in 1 .. Len(a)
    BY <1>1, <1>2
  <2>5. ASSUME NEW i \in 1 .. Len(t), NEW j \in 1 .. Len(t), t[i].tag = t[j].tag PROVE i = j
    <3>1. CASE i <= Len(a) /\ j <= Len(a)
      BY <1>1, <1>5, <2>4, <2>5, <3>1 DEF Distinct
    <3>2. CASE i <= Len(a) /\ ~(j <= Len(a))
      <4>1. t[i].tag \in Tags(a) /\ t[j].tag \in Tags(b)
        BY <1>1, <2>1, <2>2, <2>3, <2>4, <3>2
      <4> QED BY <4>1, <1>5, <2>5
    <3>3. CASE ~(i <= Len(a)) /\ j <= Len(a)
      <4>1. t[j].tag \in Tags(a) /\ t[i].tag \in Tags(b)
        BY <1>1, <2>1, <2>2, <2>3, <2>4, <3>3
      <4> QED BY <4>1, <1>5, <2>5
    <3>4. CASE ~(i <= Len(a)) /\ ~(j <= Len(a))
      <4>1. i - Len(a) = j - Len(a)
        BY <1>5, <2>3, <2>5, <3>4 DEF Distinct
      <4> QED BY <1>1, <1>2, <4>1
    <3> QED BY <3>1, <3>2, <3>3, <3>4
  <2> QED BY <2>5 DEF Distinct
<1> QED
  BY <1>4, <1>5 DEF t

\* What Only keeps of outbounds with different tags has different tags.
LEMMA OnlyDistinct ==
  ASSUME NEW s, IsSeq(s), Distinct(s), NEW P
  PROVE  Distinct(Only(s, P)) /\ Tags(Only(s, P)) \subseteq Tags(s)
<1> DEFINE o == Only(s, P)
<1>1. PICK g : Picks(g, s, P)
  BY OnlyIs
<1>2. IsSeq(o)
  BY OnlyIs
<1>3. /\ g \in [1 .. Len(o) -> 1 .. Len(s)]
      /\ \A i \in 1 .. Len(o) : o[i] = s[g[i]]
      /\ \A i, j \in 1 .. Len(o) : i < j => g[i] < g[j]
  BY <1>1 DEF Picks
<1> HIDE DEF o
<1>4. Len(o) \in Nat /\ DOMAIN o = 1 .. Len(o) /\ DOMAIN s = 1 .. Len(s)
  BY <1>2, SeqFacts
<1>5. ASSUME NEW i \in 1 .. Len(o), NEW j \in 1 .. Len(o), o[i].tag = o[j].tag PROVE i = j
  <2>1. g[i] \in 1 .. Len(s) /\ g[j] \in 1 .. Len(s)
    BY <1>3
  <2>2. g[i] = g[j]
    BY <1>3, <1>5, <2>1 DEF Distinct
  <2>3. ~(i < j) /\ ~(j < i)
    BY <1>3, <2>1, <2>2
  <2> QED BY <1>4, <2>3
<1>6. Tags(o) \subseteq Tags(s)
  BY <1>3, <1>4 DEF Tags
<1> QED
  BY <1>5, <1>6 DEF Distinct, o

\* The outbounds of a file without nodes.
LEMMA BaseSplit ==
  ASSUME NEW s
  PROVE  /\ Split(BaseOutbounds(s), BaseOutbounds(s), <<>>)
         /\ s.groups => GroupSet \subseteq Tags(BaseOutbounds(s))
<1> DEFINE auto == Group("auto", <<"direct">>)
           manual == Group("manual", <<"auto">>)
           direct == Group("direct", <<>>)
           block == Group("block", <<>>)
           app == [i \in DOMAIN Groups |-> Group(Groups[i], <<"manual", "auto">>)]
           a == <<auto, manual>>
           b == If(s.groups, app)
           c == <<direct, block>>
           ab == a \o b
           T == {auto, manual, direct, block} \cup {Group(g, <<"manual", "auto">>) : g \in GroupSet}
<1>1. /\ auto.tag = "auto" /\ manual.tag = "manual" /\ direct.tag = "direct" /\ block.tag = "block"
      /\ \A g : Group(g, <<"manual", "auto">>).tag = g
  BY DEF Group
<1>2. BaseOutbounds(s) = ab \o c
  BY DEF BaseOutbounds
<1>3. /\ ToSet(<<"direct">>) = {"direct"} /\ ToSet(<<"auto">>) = {"auto"}
      /\ ToSet(<<"manual", "auto">>) = {"auto", "manual"}
  BY DEF ToSet
<1>4. ASSUME NEW ob \in T PROVE GroupOK(ob, {})
  <2>1. CASE ob = auto
    BY <1>3, <2>1, FixedApart DEF GroupOK, Offers, Group, Dress, Fixed
  <2>2. CASE ob = manual
    BY <1>3, <2>2, FixedApart DEF GroupOK, Offers, Group, Dress, Fixed
  <2>3. CASE ob = direct
    BY <2>3, FixedApart DEF GroupOK, Offers, Group, Dress, Fixed
  <2>4. CASE ob = block
    BY <2>4, FixedApart DEF GroupOK, Offers, Group, Dress, Fixed
  <2>5. CASE ob \in {Group(g, <<"manual", "auto">>) : g \in GroupSet}
    <3>1. PICK g \in GroupSet : ob = Group(g, <<"manual", "auto">>)
      BY <2>5
    <3>2. g \notin Fixed
      BY FixedApart
    <3> DEFINE both == <<"manual", "auto">>
    <3>3. ToSet(both) = {"auto", "manual"} \cup {}
      BY <1>3
    <3> HIDE DEF both
    <3>4. ob = Group(g, both)
      BY <3>1 DEF both
    <3> QED BY <3>2, <3>3, <3>4 DEF GroupOK, Offers, Group, Dress, Fixed
  <2> QED BY <2>1, <2>2, <2>3, <2>4, <2>5
<1>5. /\ auto \in T /\ manual \in T /\ direct \in T /\ block \in T
      /\ \A g \in GroupSet : Group(g, <<"manual", "auto">>) \in T
  OBVIOUS
<1> HIDE DEF auto, manual, direct, block, T
<1>6. /\ IsSeq(a) /\ Len(a) = 2 /\ Tags(a) = {"auto", "manual"} /\ Distinct(a)
      /\ \A i \in 1 .. Len(a) : a[i] \in T
  <2>1. Len(a) = 2 /\ a[1] = auto /\ a[2] = manual /\ a \in Seq({auto, manual})
    OBVIOUS
  <2>2. IsSeq(a)
    <3> HIDE DEF a
    <3> QED BY <2>1, SeqIs
  <2>3. DOMAIN a = 1 .. 2 /\ 1 .. 2 = {1, 2}
    OBVIOUS
  <2> HIDE DEF a
  <2>4. Tags(a) = {"auto", "manual"}
    BY <1>1, <2>1, <2>3 DEF Tags
  <2>5. Distinct(a)
    BY <1>1, <2>1, <2>3 DEF Distinct
  <2>6. \A i \in 1 .. Len(a) : a[i] \in T
    BY <1>5, <2>1, <2>3
  <2> QED BY <2>1, <2>2, <2>4, <2>5, <2>6
<1>7. /\ IsSeq(c) /\ Len(c) = 2 /\ Tags(c) = {"direct", "block"} /\ Distinct(c)
      /\ \A i \in 1 .. Len(c) : c[i] \in T
  <2>1. Len(c) = 2 /\ c[1] = direct /\ c[2] = block /\ c \in Seq({direct, block})
    OBVIOUS
  <2>2. IsSeq(c)
    <3> HIDE DEF c
    <3> QED BY <2>1, SeqIs
  <2>3. DOMAIN c = 1 .. 2 /\ 1 .. 2 = {1, 2}
    OBVIOUS
  <2> HIDE DEF c
  <2>4. Tags(c) = {"direct", "block"}
    BY <1>1, <2>1, <2>3 DEF Tags
  <2>5. Distinct(c)
    BY <1>1, <2>1, <2>3 DEF Distinct
  <2>6. \A i \in 1 .. Len(c) : c[i] \in T
    BY <1>5, <2>1, <2>3
  <2> QED BY <2>1, <2>2, <2>4, <2>5, <2>6
<1>8. /\ IsSeq(b) /\ Tags(b) = (IF s.groups THEN GroupSet ELSE {}) /\ Distinct(b)
      /\ \A i \in 1 .. Len(b) : b[i] \in T
  <2>1. CASE s.groups
    <3>1. b = app
      BY <2>1 DEF If
    <3>2. Len(Groups) \in Nat /\ DOMAIN Groups = 1 .. Len(Groups)
      BY GroupsAssumption
    <3>3. IsSeq(app) /\ Len(app) = Len(Groups)
      <4>1. app = [i \in 1 .. Len(Groups) |-> app[i]]
        BY <3>2
      <4> HIDE DEF app
      <4> QED BY <3>2, <4>1, FunctionIs
    <3>4. \A i \in 1 .. Len(Groups) : /\ app[i] = Group(Groups[i], <<"manual", "auto">>)
                                      /\ Groups[i] \in GroupSet
      BY <3>2 DEF GroupSet
    <3> HIDE DEF app
    <3>5. \A i \in 1 .. Len(app) : app[i] \in T /\ app[i].tag = Groups[i]
      BY <1>1, <1>5, <3>3, <3>4
    <3>6. DOMAIN app = 1 .. Len(app)
      BY <3>3, SeqFacts
    <3>7. Tags(app) = GroupSet
      BY <3>2, <3>3, <3>5, <3>6 DEF Tags, GroupSet
    <3>8. Distinct(app)
      <4>1. ASSUME NEW i \in 1 .. Len(app), NEW j \in 1 .. Len(app), app[i].tag = app[j].tag
            PROVE  i = j
        BY <3>2, <3>3, <3>5, <4>1, GroupsAssumption
      <4> QED BY <4>1 DEF Distinct
    <3> QED BY <2>1, <3>1, <3>3, <3>5, <3>7, <3>8
  <2>2. CASE ~s.groups
    <3>1. b = <<>>
      BY <2>2 DEF If
    <3> HIDE DEF b
    <3>2. Len(b) = 0 /\ b \in Seq({}) /\ DOMAIN b = {}
      BY <3>1
    <3>3. IsSeq(b)
      BY <3>2, SeqIs
    <3>4. Tags(b) = {} /\ Distinct(b)
      BY <3>2 DEF Tags, Distinct
    <3> QED BY <2>2, <3>2, <3>3, <3>4
  <2> QED BY <2>1, <2>2
<1> HIDE DEF a, b, c
<1>9. /\ IsSeq(ab) /\ Tags(ab) = Tags(a) \cup Tags(b) /\ Distinct(ab)
      /\ \A i \in 1 .. Len(ab) : ab[i] \in T
  <2>1. Tags(a) \cap Tags(b) = {}
    BY <1>6, <1>8, FixedApart DEF Fixed
  <2>2. \A i \in 1 .. Len(ab) : ab[i] \in T
    BY <1>6, <1>8, ConcatEach
  <2> QED BY <1>6, <1>8, <2>1, <2>2, ConcatIs, ConcatTags
<1> HIDE DEF ab
<1> DEFINE all == ab \o c
<1>10. /\ IsSeq(all) /\ Tags(all) = Tags(ab) \cup Tags(c) /\ Distinct(all)
       /\ \A i \in 1 .. Len(all) : all[i] \in T
  <2>1. Tags(ab) \cap Tags(c) = {}
    BY <1>6, <1>7, <1>8, <1>9, FixedApart DEF Fixed
  <2>2. \A i \in 1 .. Len(all) : all[i] \in T
    BY <1>7, <1>9, ConcatEach
  <2> QED BY <1>7, <1>9, <2>1, <2>2, ConcatIs, ConcatTags
<1>11. Fixed \subseteq Tags(all) /\ (s.groups => GroupSet \subseteq Tags(all))
  BY <1>6, <1>7, <1>8, <1>9, <1>10 DEF Fixed
<1> HIDE DEF all
<1> DEFINE none == <<>>
<1>12. IsSeq(none) /\ Len(none) = 0 /\ all \o none = all
  <2>1. none \in Seq({}) /\ Len(none) = 0
    OBVIOUS
  <2>2. IsSeq(none)
    BY <2>1, SeqIs
  <2>3. all \o <<>> = all
    <3>1. all \in Seq(ToSet(all))
      BY <1>10 DEF IsSeq
    <3> QED BY <3>1, ConcatEmptySeq
  <2> QED BY <2>1, <2>2, <2>3
<1> HIDE DEF none
<1>13. UsableIn(none) = {} /\ Distinct(none)
  BY <1>12 DEF UsableIn, Distinct
<1>14. Split(all, all, none)
  BY <1>4, <1>10, <1>11, <1>12, <1>13 DEF Split
<1> QED
  BY <1>2, <1>11, <1>14 DEF all, none

\* A patch keeps the selectors and the nodes, and the groups that stay.
KeptPositions(obs, s) == {i \in DOMAIN obs : obs[i].tag \in GroupSet => s.groups}

LEMMA OutboundsPatched ==
  ASSUME NEW obs, NEW k, OutboundsOK(obs, k), NEW s
  PROVE  /\ OutboundsOK(Only(obs, KeptPositions(obs, s)), k)
         /\ Staying(GroupSet \cap Tags(obs), s) \subseteq Tags(Only(obs, KeptPositions(obs, s)))
<1> DEFINE P == KeptPositions(obs, s)
           out == Only(obs, P)
<1>1. PICK base, new : Split(obs, base, new) /\ Len(new) = k
  BY DEF OutboundsOK
<1>2. /\ obs = base \o new /\ IsSeq(base) /\ IsSeq(new)
      /\ \A i \in 1 .. Len(base) : GroupOK(base[i], UsableIn(new))
      /\ \A i \in 1 .. Len(new) : NodeOK(new[i])
      /\ Distinct(base) /\ Distinct(new) /\ Fixed \subseteq Tags(base)
  BY <1>1 DEF Split
<1>3. /\ IsSeq(obs) /\ Len(obs) = Len(base) + Len(new)
      /\ \A i \in 1 .. Len(base) : obs[i] = base[i]
      /\ \A i \in 1 .. Len(new) : obs[Len(base) + i] = new[i]
  BY <1>2, ConcatIs
<1>4. /\ Len(base) \in Nat /\ Len(new) \in Nat /\ DOMAIN base = 1 .. Len(base)
      /\ DOMAIN new = 1 .. Len(new) /\ DOMAIN obs = 1 .. (Len(base) + Len(new))
  BY <1>2, <1>3, SeqFacts
<1>5. Covers(P, base, new)
  <2>1. ASSUME NEW n \in 1 .. Len(new) PROVE Len(base) + n \in P
    <3>1. Len(base) + n \in DOMAIN obs
      BY <1>4
    <3>2. obs[Len(base) + n].tag \notin GroupSet
      BY <1>2, <1>3 DEF NodeOK
    <3> QED BY <3>1, <3>2 DEF KeptPositions
  <2> QED BY <2>1 DEF Covers
<1> DEFINE kept == Only(base, P)
<1>6. out = kept \o new
  <2> DEFINE S == ToSet(base) \cup ToSet(new)
  <2>1. base \in Seq(ToSet(base)) /\ new \in Seq(ToSet(new))
    BY <1>2 DEF IsSeq
  <2>2. base \in Seq(S) /\ new \in Seq(S)
    <3>1. \A i \in 1 .. Len(base) : base[i] \in S
      BY <2>1, ElementOfSeq
    <3>2. \A i \in 1 .. Len(new) : new[i] \in S
      BY <2>1, ElementOfSeq
    <3> HIDE DEF S
    <3> QED BY <2>1, <3>1, <3>2, Narrowed
  <2> HIDE DEF S, P
  <2> QED BY <1>2, <1>5, <2>2, OnlyConcat
<1>7. IsSeq(kept) /\ Distinct(kept) /\ Tags(kept) \subseteq Tags(base)
  <2> HIDE DEF P
  <2> QED BY <1>2, OnlyIs, OnlyDistinct
<1>8. PICK g : Picks(g, base, P)
  <2> HIDE DEF P
  <2> QED BY <1>2, OnlyIs
<1>9. /\ \A i \in 1 .. Len(kept) : g[i] \in 1 .. Len(base) /\ kept[i] = base[g[i]]
      /\ \A n \in 1 .. Len(base) : n \in P => \E i \in 1 .. Len(kept) : g[i] = n
  BY <1>8 DEF Picks
<1> HIDE DEF kept
<1>10. \A i \in 1 .. Len(kept) : GroupOK(kept[i], UsableIn(new))
  BY <1>2, <1>9
<1>11. ASSUME NEW t \in Tags(base), t \in GroupSet => s.groups PROVE t \in Tags(kept)
  <2>1. PICK n \in 1 .. Len(base) : base[n].tag = t
    BY <1>4 DEF Tags
  <2>2. n \in P
    <3>1. n \in DOMAIN obs /\ obs[n].tag = t
      BY <1>3, <1>4, <2>1
    <3> QED BY <1>11, <3>1 DEF KeptPositions
  <2>3. PICK i \in 1 .. Len(kept) : g[i] = n
    BY <1>9, <2>2
  <2>4. kept[i].tag = t /\ i \in DOMAIN kept
    BY <1>7, <1>9, <2>1, <2>3, SeqFacts
  <2> QED BY <2>4 DEF Tags
<1>12. Fixed \subseteq Tags(kept)
  BY <1>2, <1>11, FixedApart
<1> HIDE DEF out
<1>13. Split(out, kept, new)
  BY <1>2, <1>6, <1>7, <1>10, <1>12 DEF Split
<1>14. OutboundsOK(out, k)
  BY <1>1, <1>13 DEF OutboundsOK
<1>15. Tags(obs) = Tags(base) \cup Tags(new) /\ Tags(out) = Tags(kept) \cup Tags(new)
  BY <1>2, <1>6, <1>7, ConcatTags
<1>16. Staying(GroupSet \cap Tags(obs), s) \subseteq Tags(out)
  <2>1. ASSUME NEW t \in Staying(GroupSet \cap Tags(obs), s) PROVE t \in Tags(out)
    <3>1. t \in GroupSet /\ t \in Tags(obs) /\ s.groups
      BY <2>1 DEF Staying
    <3> QED BY <1>11, <1>15, <3>1
  <2> QED BY <2>1
<1> QED
  BY <1>14, <1>16 DEF out

\* No node gets the name of an application group.
Apart(list) == \A n \in 1 .. Len(list) : NamesOf(list[n].tag) \cap GroupSet = {}

\* Every group is given the nodes that can be dialled.
LEMMA OfferedIsUsable ==
  ASSUME NEW new, IsSeq(new)
  PROVE  /\ IsSeq(Offered(new)) /\ ToSet(Offered(new)) = UsableIn(new)
         /\ Offered(new) = <<>> <=> UsableIn(new) = {}
<1> DEFINE P == {i \in DOMAIN new : Dialable(new[i])}
           usable == Only(new, P)
           offered == [i \in DOMAIN usable |-> usable[i].tag]
<1>1. Offered(new) = offered
  BY DEF Offered
<1>2. PICK g : Picks(g, new, P)
  <2> HIDE DEF P
  <2> QED BY OnlyIs
<1>3. IsSeq(usable)
  <2> HIDE DEF P
  <2> QED BY OnlyIs
<1>4. /\ \A i \in 1 .. Len(usable) : g[i] \in 1 .. Len(new) /\ usable[i] = new[g[i]] /\ g[i] \in P
      /\ \A n \in 1 .. Len(new) : n \in P => \E i \in 1 .. Len(usable) : g[i] = n
  <2> HIDE DEF P
  <2> QED BY <1>2 DEF Picks
<1> HIDE DEF usable
<1>5. Len(usable) \in Nat /\ DOMAIN usable = 1 .. Len(usable) /\ DOMAIN new = 1 .. Len(new)
  BY <1>3, SeqFacts
<1>6. IsSeq(offered) /\ Len(offered) = Len(usable)
  <2>1. offered = [i \in 1 .. Len(usable) |-> offered[i]]
    BY <1>5
  <2> HIDE DEF offered
  <2> QED BY <1>5, <2>1, FunctionIs
<1>7. ToSet(offered) = {usable[i].tag : i \in 1 .. Len(usable)}
  BY <1>5 DEF ToSet
<1>8. ToSet(offered) = UsableIn(new)
  <2>1. ASSUME NEW i \in 1 .. Len(usable) PROVE usable[i].tag \in UsableIn(new)
    BY <1>4, <1>5 DEF UsableIn
  <2>2. ASSUME NEW n \in 1 .. Len(new), Dialable(new[n])
        PROVE  new[n].tag \in {usable[i].tag : i \in 1 .. Len(usable)}
    BY <1>4, <1>5, <2>2
  <2> QED BY <1>7, <2>1, <2>2 DEF UsableIn
<1>9. offered = <<>> <=> ToSet(offered) = {}
  <2> HIDE DEF offered
  <2>1. Len(offered) \in Nat /\ DOMAIN offered = 1 .. Len(offered)
    BY <1>6, SeqFacts
  <2>2. CASE Len(offered) = 0
    <3>1. offered = <<>>
      BY <1>6, <2>2 DEF IsSeq
    <3>2. ToSet(offered) = {}
      BY <2>1, <2>2 DEF ToSet
    <3> QED BY <3>1, <3>2
  <2>3. CASE Len(offered) # 0
    <3>1. 1 \in DOMAIN offered
      BY <2>1, <2>3
    <3>2. offered # <<>>
      BY <2>3
    <3>3. ToSet(offered) # {}
      BY <3>1 DEF ToSet
    <3> QED BY <3>2, <3>3
  <2> QED BY <2>2, <2>3
<1> HIDE DEF offered
<1> QED
  BY <1>1, <1>6, <1>8, <1>9

\* A group with the nodes in it.
LEMMA GroupFilled ==
  ASSUME NEW ob, GroupOK(ob, {}), NEW new, IsSeq(new)
  PROVE  /\ GroupOK([ob EXCEPT !.members = Members(ob, Offered(new))], UsableIn(new))
         /\ [ob EXCEPT !.members = Members(ob, Offered(new))].tag = ob.tag
<1> DEFINE offered == Offered(new)
           m == Members(ob, offered)
           blank == ""
           tag == ob.tag
           w == [ob EXCEPT !.members = m]
           one == <<"auto">>
           two == <<"manual", "auto">>
<1>1. /\ IsSeq(offered) /\ ToSet(offered) = UsableIn(new)
      /\ offered = <<>> <=> UsableIn(new) = {}
  BY OfferedIsUsable
<1>2. ob = Dress(tag, ob.members, blank, blank) /\ tag \in Fixed \cup GroupSet /\ Offers(ob, {})
  BY DEF GroupOK
<1>3. w = Dress(tag, m, blank, blank)
  <2>1. w = Filled(ob, m)
    BY DEF Filled
  <2> HIDE DEF w, m, blank, tag
  <2> QED BY <1>2, <2>1, Dressed
<1>4. w.tag = tag /\ w.members = m
  <2> HIDE DEF w, m, blank, tag
  <2> QED BY <1>3 DEF Dress
<1>5. /\ IsSeq(one) /\ ToSet(one) = {"auto"}
      /\ IsSeq(two) /\ ToSet(two) = {"auto", "manual"}
  <2>1. one \in Seq({"auto"}) /\ two \in Seq({"auto", "manual"})
    OBVIOUS
  <2>2. ToSet(one) = {"auto"} /\ ToSet(two) = {"auto", "manual"}
    BY DEF ToSet
  <2> HIDE DEF one, two
  <2> QED BY <2>1, <2>2, SeqIs
<1>6. /\ ToSet(one \o offered) = {"auto"} \cup UsableIn(new)
      /\ ToSet(two \o offered) = {"auto", "manual"} \cup UsableIn(new)
  <2> HIDE DEF one, two, offered
  <2> QED BY <1>1, <1>5, ConcatSet
<1>7. tag = "auto" => ToSet(m) = IF UsableIn(new) = {} THEN {"direct"} ELSE UsableIn(new)
  <2> SUFFICES ASSUME tag = "auto"
               PROVE  ToSet(m) = IF UsableIn(new) = {} THEN {"direct"} ELSE UsableIn(new)
    OBVIOUS
  <2> DEFINE direct == <<"direct">>
  <2>1. m = IF offered = <<>> THEN direct ELSE offered
    BY DEF Members
  <2>2. ToSet(direct) = {"direct"}
    BY DEF ToSet
  <2> HIDE DEF m, offered, direct
  <2> QED BY <1>1, <2>1, <2>2
<1>8. tag = "manual" => m = one \o offered
  BY DEF Members
<1>9. tag \in GroupSet => m = two \o offered
  BY FixedApart DEF Members, Fixed
<1>10. tag \in {"direct", "block"} => m = <<>>
  <2> SUFFICES ASSUME tag \in {"direct", "block"} PROVE m = <<>>
    OBVIOUS
  <2>1. tag # "auto" /\ tag # "manual" /\ tag \notin GroupSet
    BY FixedApart DEF Fixed
  <2>2. m = ob.members
    BY <2>1 DEF Members
  <2> QED BY <1>2, <2>2 DEF Offers
<1> HIDE DEF m, w, one, two, offered, tag
<1>11. Offers(w, UsableIn(new))
  BY <1>4, <1>6, <1>7, <1>8, <1>9, <1>10 DEF Offers
<1>12. GroupOK(w, UsableIn(new))
  BY <1>2, <1>3, <1>4, <1>11 DEF GroupOK
<1> QED
  BY <1>4, <1>12 DEF w, m, offered, tag

\* An import fills the groups of a new file and adds the nodes.
Result(obs, list) == WithMembers(obs, Offered(Added(obs, list))) \o Added(obs, list)

LEMMA NodesAdded ==
  ASSUME NEW obs, OutboundsOK(obs, 0), NEW list, Named(list), Apart(list)
  PROVE  OutboundsOK(Result(obs, list), Len(list)) /\ Tags(obs) \subseteq Tags(Result(obs, list))
<1> DEFINE new == Added(obs, list)
           filled == WithMembers(obs, Offered(new))
<1>1. /\ IsSeq(obs) /\ Distinct(obs) /\ Fixed \subseteq Tags(obs)
      /\ \A i \in 1 .. Len(obs) : GroupOK(obs[i], {})
  <2>1. PICK base, none : Split(obs, base, none) /\ Len(none) = 0
    BY DEF OutboundsOK
  <2>2. none = <<>> /\ IsSeq(base)
    <3>1. none \in Seq(ToSet(none)) /\ IsSeq(base)
      BY <2>1 DEF Split, IsSeq
    <3> QED BY <2>1, <3>1, EmptySeq
  <2>3. obs = base
    <3>1. base \in Seq(ToSet(base)) /\ obs = base \o <<>>
      BY <2>1, <2>2 DEF Split, IsSeq
    <3> QED BY <3>1, ConcatEmptySeq
  <2>4. UsableIn(none) = {}
    BY <2>1 DEF UsableIn
  <2> QED BY <2>1, <2>2, <2>3, <2>4 DEF Split
<1>2. NodesPlaced(new, Tags(obs), list)
  BY <1>1, TagsFinite, NodesArePlaced DEF Added
<1> HIDE DEF new
<1>3. /\ new \in Seq(NodeSet(list)) /\ IsSeq(new) /\ Len(new) = Len(list)
      /\ Distinct(new) /\ Tags(new) \cap Tags(obs) = {}
  BY <1>2, SeqIs DEF NodesPlaced
<1>4. /\ Len(new) \in Nat /\ DOMAIN new = 1 .. Len(new)
      /\ Len(obs) \in Nat /\ DOMAIN obs = 1 .. Len(obs)
  BY <1>1, <1>3, SeqFacts
<1>5. ASSUME NEW i \in 1 .. Len(new) PROVE NodeOK(new[i])
  <2>1. PICK n \in 1 .. Len(list) :
               \E tag \in NamesOf(list[n].tag), resolver \in Resolvers :
                  new[i] = NodeAs(tag, list[n].server, resolver, list[n].dial)
    <3>1. new[i] \in NodeSet(list)
      BY <1>3, ElementOfSeq
    <3>2. PICK n \in 1 .. Len(list) : new[i] \in NodesOf(list[n])
      BY <3>1 DEF NodeSet
    <3>3. \E tag \in NamesOf(list[n].tag), resolver \in Resolvers :
             new[i] = NodeAs(tag, list[n].server, resolver, list[n].dial)
      BY <3>2 DEF NodesOf
    <3> QED BY <3>3
  <2>2. PICK tag \in NamesOf(list[n].tag), resolver \in Resolvers :
               new[i] = NodeAs(tag, list[n].server, resolver, list[n].dial)
    BY <2>1
  <2>3. new[i].tag = tag /\ new[i].members = <<>> /\ new[i].resolver \in Resolvers
    BY <2>2 DEF NodeAs
  <2>4. tag \notin GroupSet
    BY <2>2 DEF Apart
  <2>5. tag \notin Fixed
    <3>1. new[i].tag \in Tags(new)
      BY <1>4 DEF Tags
    <3> QED BY <1>1, <1>3, <2>3, <3>1
  <2> QED BY <2>3, <2>4, <2>5 DEF NodeOK
<1>6. /\ IsSeq(filled) /\ Len(filled) = Len(obs)
      /\ \A i \in 1 .. Len(obs) :
           filled[i] = [obs[i] EXCEPT !.members = Members(obs[i], Offered(new))]
  <2>1. filled = [i \in 1 .. Len(obs) |-> filled[i]]
    BY <1>4 DEF WithMembers
  <2>2. \A i \in 1 .. Len(obs) :
           filled[i] = [obs[i] EXCEPT !.members = Members(obs[i], Offered(new))]
    BY <1>4 DEF WithMembers
  <2> HIDE DEF filled
  <2>3. IsSeq(filled) /\ Len(filled) = Len(obs)
    BY <1>4, <2>1, FunctionIs
  <2> QED BY <2>2, <2>3
<1> HIDE DEF filled
<1>7. \A i \in 1 .. Len(obs) : GroupOK(filled[i], UsableIn(new)) /\ filled[i].tag = obs[i].tag
  <2>1. ASSUME NEW i \in 1 .. Len(obs)
        PROVE  GroupOK(filled[i], UsableIn(new)) /\ filled[i].tag = obs[i].tag
    <3> DEFINE w == [obs[i] EXCEPT !.members = Members(obs[i], Offered(new))]
    <3>1. GroupOK(w, UsableIn(new)) /\ w.tag = obs[i].tag
      BY <1>1, <1>3, GroupFilled
    <3>2. filled[i] = w
      BY <1>6
    <3> HIDE DEF w
    <3> QED BY <3>1, <3>2
  <2> QED BY <2>1
<1>8. DOMAIN filled = 1 .. Len(obs)
  BY <1>6, SeqFacts
<1>9. Tags(filled) = Tags(obs)
  BY <1>4, <1>7, <1>8 DEF Tags
<1>10. Distinct(filled)
  BY <1>1, <1>6, <1>7 DEF Distinct
<1> DEFINE out == filled \o new
<1>11. Split(out, filled, new)
  BY <1>1, <1>3, <1>5, <1>6, <1>7, <1>9, <1>10 DEF Split
<1>12. Tags(out) = Tags(filled) \cup Tags(new)
  BY <1>3, <1>6, ConcatTags
<1>13. Result(obs, list) = out
  BY DEF Result, filled, new
<1> HIDE DEF out
<1>14. OutboundsOK(out, Len(list))
  BY <1>3, <1>11 DEF OutboundsOK
<1> QED
  BY <1>9, <1>12, <1>13, <1>14

----------------------------------------------------------------------------
(* DNS servers, DNS rules and rule sets.                                    *)

ServerTags == {"dns_proxy", "dns_cn", "dns_resolver"}
ServerOK(d) == /\ d.tag \in ServerTags \cup {"dns_fakeip"}
               /\ d.detour \in {""} \cup Chosen
               /\ d.resolver # <<>> => d.resolver[1] = "dns_resolver" /\ d.tag # "dns_resolver"
ServersOK(servers) == /\ IsSeq(servers)
                      /\ \A i \in 1 .. Len(servers) : ServerOK(servers[i])
                      /\ ServerTags \subseteq Tags(servers)

LEMMA EmptyIs ==
  IsSeq(<<>>) /\ Len(<<>>) = 0
<1> DEFINE e == <<>>
<1>1. e \in Seq({}) /\ Len(e) = 0
  OBVIOUS
<1> HIDE DEF e
<1>2. IsSeq(e)
  BY <1>1, SeqIs
<1> QED
  BY <1>1, <1>2 DEF e

\* A sequence of one element.
LEMMA OneIs ==
  ASSUME NEW x
  PROVE  IsSeq(<<x>>) /\ Len(<<x>>) = 1 /\ <<x>>[1] = x
<1> DEFINE u == <<x>>
<1>1. u \in Seq({x}) /\ Len(u) = 1 /\ u[1] = x
  OBVIOUS
<1> HIDE DEF u
<1>2. IsSeq(u)
  BY <1>1, SeqIs
<1> QED
  BY <1>1, <1>2 DEF u

LEMMA ServerBuilt ==
  ASSUME NEW s, s.outbound \in Chosen, NEW tag \in ServerTags, NEW address,
         address = "domain" => tag # "dns_resolver"
  PROVE  ServerOK(ServerFor(tag, address, s)) /\ ServerFor(tag, address, s).tag = tag
<1> DEFINE d == ServerFor(tag, address, s)
<1>1. /\ d.tag = tag /\ d.detour \in {""} \cup Chosen
      /\ d.resolver = IF address = "domain" THEN <<"dns_resolver", Strategy(s)>> ELSE <<>>
  BY DEF ServerFor
<1> HIDE DEF d
<1>2. address # "domain" => d.resolver = <<>>
  BY <1>1
<1>3. address = "domain" => d.resolver[1] = "dns_resolver"
  <2> DEFINE pair == <<"dns_resolver", Strategy(s)>>
  <2>1. pair[1] = "dns_resolver"
    OBVIOUS
  <2>2. address = "domain" => d.resolver = pair
    BY <1>1
  <2> HIDE DEF pair
  <2> QED BY <2>1, <2>2
<1> QED
  BY <1>1, <1>2, <1>3 DEF ServerOK, d

LEMMA FakeServerOK ==
  ASSUME NEW s
  PROVE  ServerOK(FakeServer(s)) /\ FakeServer(s).tag = "dns_fakeip"
BY DEF ServerOK, FakeServer

\* The fake DNS server goes last.
LEMMA FakeServerAdded ==
  ASSUME NEW servers, ServersOK(servers), NEW s
  PROVE  /\ ServersOK(servers \o If(s.fake # "off", <<FakeServer(s)>>))
         /\ s.fake # "off" =>
              "dns_fakeip" \in Tags(servers \o If(s.fake # "off", <<FakeServer(s)>>))
<1>1. /\ IsSeq(servers) /\ ServerTags \subseteq Tags(servers)
      /\ \A i \in 1 .. Len(servers) : ServerOK(servers[i])
  BY DEF ServersOK
<1>2. CASE s.fake # "off"
  <2> DEFINE u == <<FakeServer(s)>>
             T == {d \in ToSet(servers) \cup {FakeServer(s)} : ServerOK(d)}
  <2>1. IsSeq(u) /\ Len(u) = 1 /\ u[1] = FakeServer(s)
    BY OneIs
  <2>2. If(s.fake # "off", u) = u
    BY <1>2 DEF If
  <2> HIDE DEF u
  <2>3. \A i \in 1 .. Len(servers) : servers[i] \in T
    BY <1>1, SeqFacts DEF ToSet
  <2>4. \A i \in 1 .. Len(u) : u[i] \in T
    BY <2>1, FakeServerOK
  <2> HIDE DEF T
  <2>5. \A i \in 1 .. Len(servers \o u) : (servers \o u)[i] \in T
    BY <1>1, <2>1, <2>3, <2>4, ConcatEach
  <2>6. \A i \in 1 .. Len(servers \o u) : ServerOK((servers \o u)[i])
    BY <2>5 DEF T
  <2>7. IsSeq(servers \o u) /\ Tags(servers \o u) = Tags(servers) \cup Tags(u)
    BY <1>1, <2>1, ConcatIs, ConcatTags
  <2>8. "dns_fakeip" \in Tags(u)
    <3>1. 1 \in DOMAIN u /\ u[1].tag = "dns_fakeip"
      BY <2>1, SeqFacts, FakeServerOK
    <3> QED BY <3>1 DEF Tags
  <2>9. ServersOK(servers \o u) /\ "dns_fakeip" \in Tags(servers \o u)
    BY <1>1, <2>6, <2>7, <2>8 DEF ServersOK
  <2> QED BY <2>2, <2>9 DEF u
<1>3. CASE s.fake = "off"
  <2>1. If(s.fake # "off", <<FakeServer(s)>>) = <<>>
    BY <1>3 DEF If
  <2>2. servers \o <<>> = servers
    <3>1. servers \in Seq(ToSet(servers))
      BY <1>1 DEF IsSeq
    <3> QED BY <3>1, ConcatEmptySeq
  <2> QED BY <1>3, <2>1, <2>2
<1> QED
  BY <1>2, <1>3

LEMMA ServersPatched ==
  ASSUME NEW servers, ServersOK(servers), NEW s, s.outbound \in Chosen
  PROVE  /\ ServersOK(PatchedServers(servers, s))
         /\ s.fake # "off" => "dns_fakeip" \in Tags(PatchedServers(servers, s))
<1> DEFINE rebuilt == [i \in DOMAIN servers |->
              LET tag == servers[i].tag IN
              IF IsFakeServer(servers[i]) \/ AddressOf(tag, s) = "bad" THEN servers[i]
              ELSE ServerFor(tag, AddressOf(tag, s), s)]
           P == {i \in DOMAIN rebuilt : ~IsFakeServer(rebuilt[i])}
           kept == Only(rebuilt, P)
<1>1. PatchedServers(servers, s) = kept \o If(s.fake # "off", <<FakeServer(s)>>)
  BY DEF PatchedServers
<1>2. /\ IsSeq(servers) /\ ServerTags \subseteq Tags(servers)
      /\ \A i \in 1 .. Len(servers) : ServerOK(servers[i])
  BY DEF ServersOK
<1>3. Len(servers) \in Nat /\ DOMAIN servers = 1 .. Len(servers)
  BY <1>2, SeqFacts
<1>4. ASSUME NEW i \in 1 .. Len(servers)
      PROVE  ServerOK(rebuilt[i]) /\ rebuilt[i].tag = servers[i].tag
  <2>1. CASE IsFakeServer(servers[i]) \/ AddressOf(servers[i].tag, s) = "bad"
    <3>1. rebuilt[i] = servers[i]
      BY <1>3, <2>1
    <3> HIDE DEF rebuilt
    <3> QED BY <1>2, <3>1
  <2>2. CASE ~(IsFakeServer(servers[i]) \/ AddressOf(servers[i].tag, s) = "bad")
    <3> DEFINE tag == servers[i].tag
               address == AddressOf(tag, s)
    <3>1. rebuilt[i] = ServerFor(tag, address, s)
      BY <1>3, <2>2
    <3>2. tag \in ServerTags
      BY <1>2, <2>2 DEF ServerOK, IsFakeServer
    <3>3. address = "domain" => tag # "dns_resolver"
      BY DEF AddressOf
    <3> HIDE DEF rebuilt, tag, address
    <3>4. ServerOK(rebuilt[i]) /\ rebuilt[i].tag = tag
      BY <3>1, <3>2, <3>3, ServerBuilt
    <3> QED BY <3>4 DEF tag
  <2> QED BY <2>1, <2>2
<1>5. IsSeq(rebuilt) /\ Len(rebuilt) = Len(servers) /\ DOMAIN rebuilt = 1 .. Len(servers)
  <2>1. rebuilt = [i \in 1 .. Len(servers) |-> rebuilt[i]]
    BY <1>3
  <2> HIDE DEF rebuilt
  <2>2. IsSeq(rebuilt) /\ Len(rebuilt) = Len(servers)
    BY <1>3, <2>1, FunctionIs
  <2> QED BY <2>2, SeqFacts
<1> HIDE DEF rebuilt
<1>6. PICK g : Picks(g, rebuilt, P)
  <2> HIDE DEF P
  <2> QED BY <1>5, OnlyIs
<1>7. IsSeq(kept)
  <2> HIDE DEF P
  <2> QED BY <1>5, OnlyIs
<1>8. /\ \A i \in 1 .. Len(kept) : g[i] \in 1 .. Len(servers) /\ kept[i] = rebuilt[g[i]]
      /\ \A n \in 1 .. Len(servers) : n \in P => \E i \in 1 .. Len(kept) : g[i] = n
  <2> HIDE DEF P
  <2> QED BY <1>5, <1>6 DEF Picks
<1> HIDE DEF kept
<1>9. \A i \in 1 .. Len(kept) : ServerOK(kept[i])
  BY <1>4, <1>8
<1>10. ServerTags \subseteq Tags(kept)
  <2>1. ASSUME NEW t \in ServerTags PROVE t \in Tags(kept)
    <3>1. PICK n \in 1 .. Len(servers) : servers[n].tag = t
      BY <1>2, <1>3 DEF Tags
    <3>2. n \in P
      BY <1>4, <1>5, <3>1 DEF IsFakeServer, ServerTags
    <3>3. PICK i \in 1 .. Len(kept) : g[i] = n
      BY <1>8, <3>2
    <3>4. kept[i].tag = t /\ i \in DOMAIN kept
      BY <1>4, <1>7, <1>8, <3>1, <3>3, SeqFacts
    <3> QED BY <3>4 DEF Tags
  <2> QED BY <2>1
<1>11. ServersOK(kept)
  BY <1>7, <1>9, <1>10 DEF ServersOK
<1> QED
  BY <1>1, <1>11, FakeServerAdded

LEMMA ServersBuilt ==
  ASSUME NEW s, s.outbound \in Chosen
  PROVE  /\ ServersOK(BaseServers(s))
         /\ s.fake # "off" => "dns_fakeip" \in Tags(BaseServers(s))
<1> DEFINE names == <<"dns_proxy", "dns_cn", "dns_resolver">>
           F(i) == ServerFor(names[i],
                     IF AddressOf(names[i], s) = "bad" THEN "ip" ELSE AddressOf(names[i], s), s)
           three == [i \in 1 .. 3 |-> F(i)]
<1>1. BaseServers(s) = three \o If(s.fake # "off", <<FakeServer(s)>>)
  BY DEF BaseServers
<1>2. names[1] = "dns_proxy" /\ names[2] = "dns_cn" /\ names[3] = "dns_resolver"
  OBVIOUS
<1>3. ASSUME NEW i \in 1 .. 3 PROVE names[i] \in ServerTags
  <2>1. i = 1 \/ i = 2 \/ i = 3
    OBVIOUS
  <2> HIDE DEF names
  <2> QED BY <1>2, <2>1 DEF ServerTags
<1> HIDE DEF names
<1>4. ASSUME NEW i \in 1 .. 3 PROVE ServerOK(F(i)) /\ F(i).tag = names[i]
  <2> DEFINE tag == names[i]
             address == IF AddressOf(tag, s) = "bad" THEN "ip" ELSE AddressOf(tag, s)
  <2>1. address = "domain" => tag # "dns_resolver"
    BY DEF AddressOf
  <2>2. tag \in ServerTags
    BY <1>3
  <2>3. F(i) = ServerFor(tag, address, s)
    OBVIOUS
  <2> HIDE DEF tag, address, F
  <2>4. ServerOK(F(i)) /\ F(i).tag = tag
    BY <2>1, <2>2, <2>3, ServerBuilt
  <2> QED BY <2>4 DEF tag
<1> HIDE DEF F
<1>5. IsSeq(three) /\ Len(three) = 3 /\ \A i \in 1 .. 3 : three[i] = F(i)
  <2>1. three = [i \in 1 .. 3 |-> three[i]] /\ \A i \in 1 .. 3 : three[i] = F(i)
    OBVIOUS
  <2> HIDE DEF three
  <2> QED BY <2>1, FunctionIs
<1> HIDE DEF three
<1>6. DOMAIN three = 1 .. 3
  BY <1>5, SeqFacts
<1>7. ServerTags \subseteq Tags(three)
  <2>1. /\ 1 \in DOMAIN three /\ three[1].tag = "dns_proxy"
        /\ 2 \in DOMAIN three /\ three[2].tag = "dns_cn"
        /\ 3 \in DOMAIN three /\ three[3].tag = "dns_resolver"
    BY <1>2, <1>4, <1>5, <1>6
  <2> QED BY <2>1 DEF ServerTags, Tags
<1>8. ServersOK(three)
  BY <1>4, <1>5, <1>7 DEF ServersOK
<1> QED
  BY <1>1, <1>8, FakeServerAdded

Targets == {"dns_cn", "dns_proxy", "reject"}
AllTargets == Targets \cup {"dns_fakeip"}
DnsConditions == {"rule_set", "mode-direct", "mode-global", "address"}
DnsSets == {{}, {"ads"}, {"notcn"}, {"cn", "geoip-cn"}}
DnsRules(T) == {Own(on, sets, to) : on \in DnsConditions, sets \in DnsSets, to \in T}
\* The fake DNS rule is there only while fake DNS is on.
DnsTargets(s) == Targets \cup (IF s.fake = "off" THEN {} ELSE {"dns_fakeip"})

LEMMA DnsRuleFacts ==
  ASSUME NEW T, NEW r \in DnsRules(T)
  PROVE  r = Own(r.on, r.sets, r.to) /\ r.on \in DnsConditions /\ r.sets \in DnsSets /\ r.to \in T
BY DEF DnsRules, Own

\* A smaller set of targets.
LEMMA DnsNarrowed ==
  ASSUME NEW T, NEW U, NEW r \in DnsRules(T), r.to \in U
  PROVE  r \in DnsRules(U)
<1>1. r = Own(r.on, r.sets, r.to) /\ r.on \in DnsConditions /\ r.sets \in DnsSets
  BY DnsRuleFacts
<1> QED
  BY <1>1 DEF DnsRules

LEMMA FakeDnsRuleOK ==
  ASSUME NEW s
  PROVE  FakeDnsRule(s) \in DnsRules({"dns_fakeip"})
<1> DEFINE global == On("address", "dns_fakeip")
           other == [Matching({"notcn"}, "dns_fakeip") EXCEPT !.on = "address"]
<1>1. FakeDnsRule(s) = IF s.fake = "global" THEN global ELSE other
  BY DEF FakeDnsRule
<1>2. global \in DnsRules({"dns_fakeip"})
  <2>1. global = Own("address", {}, "dns_fakeip")
    BY DEF On, Own
  <2>2. "address" \in DnsConditions /\ {} \in DnsSets
    BY DEF DnsConditions, DnsSets
  <2> HIDE DEF global
  <2> QED BY <2>1, <2>2 DEF DnsRules
<1>3. other \in DnsRules({"dns_fakeip"})
  <2>1. other = Own("address", {"notcn"}, "dns_fakeip")
    <3> DEFINE on == "rule_set"
               sets == {"notcn"}
               to == "dns_fakeip"
               address == "address"
               user == FALSE
               r == [on |-> on, sets |-> sets, to |-> to, user |-> user]
               q == [sets |-> sets, to |-> to, user |-> user, on |-> address]
    <3>1. Matching(sets, to) = r
      BY DEF Matching
    <3>2. Own(address, sets, to) = [on |-> address, sets |-> sets, to |-> to, user |-> user]
      BY DEF Own
    <3> HIDE DEF on, sets, to, address, user
    <3>3. [r EXCEPT !.on = address] = q
      OBVIOUS
    <3>4. q = [on |-> address, sets |-> sets, to |-> to, user |-> user]
      OBVIOUS
    <3>5. other = [r EXCEPT !.on = address]
      BY <3>1 DEF sets, to, address
    <3> HIDE DEF r, q, other
    <3>6. other = Own(address, sets, to)
      BY <3>2, <3>3, <3>4, <3>5
    <3> QED BY <3>6 DEF sets, to, address
  <2>2. "address" \in DnsConditions /\ {"notcn"} \in DnsSets
    BY DEF DnsConditions, DnsSets
  <2> HIDE DEF other
  <2> QED BY <2>1, <2>2 DEF DnsRules
<1> HIDE DEF global, other
<1> QED
  BY <1>1, <1>2, <1>3

\* Synchronizing the fake DNS rule.
LEMMA FakeRuleSynced ==
  ASSUME NEW rules \in Seq(DnsRules(AllTargets)), NEW s
  PROVE  WithFakeDnsRules(rules, s) \in Seq(DnsRules(DnsTargets(s)))
<1> DEFINE P == {i \in DOMAIN rules : rules[i].to # "dns_fakeip"}
           kept == Only(rules, P)
           I == {i \in 1 .. Len(kept) : kept[i].sets = {"notcn"}}
           position == IF I # {} THEN Min(I) ELSE 0
           D == DnsRules(DnsTargets(s))
<1>1. WithFakeDnsRules(rules, s) =
        CASE s.fake = "off" -> kept
          [] s.fake = "proxy_only" /\ position # 0 -> InsertAt(kept, position, FakeDnsRule(s))
          [] OTHER -> Append(kept, FakeDnsRule(s))
  BY DEF WithFakeDnsRules, SelectInSeq
<1>2. kept \in Seq(D)
  <2>1. kept \in Seq(DnsRules(AllTargets))
    <3> HIDE DEF P
    <3> QED BY OnlyKeeps
  <2>2. PICK g \in [1 .. Len(kept) -> 1 .. Len(rules)] :
               \A i \in 1 .. Len(kept) : kept[i] = rules[g[i]] /\ g[i] \in P
    <3> HIDE DEF P
    <3> QED BY OnlyKeeps
  <2> HIDE DEF kept
  <2>3. ASSUME NEW i \in 1 .. Len(kept) PROVE kept[i] \in D
    <3>1. kept[i] \in DnsRules(AllTargets) /\ kept[i].to # "dns_fakeip"
      BY <2>1, <2>2, ElementOfSeq
    <3>2. kept[i].to \in DnsTargets(s)
      BY <3>1, DnsRuleFacts DEF AllTargets, DnsTargets
    <3> QED BY <3>1, <3>2, DnsNarrowed
  <2> HIDE DEF D
  <2> QED BY <2>1, <2>3, Narrowed
<1> HIDE DEF kept
<1>3. position \in 0 .. Len(kept)
  <2>1. I \in SUBSET (1 .. Len(kept)) /\ Len(kept) \in Nat
    BY <1>2
  <2> HIDE DEF I
  <2> QED BY <2>1, FirstPosition
<1> HIDE DEF position
<1>4. s.fake # "off" => FakeDnsRule(s) \in D
  <2>1. s.fake # "off" => "dns_fakeip" \in DnsTargets(s)
    BY DEF DnsTargets
  <2>2. FakeDnsRule(s) \in DnsRules({"dns_fakeip"}) /\ FakeDnsRule(s).to = "dns_fakeip"
    BY FakeDnsRuleOK, DnsRuleFacts
  <2> QED BY <2>1, <2>2, DnsNarrowed
<1> HIDE DEF D
<1>5. s.fake # "off" => Append(kept, FakeDnsRule(s)) \in Seq(D)
  BY <1>2, <1>4, AppendProperties
<1>6. s.fake # "off" /\ position # 0 => InsertAt(kept, position, FakeDnsRule(s)) \in Seq(D)
  <2>1. position # 0 => position \in 1 .. (Len(kept) + 1)
    BY <1>2, <1>3
  <2> QED BY <1>2, <1>4, <2>1, Inserted
<1> QED
  BY <1>1, <1>2, <1>5, <1>6 DEF D

LEMMA AdsDnsOK ==
  Ads \in DnsRules(AllTargets)
<1>1. Ads = Own("rule_set", {"ads"}, "reject")
  BY DEF Ads, Matching, Own
<1>2. "rule_set" \in DnsConditions /\ {"ads"} \in DnsSets /\ "reject" \in AllTargets
  BY DEF DnsConditions, DnsSets, AllTargets, Targets
<1> QED
  BY <1>1, <1>2 DEF DnsRules

LEMMA DnsRulesPatched ==
  ASSUME NEW rules \in Seq(DnsRules(AllTargets)), NEW s
  PROVE  PatchedDnsRules(rules, s) \in Seq(DnsRules(DnsTargets(s)))
<1> DEFINE D == DnsRules(AllTargets)
           I == {i \in 1 .. Len(rules) : rules[i].sets = {"ads"}}
           ads == IF I # {} THEN Min(I) ELSE 0
           rejecting == [rules EXCEPT ![ads].to = "reject"]
           synced == CASE s.ads /\ ads = 0  -> <<Ads>> \o rules
                       [] s.ads /\ ads # 0  -> rejecting
                       [] ~s.ads /\ ads # 0 -> RemoveAt(rules, ads)
                       [] OTHER             -> rules
<1>1. PatchedDnsRules(rules, s) = WithFakeDnsRules(synced, s)
  BY DEF PatchedDnsRules, SelectInSeq
<1>2. Len(rules) \in Nat /\ rules \in Seq(D) /\ DOMAIN rules = 1 .. Len(rules)
  OBVIOUS
<1>3. ads \in 0 .. Len(rules)
  <2>1. I \in SUBSET (1 .. Len(rules))
    OBVIOUS
  <2> HIDE DEF I
  <2> QED BY <1>2, <2>1, FirstPosition
<1> HIDE DEF ads
<1>4. <<Ads>> \o rules \in Seq(D)
  <2>1. <<Ads>> \in Seq(D)
    BY AdsDnsOK
  <2> HIDE DEF D
  <2> QED BY <1>2, <2>1, Joined
<1>5. ads # 0 => rejecting \in Seq(D)
  <2> SUFFICES ASSUME ads # 0 PROVE rejecting \in Seq(D)
    OBVIOUS
  <2> DEFINE r == rules[ads]
             no == "reject"
             q == [r EXCEPT !.to = no]
  <2>1. ads \in 1 .. Len(rules)
    BY <1>2, <1>3
  <2>2. r = Own(r.on, r.sets, r.to) /\ r.on \in DnsConditions /\ r.sets \in DnsSets
    BY <1>2, <2>1, ElementOfSeq, DnsRuleFacts
  <2>3. q = Own(r.on, r.sets, no)
    <3> DEFINE on == r.on
               sets == r.sets
               to == r.to
    <3>1. r = Own(on, sets, to)
      BY <2>2
    <3> HIDE DEF on, sets, to, no, r
    <3>2. [r EXCEPT !.to = no] = Own(on, sets, no)
      BY <3>1, Retargeted
    <3> QED BY <3>2 DEF on, sets
  <2>4. q \in D
    <3>1. no \in AllTargets
      BY DEF AllTargets, Targets
    <3> HIDE DEF q, r, no
    <3> QED BY <2>2, <2>3, <3>1 DEF DnsRules
  <2>5. rejecting = [rules EXCEPT ![ads] = q]
    OBVIOUS
  <2> HIDE DEF q, D, rejecting
  <2> QED BY <1>2, <2>1, <2>4, <2>5, ExceptSeq
<1>6. ads # 0 => RemoveAt(rules, ads) \in Seq(D)
  <2>1. ads # 0 => ads \in 1 .. Len(rules)
    BY <1>2, <1>3
  <2> HIDE DEF D
  <2> QED BY <1>2, <2>1, Removed
<1> HIDE DEF D, rejecting
<1>7. synced \in Seq(D)
  BY <1>2, <1>4, <1>5, <1>6
<1> HIDE DEF synced
<1> QED
  BY <1>1, <1>7, FakeRuleSynced DEF D

LEMMA DnsRulesBuilt ==
  ASSUME NEW s
  PROVE  BaseDnsRules(s) \in Seq(DnsRules(DnsTargets(s)))
<1> DEFINE D == DnsRules(AllTargets)
           a == <<On("mode-direct", "dns_cn"), On("mode-global", "dns_proxy")>>
           b == If(s.ads, <<Ads>>)
           c == <<Matching({"cn", "geoip-cn"}, "dns_cn"), Matching({"notcn"}, "dns_proxy")>>
           all == a \o b \o c
<1>1. BaseDnsRules(s) = WithFakeDnsRules(all, s)
  BY DEF BaseDnsRules
<1>2. a \in Seq(D)
  <2>1. /\ On("mode-direct", "dns_cn") = Own("mode-direct", {}, "dns_cn")
        /\ On("mode-global", "dns_proxy") = Own("mode-global", {}, "dns_proxy")
    BY DEF On, Own
  <2>2. /\ "mode-direct" \in DnsConditions /\ "mode-global" \in DnsConditions /\ {} \in DnsSets
        /\ "dns_cn" \in AllTargets /\ "dns_proxy" \in AllTargets
    BY DEF DnsConditions, DnsSets, AllTargets, Targets
  <2>3. On("mode-direct", "dns_cn") \in D /\ On("mode-global", "dns_proxy") \in D
    BY <2>1, <2>2 DEF DnsRules
  <2> HIDE DEF D
  <2> QED BY <2>3
<1>3. b \in Seq(D)
  <2>1. <<Ads>> \in Seq(D) /\ <<>> \in Seq(D)
    BY AdsDnsOK
  <2> QED BY <2>1 DEF If
<1>4. c \in Seq(D)
  <2>1. /\ Matching({"cn", "geoip-cn"}, "dns_cn") = Own("rule_set", {"cn", "geoip-cn"}, "dns_cn")
        /\ Matching({"notcn"}, "dns_proxy") = Own("rule_set", {"notcn"}, "dns_proxy")
    BY DEF Matching, Own
  <2>2. /\ "rule_set" \in DnsConditions /\ {"cn", "geoip-cn"} \in DnsSets /\ {"notcn"} \in DnsSets
        /\ "dns_cn" \in AllTargets /\ "dns_proxy" \in AllTargets
    BY DEF DnsConditions, DnsSets, AllTargets, Targets
  <2>3. /\ Matching({"cn", "geoip-cn"}, "dns_cn") \in D
        /\ Matching({"notcn"}, "dns_proxy") \in D
    BY <2>1, <2>2 DEF DnsRules
  <2> HIDE DEF D
  <2> QED BY <2>3
<1> HIDE DEF a, b, c, D
<1>5. all \in Seq(D)
  BY <1>2, <1>3, <1>4, Joined
<1> HIDE DEF all
<1> QED
  BY <1>1, <1>5, FakeRuleSynced DEF D

\* Rule sets are downloaded directly or through the selector.
RuleSetOK(rs) == /\ rs = [tag |-> rs.tag, detour |-> rs.detour]
                 /\ rs.detour \in {"direct", "manual"}
RuleSetsOK(sets) == IsSeq(sets) /\ \A i \in 1 .. Len(sets) : RuleSetOK(sets[i])

LEMMA RuleSetsPatched ==
  ASSUME NEW sets, RuleSetsOK(sets), NEW s, s.detour \in {"direct", "manual"}
  PROVE  RuleSetsOK(PatchedRuleSets(sets, s))
<1> DEFINE P == {i \in DOMAIN sets : /\ sets[i].tag = "ads" => s.ads
                                     /\ sets[i].tag \in GroupSet => s.groups}
           kept == Only(sets, P)
           out == [i \in DOMAIN kept |-> [kept[i] EXCEPT !.detour = s.detour]]
<1>1. PatchedRuleSets(sets, s) = out
  BY DEF PatchedRuleSets
<1>2. IsSeq(sets) /\ \A i \in 1 .. Len(sets) : RuleSetOK(sets[i])
  BY DEF RuleSetsOK
<1>3. PICK g : Picks(g, sets, P)
  <2> HIDE DEF P
  <2> QED BY <1>2, OnlyIs
<1>4. IsSeq(kept)
  <2> HIDE DEF P
  <2> QED BY <1>2, OnlyIs
<1>5. \A i \in 1 .. Len(kept) : g[i] \in 1 .. Len(sets) /\ kept[i] = sets[g[i]]
  <2> HIDE DEF P
  <2> QED BY <1>3 DEF Picks
<1> HIDE DEF kept
<1>6. Len(kept) \in Nat /\ DOMAIN kept = 1 .. Len(kept)
  BY <1>4, SeqFacts
<1>7. ASSUME NEW i \in 1 .. Len(kept) PROVE RuleSetOK(out[i])
  <2> DEFINE t == kept[i].tag
             d == kept[i].detour
             e == s.detour
  <2>1. kept[i] = [tag |-> t, detour |-> d]
    BY <1>2, <1>5 DEF RuleSetOK
  <2>2. out[i] = [kept[i] EXCEPT !.detour = e]
    BY <1>6
  <2> HIDE DEF t, d, e, out
  <2>3. [[tag |-> t, detour |-> d] EXCEPT !.detour = e] = [tag |-> t, detour |-> e]
    OBVIOUS
  <2>4. out[i] = [tag |-> t, detour |-> e]
    BY <2>1, <2>2, <2>3
  <2>5. out[i].tag = t /\ out[i].detour = e
    BY <2>4
  <2>6. e \in {"direct", "manual"}
    BY DEF e
  <2> QED BY <2>4, <2>5, <2>6 DEF RuleSetOK
<1>8. IsSeq(out) /\ Len(out) = Len(kept)
  <2>1. out = [i \in 1 .. Len(kept) |-> out[i]]
    BY <1>6
  <2> HIDE DEF out
  <2> QED BY <1>6, <2>1, FunctionIs
<1> HIDE DEF out
<1> QED
  BY <1>1, <1>7, <1>8 DEF RuleSetsOK

LEMMA RuleSetsBuilt ==
  ASSUME NEW s, s.detour \in {"direct", "manual"}
  PROVE  RuleSetsOK(BaseRuleSets(s))
<1> DEFINE a == If(s.ads, <<"ads">>)
           b == <<"cn", "notcn">>
           c == If(s.groups, Groups)
           d == <<"private", "geoip-cn">>
           tags == a \o b \o c \o d
           out == [i \in DOMAIN tags |->
                     [tag |-> tags[i], detour |-> IF tags[i] = "private" THEN "direct" ELSE s.detour]]
<1>1. BaseRuleSets(s) = out
  BY DEF BaseRuleSets
<1>2. IsSeq(a) /\ IsSeq(b) /\ IsSeq(c) /\ IsSeq(d)
  <2> DEFINE one == <<"ads">>
  <2>1. one \in Seq({"ads"}) /\ b \in Seq({"cn", "notcn"}) /\ d \in Seq({"private", "geoip-cn"})
    OBVIOUS
  <2> HIDE DEF one, b, d
  <2>2. IsSeq(one) /\ IsSeq(b) /\ IsSeq(d) /\ IsSeq(Groups)
    BY <2>1, SeqIs, GroupsAssumption
  <2>3. a = one \/ a = <<>>
    BY DEF If, one
  <2>4. c = Groups \/ c = <<>>
    BY DEF If
  <2> HIDE DEF a, c
  <2> QED BY <2>2, <2>3, <2>4, EmptyIs
<1> HIDE DEF a, b, c, d
<1>3. IsSeq(tags)
  <2> DEFINE ab == a \o b
             abc == ab \o c
  <2>1. IsSeq(ab)
    BY <1>2, ConcatIs
  <2> HIDE DEF ab
  <2>2. IsSeq(abc)
    BY <1>2, <2>1, ConcatIs
  <2> HIDE DEF abc
  <2>3. IsSeq(abc \o d)
    BY <1>2, <2>2, ConcatIs
  <2> QED BY <2>3 DEF abc, ab
<1>4. Len(tags) \in Nat /\ DOMAIN tags = 1 .. Len(tags)
  BY <1>3, SeqFacts
<1> HIDE DEF tags
<1>5. ASSUME NEW i \in 1 .. Len(tags) PROVE RuleSetOK(out[i])
  <2> DEFINE t == tags[i]
             e == IF t = "private" THEN "direct" ELSE s.detour
  <2>1. out[i] = [tag |-> t, detour |-> e]
    BY <1>4
  <2>2. e \in {"direct", "manual"}
    OBVIOUS
  <2> HIDE DEF t, e, out
  <2>3. out[i].tag = t /\ out[i].detour = e
    BY <2>1
  <2> QED BY <2>1, <2>2, <2>3 DEF RuleSetOK
<1>6. IsSeq(out) /\ Len(out) = Len(tags)
  <2>1. out = [i \in 1 .. Len(tags) |-> out[i]]
    BY <1>4
  <2> HIDE DEF out
  <2> QED BY <1>4, <2>1, FunctionIs
<1> HIDE DEF out
<1> QED
  BY <1>1, <1>5, <1>6 DEF RuleSetsOK

----------------------------------------------------------------------------
(* A whole file: everything it refers to is in it.                          *)

DnsRulesOK(rules, servers) ==
    /\ rules \in Seq(DnsRules(AllTargets))
    /\ \A i \in 1 .. Len(rules) : rules[i].to = "dns_fakeip" => "dns_fakeip" \in Tags(servers)

\* A file with k nodes.
FileOK(f, k) ==
    /\ IsFile(f)
    /\ OutboundsOK(f.outbounds, k)
    /\ RulesOK(f.rules, GroupSet \cap Tags(f.outbounds))
    /\ ServersOK(f.servers)
    /\ DnsRulesOK(f.dnsRules, f.servers)
    /\ RuleSetsOK(f.ruleSets)
    /\ f.final \in Chosen
    /\ f.uiDetour \in {"direct", "manual"}

SettingsOK(s) == s.outbound \in Chosen /\ s.range \in Ranges /\ s.detour \in {"direct", "manual"}

\* The fake DNS rule goes with the fake DNS server.
LEMMA DnsPaired ==
  ASSUME NEW s, NEW q \in Seq(DnsRules(DnsTargets(s))), NEW servers,
         s.fake # "off" => "dns_fakeip" \in Tags(servers)
  PROVE  DnsRulesOK(q, servers)
<1> DEFINE U == DnsTargets(s)
<1>1. ASSUME NEW i \in 1 .. Len(q) PROVE q[i] \in DnsRules(AllTargets) /\ q[i].to \in U
  <2>1. q[i] \in DnsRules(U) /\ q[i].to \in U
    BY ElementOfSeq, DnsRuleFacts
  <2>2. q[i].to \in AllTargets
    BY <2>1 DEF DnsTargets, AllTargets
  <2> HIDE DEF U
  <2> QED BY <2>1, <2>2, DnsNarrowed
<1>2. ASSUME NEW i \in 1 .. Len(q), q[i].to = "dns_fakeip" PROVE s.fake # "off"
  <2>1. q[i].to \in U
    BY <1>1
  <2> QED BY <1>2, <2>1 DEF DnsTargets, Targets
<1>3. q \in Seq(DnsRules(AllTargets))
  <2> HIDE DEF U
  <2> QED BY <1>1, Narrowed
<1> HIDE DEF U
<1> QED
  BY <1>2, <1>3 DEF DnsRulesOK

\* Patching settings in.
LEMMA FilePatched ==
  ASSUME NEW f, NEW k, FileOK(f, k), NEW s, SettingsOK(s)
  PROVE  /\ FileOK(Patch(f, s), k)
         /\ Patch(f, s).outbounds = Only(f.outbounds, KeptPositions(f.outbounds, s))
<1> DEFINE p == Patch(f, s)
           obs == Only(f.outbounds, KeptPositions(f.outbounds, s))
           G == GroupSet \cap Tags(f.outbounds)
<1>1. /\ IsFile(p)
      /\ p.rules = PatchedRules(f, s)
      /\ p.servers = PatchedServers(f.servers, s)
      /\ p.dnsRules = PatchedDnsRules(f.dnsRules, s)
      /\ p.ruleSets = PatchedRuleSets(f.ruleSets, s)
      /\ p.outbounds = obs
      /\ p.final = s.outbound
      /\ p.uiDetour = s.detour
  BY PatchFields DEF FileOK, KeptPositions
<1> HIDE DEF p
<1>2. OutboundsOK(obs, k) /\ Staying(G, s) \subseteq Tags(obs)
  BY OutboundsPatched DEF FileOK
<1>3. RulesOK(PatchedRules(f, s), Staying(G, s))
  BY RulesPatched DEF FileOK, SettingsOK
<1>4. Staying(G, s) \subseteq GroupSet \cap Tags(obs)
  <2>1. Staying(G, s) \subseteq GroupSet
    BY DEF Staying
  <2> HIDE DEF obs, G
  <2> QED BY <1>2, <2>1
<1> HIDE DEF obs, G
<1>5. RulesOK(PatchedRules(f, s), GroupSet \cap Tags(obs))
  <2> DEFINE H == Staying(G, s)
             K == GroupSet \cap Tags(obs)
             rules == PatchedRules(f, s)
  <2> HIDE DEF H, K, rules
  <2>1. RulesOK(rules, K)
    BY <1>3, <1>4, RulesWidened DEF H, K, rules
  <2> QED BY <2>1 DEF K, rules
<1>6. ServersOK(PatchedServers(f.servers, s))
  BY ServersPatched DEF FileOK, SettingsOK
<1>7. DnsRulesOK(PatchedDnsRules(f.dnsRules, s), PatchedServers(f.servers, s))
  <2>1. PatchedDnsRules(f.dnsRules, s) \in Seq(DnsRules(DnsTargets(s)))
    BY DnsRulesPatched DEF FileOK, DnsRulesOK
  <2>2. s.fake # "off" => "dns_fakeip" \in Tags(PatchedServers(f.servers, s))
    BY ServersPatched DEF FileOK, SettingsOK
  <2> QED BY <2>1, <2>2, DnsPaired
<1>8. RuleSetsOK(PatchedRuleSets(f.ruleSets, s))
  BY RuleSetsPatched DEF FileOK, SettingsOK
<1>9. FileOK(p, k)
  BY <1>1, <1>2, <1>5, <1>6, <1>7, <1>8 DEF FileOK, SettingsOK
<1> QED
  BY <1>1, <1>9 DEF p, obs

\* A file whose other fields change.
LEMMA FileKept ==
  ASSUME NEW f, NEW k, FileOK(f, k), NEW w, IsFile(w),
         \A field \in Fields \ {"mode", "rdrc", "dnsStrategy", "inbounds"} : w[field] = f[field]
  PROVE  FileOK(w, k)
<1>1. /\ w.outbounds = f.outbounds /\ w.rules = f.rules /\ w.servers = f.servers
      /\ w.dnsRules = f.dnsRules /\ w.ruleSets = f.ruleSets /\ w.final = f.final
      /\ w.uiDetour = f.uiDetour
  BY DEF Fields
<1> QED
  BY <1>1 DEF FileOK

\* Writing the custom rules.
LEMMA FileRewritten ==
  ASSUME NEW f, NEW k, FileOK(f, k), NEW list \in RuleLists, NEW s, SettingsOK(s)
  PROVE  FileOK(WithUserRules(f, list, s), k)
<1> DEFINE w == WithUserRules(f, list, s)
           G == GroupSet \cap Tags(f.outbounds)
<1>1. RulesOK(f.rules, G) /\ IsFile(f) /\ s.outbound \in Chosen
  BY DEF FileOK, SettingsOK
<1> HIDE DEF G
<1>2. /\ IsFile(w) /\ RulesOK(w.rules, G)
      /\ \A field \in Fields \ {"rules"} : w[field] = f[field]
  BY <1>1, RulesRewritten
<1> HIDE DEF w
<1>3. /\ w.outbounds = f.outbounds /\ w.servers = f.servers
      /\ w.dnsRules = f.dnsRules /\ w.ruleSets = f.ruleSets /\ w.final = f.final
      /\ w.uiDetour = f.uiDetour
  BY <1>2 DEF Fields
<1>4. FileOK(w, k)
  BY <1>2, <1>3 DEF FileOK, G
<1> QED
  BY <1>4 DEF w

\* A new file without nodes, and with them.
LEMMA SkeletonOK ==
  ASSUME NEW s, SettingsOK(s)
  PROVE  FileOK(Skeleton(s), 0)
<1> DEFINE f == Skeleton(s)
           obs == BaseOutbounds(s)
           K == GroupSet \cap Tags(obs)
<1>1. /\ IsFile(f) /\ f.rules = BaseRules(s) /\ f.outbounds = obs /\ f.servers = BaseServers(s)
      /\ f.dnsRules = BaseDnsRules(s) /\ f.ruleSets = BaseRuleSets(s)
  BY SkeletonPatched
<1>2. f.final = s.outbound /\ f.uiDetour = s.detour
  BY DEF Skeleton, Contents
<1> HIDE DEF f
<1>3. OutboundsOK(obs, 0) /\ (s.groups => GroupSet \subseteq K)
  <2>1. Split(obs, obs, <<>>) /\ (s.groups => GroupSet \subseteq Tags(obs))
    BY BaseSplit
  <2> HIDE DEF obs
  <2>2. OutboundsOK(obs, 0)
    BY <2>1, EmptyIs DEF OutboundsOK
  <2> QED BY <2>1, <2>2
<1> HIDE DEF obs, K
<1>4. RulesOK(BaseRules(s), K)
  BY <1>3, RulesBuilt DEF SettingsOK
<1>5. ServersOK(BaseServers(s)) /\ DnsRulesOK(BaseDnsRules(s), BaseServers(s))
  BY ServersBuilt, DnsRulesBuilt, DnsPaired DEF SettingsOK
<1>6. RuleSetsOK(BaseRuleSets(s))
  BY RuleSetsBuilt DEF SettingsOK
<1> QED
  BY <1>1, <1>2, <1>3, <1>4, <1>5, <1>6 DEF FileOK, SettingsOK, f, K

LEMMA GeneratedOK ==
  ASSUME NEW s, SettingsOK(s), NEW list, Named(list), Apart(list)
  PROVE  FileOK(Generated(s, list), Len(list))
<1> DEFINE f == BaseConfig(s)
           w == Generated(s, list)
           obs == Result(f.outbounds, list)
<1>1. FileOK(f, 0)
  <2>1. FileOK(Patch(Skeleton(s), s), 0)
    BY SkeletonOK, FilePatched
  <2> QED BY <2>1, SkeletonPatched
<1> HIDE DEF f
<1>2. /\ IsFile(w) /\ \A field \in Fields \ {"outbounds"} : w[field] = f[field]
      /\ w.outbounds = obs
  BY <1>1, NodesFields DEF Generated, f, FileOK, Result
<1> HIDE DEF w
<1>3. OutboundsOK(obs, Len(list)) /\ Tags(f.outbounds) \subseteq Tags(obs)
  BY <1>1, NodesAdded DEF FileOK
<1> HIDE DEF obs
<1>4. /\ w.rules = f.rules /\ w.servers = f.servers /\ w.dnsRules = f.dnsRules
      /\ w.ruleSets = f.ruleSets /\ w.final = f.final /\ w.uiDetour = f.uiDetour
  BY <1>2 DEF Fields
<1>5. RulesOK(f.rules, GroupSet \cap Tags(obs))
  <2> DEFINE H == GroupSet \cap Tags(f.outbounds)
             K == GroupSet \cap Tags(obs)
  <2>1. H \subseteq K /\ RulesOK(f.rules, H)
    BY <1>1, <1>3 DEF FileOK
  <2> HIDE DEF H, K
  <2>2. RulesOK(f.rules, K)
    BY <2>1, RulesWidened
  <2> QED BY <2>2 DEF K
<1>6. FileOK(w, Len(list))
  BY <1>1, <1>2, <1>3, <1>4, <1>5 DEF FileOK
<1> QED
  BY <1>6 DEF w

----------------------------------------------------------------------------
(* The documents: what an import finds is a sequence of nodes.              *)

EachIs(seqs) == \A i \in 1 .. Len(seqs) : IsSeq(seqs[i])

\* A concatenation of sequences is a sequence.
LEMMA FlattenIs ==
  ASSUME NEW seqs, IsSeq(seqs), EachIs(seqs)
  PROVE  IsSeq(FlattenSeq(seqs))
<1> DEFINE b == Len(seqs)
           S == UNION {ToSet(seqs[i]) : i \in 1 .. b}
           V == Seq(S)
           first == <<>>
           step == [n \in 1 .. b |-> [v \in V |-> IF n = 1 THEN seqs[1] ELSE v \o seqs[n]]]
<1>1. b \in Nat /\ first \in V
  BY SeqFacts
<1>2. ASSUME NEW n \in 1 .. b PROVE seqs[n] \in V
  <2>1. seqs[n] \in Seq(ToSet(seqs[n]))
    BY DEF IsSeq, EachIs
  <2>2. \A i \in 1 .. Len(seqs[n]) : seqs[n][i] \in S
    BY <2>1, ElementOfSeq
  <2> HIDE DEF S
  <2> QED BY <2>1, <2>2, Narrowed
<1> HIDE DEF S
<1>3. step \in [1 .. b -> [V -> V]]
  <2>1. ASSUME NEW n \in 1 .. b, NEW v \in V PROVE (IF n = 1 THEN seqs[1] ELSE v \o seqs[n]) \in V
    <3>1. seqs[n] \in V /\ v \o seqs[n] \in V
      BY <1>2, Joined
    <3> QED BY <3>1
  <2> HIDE DEF V
  <2> QED BY <2>1
<1>4. PICK f \in [0 .. b -> V] : f[0] = first /\ \A n \in 1 .. b : f[n] = step[n][f[n - 1]]
  <2> HIDE DEF step, V, b, first
  <2>1. b \in Nat /\ first \in V /\ step \in [1 .. b -> [V -> V]]
    BY <1>1, <1>3
  <2>2. \E f \in [0 .. b -> V] : f[0] = first /\ \A n \in 1 .. b : f[n] = step[n][f[n - 1]]
    BY <2>1, Recursion
  <2> QED BY <2>2
<1> DEFINE Next1(g, i) == IF i = 1 THEN seqs[i] ELSE g[i - 1] \o seqs[i]
           Is(g) == g = [i \in 1 .. b |-> Next1(g, i)]
           h == [i \in 1 .. b |-> f[i]]
           flatten == CHOOSE g : Is(g)
<1>5. Is(h)
  <2>1. ASSUME NEW i \in 1 .. b PROVE f[i] = Next1(h, i)
    <3>1. f[i - 1] \in V
      BY <1>1
    <3>2. f[i] = step[i][f[i - 1]]
      BY <1>4
    <3>3. f[i] = IF i = 1 THEN seqs[1] ELSE f[i - 1] \o seqs[i]
      <4> HIDE DEF V
      <4> QED BY <3>1, <3>2
    <3>4. i # 1 => h[i - 1] = f[i - 1]
      BY <1>1
    <3> HIDE DEF h
    <3> QED BY <3>3, <3>4
  <2> HIDE DEF Next1
  <2> QED BY <2>1
<1>6. Is(flatten)
  <2> HIDE DEF Is
  <2> QED BY <1>5
<1>7. FlattenSeq(seqs) = IF b = 0 THEN seqs ELSE flatten[b]
  BY DEF FlattenSeq
<1> HIDE DEF flatten
<1>8. \A i \in 1 .. b : flatten[i] = Next1(flatten, i)
  <2> HIDE DEF Next1, b
  <2>1. \A i \in 1 .. b : [j \in 1 .. b |-> Next1(flatten, j)][i] = Next1(flatten, i)
    OBVIOUS
  <2> QED BY <1>6, <2>1
<1> DEFINE G == {n \in 0 .. b : n # 0 => flatten[n] \in V}
<1>9. \A n \in 0 .. b : n \in G
  <2>1. 0 \in G
    BY <1>1
  <2>2. ASSUME NEW n \in 0 .. (b - 1), n \in G PROVE n + 1 \in G
    <3>0. n + 1 \in 1 .. b /\ (n + 1) - 1 = n /\ n + 1 \in 0 .. b
      <4> HIDE DEF G, V
      <4> QED BY <1>1
    <3>1. n # 0 => flatten[n] \in V
      <4> HIDE DEF b, V
      <4> QED BY <2>2
    <3>2. flatten[n + 1] = IF n + 1 = 1 THEN seqs[n + 1] ELSE flatten[n] \o seqs[n + 1]
      BY <1>8, <3>0
    <3>3. seqs[n + 1] \in V
      BY <1>2, <3>0
    <3>4. flatten[n + 1] \in V
      <4>1. CASE n = 0
        BY <3>2, <3>3, <4>1
      <4>2. CASE n # 0
        <5>1. n + 1 # 1
          <6> HIDE DEF G, V
          <6> QED BY <4>2, <1>1
        <5>2. flatten[n + 1] = flatten[n] \o seqs[n + 1] /\ flatten[n] \in V
          <6> HIDE DEF V
          <6> QED BY <3>1, <3>2, <4>2, <5>1
        <5> QED BY <3>3, <5>2, Joined
      <4> QED BY <4>1, <4>2
    <3> QED BY <3>0, <3>4
  <2> HIDE DEF G, b
  <2>3. \A n \in 0 .. (b - 1) : n \in G => n + 1 \in G
    BY <2>2
  <2> QED BY <1>1, <2>1, <2>3, Induction
<1>10. b # 0 => flatten[b] \in V
  BY <1>1, <1>9
<1> QED
  BY <1>7, <1>10, SeqIs

LEMMA ConvertIs ==
  ASSUME NEW form, NEW e
  PROVE  IsSeq(Convert(form, e))
<1>1. IsSeq(Outbound(e))
  BY OneIs, EmptyIs DEF Outbound
<1>2. IsSeq(ClashNode(e))
  BY OneIs, EmptyIs DEF ClashNode
<1>3. IsSeq(UriNode(e))
  BY OneIs, EmptyIs DEF UriNode
<1>4. IsSeq(LooseOutbound(e))
  <2> DEFINE s == [i \in DOMAIN Outbound(e) |->
                     IF e.tag = "" THEN Outbound(e)[i] ELSE [Outbound(e)[i] EXCEPT !.tag = ""]]
             n == Len(Outbound(e))
  <2>1. n \in Nat /\ DOMAIN Outbound(e) = 1 .. n
    BY <1>1, SeqFacts
  <2>2. s = [i \in 1 .. n |-> s[i]]
    BY <2>1
  <2>3. LooseOutbound(e) = s \/ LooseOutbound(e) = <<>>
    BY DEF LooseOutbound
  <2> HIDE DEF s, n
  <2>4. IsSeq(s)
    BY <2>1, <2>2, FunctionIs
  <2> QED BY <2>3, <2>4, EmptyIs
<1> QED
  BY <1>1, <1>2, <1>3, <1>4, EmptyIs DEF Convert

LEMMA ExtractIs ==
  ASSUME NEW doc, IsSeq(doc.entries)
  PROVE  IsSeq(Extract(doc))
<1> DEFINE n == Len(doc.entries)
           seqs == [i \in 1 .. n |-> Convert(doc.form, doc.entries[i])]
           all == Converted(doc)
           retagged == Retagged(all)
<1>1. n \in Nat
  BY SeqFacts
<1>2. IsSeq(seqs) /\ EachIs(seqs)
  <2>1. seqs = [i \in 1 .. n |-> seqs[i]]
    OBVIOUS
  <2>2. \A i \in 1 .. n : IsSeq(seqs[i])
    BY ConvertIs
  <2> HIDE DEF seqs, n
  <2>3. IsSeq(seqs) /\ Len(seqs) = n
    BY <1>1, <2>1, FunctionIs
  <2> QED BY <2>2, <2>3 DEF EachIs
<1>3. IsSeq(all)
  <2>1. all = FlattenSeq(seqs)
    BY DEF Converted
  <2> HIDE DEF seqs, all
  <2> QED BY <1>2, <2>1, FlattenIs
<1> HIDE DEF all
<1>4. IsSeq(retagged)
  <2>1. Len(all) \in Nat
    BY <1>3, SeqFacts
  <2>2. retagged = [i \in 1 .. Len(all) |-> retagged[i]]
    BY DEF Retagged
  <2> HIDE DEF retagged
  <2> QED BY <2>1, <2>2, FunctionIs
<1>5. Extract(doc) = retagged \/ Extract(doc) = <<>>
  BY DEF Extract, all
<1> HIDE DEF retagged
<1> QED
  BY <1>4, <1>5, EmptyIs

LEMMA ImportedIs ==
  ASSUME NEW doc \in Documents
  PROVE  IsSeq(DownloadedNodes(doc)) /\ IsSeq(ManualNodes(doc))
<1>1. DOMAIN doc = {"form", "entries", "wrap"} /\ IsSeq(doc.entries)
  BY DocumentsAssumption DEF IsSeq
<1>2. ASSUME NEW wrap PROVE IsSeq(Extract(Unwrapped(doc, wrap)))
  <2>1. Unwrapped(doc, wrap).entries = doc.entries
    BY <1>1 DEF Unwrapped
  <2> QED BY <1>1, <2>1, ExtractIs
<1>3. IsSeq(Extract(doc))
  BY <1>1, ExtractIs
<1> QED
  BY <1>2, <1>3 DEF DownloadedNodes, ManualNodes

----------------------------------------------------------------------------
(* The invariant: the file is whole and has the nodes of the last import.   *)

Imports == {DownloadedNodes(doc) : doc \in Documents} \cup {ManualNodes(doc) : doc \in Documents}

\* The numbered names of a node differ, and no node is, or becomes by a
\* number, named like an application group.
NamesApart == \A list \in Imports : (\A n \in 1 .. Len(list) : Counted(list[n].tag)) /\ Apart(list)

ContentInv == /\ settings \in Settings
              /\ userRules \in RuleLists
              /\ HasFile => FileOK(file, Len(nodes))

LEMMA SettingsAreOK ==
  ASSUME NEW s \in Settings
  PROVE  SettingsOK(s)
BY SettingsFacts DEF SettingsOK

LEMMA ContentInit ==
  Init => ContentInv
<1> SUFFICES ASSUME Init PROVE ContentInv
  OBVIOUS
<1>1. settings \in Settings
  BY RangeAssumption DEF Init, Settings, Default
<1>2. userRules \in RuleLists
  BY RuleListsAssumption DEF Init
<1>3. ~HasFile
  BY DEF Init, HasFile
<1> QED
  BY <1>1, <1>2, <1>3 DEF ContentInv

LEMMA ContentImport ==
  ASSUME NamesApart, ContentInv, NEW doc \in Documents, NEW manual, Import(doc, manual)
  PROVE  ContentInv'
<1>1. PICK list \in Imports :
        /\ IsSeq(list) /\ nodes' = list
        /\ file' = WithUserRules(Generated(settings, list), userRules, settings)
  BY ImportedIs DEF Import, Imports
<1>2. settings' = settings /\ userRules' = userRules
  BY DEF Import
<1>3. Named(list) /\ Apart(list)
  BY <1>1, SeqFacts DEF NamesApart, Named
<1>4. SettingsOK(settings) /\ userRules \in RuleLists
  BY SettingsAreOK DEF ContentInv
<1>5. FileOK(Generated(settings, list), Len(list))
  BY <1>3, <1>4, GeneratedOK
<1>6. FileOK(file', Len(nodes'))
  BY <1>1, <1>4, <1>5, FileRewritten
<1> QED
  BY <1>2, <1>6 DEF ContentInv

LEMMA ContentSaveSettings ==
  ASSUME ContentInv, NEW field \in Varied, NEW value \in Values[field], SaveSettings(field, value)
  PROVE  ContentInv'
<1>1. settings' \in Settings
  BY SettingsKept, VariedAssumption DEF ContentInv, SaveSettings
<1>2. userRules' = userRules /\ nodes' = nodes
  BY DEF SaveSettings
<1>3. CASE HasFile
  <2>1. file' = Patch(file, settings') /\ FileOK(file, Len(nodes))
    BY <1>3 DEF SaveSettings, ContentInv
  <2>2. FileOK(file', Len(nodes'))
    BY <1>1, <1>2, <2>1, SettingsAreOK, FilePatched
  <2> QED BY <1>1, <1>2, <2>2 DEF ContentInv
<1>4. CASE ~HasFile
  <2>1. file' = file /\ ~HasFile'
    BY <1>4 DEF SaveSettings, HasFile
  <2> QED BY <1>1, <1>2, <2>1 DEF ContentInv
<1> QED
  BY <1>3, <1>4

LEMMA ContentEditRules ==
  ASSUME ContentInv, NEW list \in RuleLists, EditRules(list)
  PROVE  ContentInv'
<1>1. settings' = settings /\ userRules' \in RuleLists /\ nodes' = nodes
  BY DEF EditRules
<1>2. CASE HasFile
  <2>1. file' = WithUserRules(file, list, settings) /\ FileOK(file, Len(nodes))
    BY <1>2 DEF EditRules, ContentInv
  <2>2. SettingsOK(settings)
    BY SettingsAreOK DEF ContentInv
  <2>3. FileOK(file', Len(nodes'))
    BY <1>1, <2>1, <2>2, FileRewritten
  <2> QED BY <1>1, <2>3 DEF ContentInv
<1>3. CASE ~HasFile
  <2>1. file' = file /\ ~HasFile'
    BY <1>3 DEF EditRules, HasFile
  <2> QED BY <1>1, <2>1 DEF ContentInv
<1> QED
  BY <1>2, <1>3

LEMMA ContentActivate ==
  ASSUME ContentInv, Activate
  PROVE  ContentInv'
<1> DEFINE w == WithUserRules(file, userRules, settings)
<1>1. /\ file' = Patch(w, settings) /\ UNCHANGED <<settings, userRules, nodes>>
      /\ FileOK(file, Len(nodes)) /\ userRules \in RuleLists
  BY DEF Activate, ContentInv
<1>2. SettingsOK(settings)
  BY SettingsAreOK DEF ContentInv
<1>3. FileOK(w, Len(nodes))
  BY <1>1, <1>2, FileRewritten
<1> HIDE DEF w
<1>4. FileOK(file', Len(nodes'))
  BY <1>1, <1>2, <1>3, FilePatched
<1> QED
  BY <1>1, <1>4 DEF ContentInv

LEMMA ContentSwitch ==
  ASSUME ContentInv,
         \/ \E mode : ToggleMode(mode)
         \/ StartKernel
         \/ \E prefer : ToggleIpVersion(prefer)
  PROVE  ContentInv'
<1>1. HasFile /\ UNCHANGED <<settings, userRules, nodes>>
  BY DEF ToggleMode, StartKernel, ToggleIpVersion
<1>2. FileOK(file, Len(nodes)) /\ IsFile(file)
  BY <1>1 DEF ContentInv, FileOK
<1>3. FileOK(file', Len(nodes'))
  BY <1>1, <1>2, SwitchedFile, FileKept
<1> QED
  BY <1>1, <1>3 DEF ContentInv

LEMMA ContentNext ==
  ASSUME NamesApart, ContentInv, [Next]_vars
  PROVE  ContentInv'
<1>1. ASSUME NEW doc \in Documents, NEW manual \in BOOLEAN, Import(doc, manual) PROVE ContentInv'
  BY <1>1, ContentImport
<1>2. ASSUME NEW field \in Varied, NEW value \in Values[field], SaveSettings(field, value)
      PROVE  ContentInv'
  BY <1>2, ContentSaveSettings
<1>3. ASSUME NEW list \in RuleLists, EditRules(list) PROVE ContentInv'
  BY <1>3, ContentEditRules
<1>4. CASE Activate
  BY <1>4, ContentActivate
<1>5. CASE \/ \E mode \in {"global", "rule"} : ToggleMode(mode)
           \/ StartKernel
           \/ \E prefer \in BOOLEAN : ToggleIpVersion(prefer)
  BY <1>5, ContentSwitch
<1>6. CASE UNCHANGED vars
  BY <1>6 DEF ContentInv, HasFile, vars
<1> QED
  BY <1>1, <1>2, <1>3, <1>4, <1>5, <1>6 DEF Next

----------------------------------------------------------------------------
(* What the invariant says of a file: the groups.                           *)

\* The outbounds as groups and nodes: no tag twice, and nothing else.
LEMMA SplitFacts ==
  ASSUME NEW obs, NEW base, NEW new, Split(obs, base, new)
  PROVE  /\ IsSeq(obs) /\ Distinct(obs)
         /\ ToSet(obs) = ToSet(base) \cup ToSet(new)
         /\ Tags(obs) = Tags(base) \cup Tags(new)
         /\ \A ob \in ToSet(base) : GroupOK(ob, UsableIn(new))
         /\ \A ob \in ToSet(new) : NodeOK(ob)
<1>1. obs = base \o new /\ IsSeq(base) /\ IsSeq(new) /\ Distinct(base) /\ Distinct(new)
  BY DEF Split
<1>2. DOMAIN base = 1 .. Len(base) /\ DOMAIN new = 1 .. Len(new)
  BY <1>1, SeqFacts
<1>3. \A ob \in ToSet(base) : GroupOK(ob, UsableIn(new))
  BY <1>2 DEF Split, ToSet
<1>4. \A ob \in ToSet(new) : NodeOK(ob)
  BY <1>2 DEF Split, ToSet
<1>5. Tags(base) \cap Tags(new) = {}
  <2>1. ASSUME NEW t \in Tags(base), t \in Tags(new) PROVE FALSE
    <3>1. t \in Fixed \cup GroupSet
      BY <1>2 DEF Split, Tags, GroupOK
    <3>2. t \notin Fixed \cup GroupSet
      BY <1>2, <2>1 DEF Split, Tags, NodeOK
    <3> QED BY <3>1, <3>2
  <2> QED BY <2>1
<1> QED
  BY <1>1, <1>3, <1>4, <1>5, ConcatIs, ConcatSet, ConcatTags

\* The nodes are the last outbounds.
LEMMA NodesAreLast ==
  ASSUME NEW base, IsSeq(base), NEW new, IsSeq(new)
  PROVE  SubSeq(base \o new, Len(base \o new) - Len(new) + 1, Len(base \o new)) = new
<1> DEFINE obs == base \o new
           S == ToSet(obs)
           p == Len(obs) - Len(new) + 1
           last == SubSeq(obs, p, Len(obs))
<1>1. /\ IsSeq(obs) /\ Len(obs) = Len(base) + Len(new)
      /\ \A i \in 1 .. Len(new) : obs[Len(base) + i] = new[i]
  BY ConcatIs
<1>2. Len(base) \in Nat /\ Len(new) \in Nat /\ DOMAIN new = 1 .. Len(new)
  BY SeqFacts
<1>3. new = [i \in 1 .. Len(new) |-> new[i]]
  BY <1>2 DEF IsSeq
<1>4. obs \in Seq(S)
  BY <1>1 DEF IsSeq
<1> HIDE DEF obs, S
<1>5. p \in 1 .. (Len(obs) + 1) /\ Len(obs) - p + 1 = Len(new) /\ p = Len(base) + 1
  BY <1>1, <1>2
<1> HIDE DEF p
<1>6. /\ last \in Seq(S) /\ Len(last) = Len(new)
      /\ \A i \in 1 .. Len(new) : last[i] = obs[p + i - 1]
  BY <1>4, <1>5, From
<1> HIDE DEF last
<1>7. \A i \in 1 .. Len(new) : last[i] = new[i]
  <2>1. ASSUME NEW i \in 1 .. Len(new) PROVE last[i] = new[i]
    <3>1. p + i - 1 = Len(base) + i
      BY <1>2, <1>5
    <3> QED BY <1>1, <1>6, <3>1
  <2> QED BY <2>1
<1>8. last = [i \in 1 .. Len(last) |-> last[i]]
  BY <1>6
<1>9. last = new
  BY <1>3, <1>6, <1>7, <1>8
<1> QED
  BY <1>9 DEF last, p, obs

\* The usable tags, as GroupsOfferNodes collects them.
LEMMA UsableSet ==
  ASSUME NEW new, IsSeq(new)
  PROVE  {ob.tag : ob \in {n \in ToSet(new) : Dialable(n)}} = UsableIn(new)
<1>1. DOMAIN new = 1 .. Len(new)
  BY SeqFacts
<1> QED
  BY <1>1 DEF ToSet, UsableIn

\* What an outbound offers, as GroupsOfferNodes states it.
OffersNodes(ob, usable) ==
    CASE ob.tag = "auto" ->
           ToSet(ob.members) = (IF usable = {} THEN {"direct"} ELSE usable)
      [] ob.tag = "manual" -> ToSet(ob.members) = {"auto"} \cup usable
      [] ob.tag \in GroupSet -> ToSet(ob.members) = {"auto", "manual"} \cup usable
      [] OTHER -> ob.members = <<>>

LEMMA EachOffers ==
  ASSUME NEW ob, NEW usable, GroupOK(ob, usable) \/ NodeOK(ob)
  PROVE  OffersNodes(ob, usable)
<1>1. CASE GroupOK(ob, usable)
  <2>1. ob.tag \in Fixed \cup GroupSet /\ Offers(ob, usable)
    BY <1>1 DEF GroupOK
  <2>2. CASE ob.tag = "auto"
    BY <2>1, <2>2, FixedApart DEF Offers, OffersNodes, Fixed
  <2>3. CASE ob.tag = "manual"
    BY <2>1, <2>3, FixedApart DEF Offers, OffersNodes, Fixed
  <2>4. CASE ob.tag \in GroupSet
    BY <2>1, <2>4, FixedApart DEF Offers, OffersNodes, Fixed
  <2>5. CASE ob.tag \in {"direct", "block"}
    BY <2>1, <2>5, FixedApart DEF Offers, OffersNodes, Fixed
  <2> QED BY <2>1, <2>2, <2>3, <2>4, <2>5 DEF Fixed
<1>2. CASE NodeOK(ob)
  BY <1>2 DEF NodeOK, OffersNodes, Fixed
<1> QED
  BY <1>1, <1>2

LEMMA GroupsHold ==
  ContentInv => GroupsOfferNodes
<1> SUFFICES ASSUME ContentInv, HasFile PROVE GroupsOfferNodes
  BY DEF GroupsOfferNodes
<1> DEFINE obs == file.outbounds
           last == SubSeq(obs, Len(obs) - Len(nodes) + 1, Len(obs))
           usable == {ob.tag : ob \in {n \in ToSet(last) : Dialable(n)}}
<1>1. OutboundsOK(obs, Len(nodes))
  BY DEF ContentInv, FileOK
<1>2. PICK base, new : Split(obs, base, new) /\ Len(new) = Len(nodes)
  BY <1>1 DEF OutboundsOK
<1>3. obs = base \o new /\ IsSeq(base) /\ IsSeq(new)
  BY <1>2 DEF Split
<1>4. last = new
  <2> HIDE DEF obs
  <2>1. SubSeq(obs, Len(obs) - Len(new) + 1, Len(obs)) = new
    BY <1>3, NodesAreLast
  <2> QED BY <1>2, <2>1
<1>5. usable = UsableIn(new)
  <2> HIDE DEF last
  <2> QED BY <1>3, <1>4, UsableSet
<1> HIDE DEF usable
<1>6. ASSUME NEW ob \in ToSet(obs) PROVE OffersNodes(ob, usable)
  <2> HIDE DEF obs
  <2>1. GroupOK(ob, UsableIn(new)) \/ NodeOK(ob)
    BY <1>2, SplitFacts
  <2> QED BY <1>5, <2>1, EachOffers
<1>7. \A ob \in ToSet(obs) : OffersNodes(ob, usable)
  BY <1>6
<1> QED
  BY <1>7 DEF GroupsOfferNodes, OffersNodes, usable, last, obs

----------------------------------------------------------------------------
(* What the invariant says of a file: the references.                       *)

\* Outbounds with different tags have as many tags as there are outbounds.
LEMMA TagsCounted ==
  ASSUME NEW obs, IsSeq(obs), Distinct(obs)
  PROVE  Cardinality(Tags(obs)) = Len(obs)
<1> DEFINE n == Len(obs)
           g == [i \in 1 .. n |-> obs[i].tag]
<1>1. n \in Nat /\ DOMAIN obs = 1 .. n
  BY SeqFacts
<1>2. g \in Bijection(1 .. n, Tags(obs))
  <2>1. g \in [1 .. n -> Tags(obs)]
    BY <1>1 DEF Tags
  <2>2. \A i, j \in 1 .. n : g[i] = g[j] => i = j
    BY DEF Distinct
  <2>3. \A t \in Tags(obs) : \E i \in 1 .. n : g[i] = t
    BY <1>1 DEF Tags
  <2> HIDE DEF g, n
  <2> QED BY <2>1, <2>2, <2>3 DEF Bijection, Injection, Surjection, IsInjective
<1> HIDE DEF g, n
<1>3. ExistsBijection(1 .. n, Tags(obs))
  BY <1>2 DEF ExistsBijection
<1>4. IsFiniteSet(1 .. n) /\ Cardinality(1 .. n) = n
  BY <1>1, FS_Interval
<1>5. Cardinality(Tags(obs)) = n
  BY <1>3, <1>4, FS_Bijection
<1> QED
  BY <1>5 DEF n

\* Where the rules lead.
LEMMA RulesLead ==
  ASSUME NEW G, NEW r \in AllRules(G)
  PROVE  r.to \in Actions \cup {"direct", "manual", "auto"} \cup G
<1>1. CASE r \in {Sniff, Hijack, Ads, On("mode-direct", "direct"), On("cidr", "direct"),
                  Matching({"private"}, "direct"), Matching({"cn", "geoip-cn"}, "direct")}
  BY <1>1 DEF Sniff, Hijack, Ads, On, Matching, Actions
<1>2. CASE r \in {On("mode-global", to) : to \in Chosen}
  BY <1>2 DEF On, Chosen
<1>3. CASE r \in {Matching({"notcn"}, to) : to \in Chosen}
  BY <1>3 DEF Matching, Chosen
<1>4. CASE r \in {Matching({g}, g) : g \in G}
  BY <1>4 DEF Matching
<1>5. CASE r \in FakeRoutes
  <2>1. PICK range \in Ranges : r = FakeRoute(range)
    BY <1>5 DEF FakeRoutes
  <2> QED BY <2>1 DEF FakeRoute, On
<1>6. CASE r \in CustomRules
  <2>1. r.to \in {"direct", "reject"} \cup Chosen
    BY <1>6, CustomFacts
  <2> QED BY <2>1 DEF Chosen, Actions
<1> QED
  BY <1>1, <1>2, <1>3, <1>4, <1>5, <1>6 DEF AllRules, BuiltInRules

\* What a group offers is in the file, and so is the resolver of a node.
LEMMA MembersResolve ==
  ASSUME NEW obs, NEW k, OutboundsOK(obs, k), NEW ob \in ToSet(obs)
  PROVE  ToSet(ob.members) \subseteq Tags(obs) /\ ob.resolver \in Resolvers
<1>1. PICK base, new : Split(obs, base, new)
  BY DEF OutboundsOK
<1>2. UsableIn(new) \subseteq Tags(obs) /\ Fixed \subseteq Tags(obs)
  <2>1. IsSeq(new) /\ Fixed \subseteq Tags(base) /\ Tags(obs) = Tags(base) \cup Tags(new)
    BY <1>1, SplitFacts DEF Split
  <2>2. DOMAIN new = 1 .. Len(new)
    BY <2>1, SeqFacts
  <2>3. UsableIn(new) \subseteq Tags(new)
    BY <2>2 DEF UsableIn, Tags
  <2> QED BY <2>1, <2>3
<1>3. ToSet(<<>>) = {}
  BY DEF ToSet
<1>4. CASE GroupOK(ob, UsableIn(new))
  <2>1. ob = Dress(ob.tag, ob.members, "", "") /\ ob.tag \in Fixed \cup GroupSet
        /\ Offers(ob, UsableIn(new))
    BY <1>4 DEF GroupOK
  <2>2. ob.resolver = ""
    <3>1. PICK t, m : ob = Dress(t, m, "", "")
      BY <2>1
    <3> QED BY <3>1 DEF Dress
  <2> DEFINE U == UsableIn(new)
             T == Tags(obs)
  <2> HIDE DEF U, T
  <2>3. U \subseteq T /\ {"auto", "manual", "direct"} \subseteq T
    BY <1>2 DEF Fixed, U, T
  <2>4. Offers(ob, U)
    BY <2>1 DEF U
  <2>5. ToSet(ob.members) \subseteq T
    BY <1>3, <2>1, <2>3, <2>4 DEF Offers, Fixed
  <2> QED BY <2>2, <2>5 DEF Resolvers, T
<1>5. CASE NodeOK(ob)
  BY <1>3, <1>5 DEF NodeOK
<1> QED
  BY <1>1, <1>4, <1>5, SplitFacts

\* The tags every file has.
LEMMA FixedThere ==
  ASSUME NEW obs, NEW k, OutboundsOK(obs, k)
  PROVE  Fixed \subseteq Tags(obs) /\ Cardinality(Tags(obs)) = Len(obs)
<1>1. PICK base, new : Split(obs, base, new)
  BY DEF OutboundsOK
<1>2. Fixed \subseteq Tags(base)
  BY <1>1 DEF Split
<1> QED
  BY <1>1, <1>2, SplitFacts, TagsCounted

\* The tags of servers, as TagsResolve collects them.
LEMMA ServersTagged ==
  ASSUME NEW servers
  PROVE  {d.tag : d \in ToSet(servers)} = Tags(servers)
BY DEF ToSet, Tags

\* TagsResolve, for the tags and servers of a file.
Resolves(f, tags, servers) ==
    /\ Cardinality(tags) = Len(f.outbounds)
    /\ \A r \in ToSet(f.rules) : r.to \in tags \cup Actions
    /\ \A ob \in ToSet(f.outbounds) :
         /\ ToSet(ob.members) \subseteq tags
         /\ ob.resolver \in servers \cup {""}
    /\ {f.final, f.uiDetour} \subseteq tags
    /\ \A rs \in ToSet(f.ruleSets) : rs.detour \in tags
    /\ \A d \in ToSet(f.servers) :
         /\ d.detour \in tags \cup {""}
         /\ d.resolver # <<>> => d.resolver[1] \in servers \ {d.tag}
    /\ \A r \in ToSet(f.dnsRules) : r.to \in servers \cup {"reject"}

LEMMA FileResolves ==
  ASSUME NEW f, NEW k, FileOK(f, k)
  PROVE  Resolves(f, Tags(f.outbounds), Tags(f.servers))
<1> DEFINE tags == Tags(f.outbounds)
           servers == Tags(f.servers)
<1>1. OutboundsOK(f.outbounds, k)
  BY DEF FileOK
<1>2. {"auto", "manual", "direct", "block"} \subseteq tags /\ Cardinality(tags) = Len(f.outbounds)
  BY <1>1, FixedThere DEF Fixed
<1>3. {"dns_proxy", "dns_cn", "dns_resolver"} \subseteq servers
  BY DEF FileOK, ServersOK, ServerTags
<1>4. ASSUME NEW r \in ToSet(f.rules) PROVE r.to \in tags \cup Actions
  <2>1. f.rules \in Seq(AllRules(GroupSet \cap tags))
    BY DEF FileOK, RulesOK
  <2> HIDE DEF tags
  <2>2. r \in AllRules(GroupSet \cap tags)
    <3>1. DOMAIN f.rules = 1 .. Len(f.rules)
      BY <2>1
    <3> QED BY <2>1, <3>1, ElementOfSeq DEF ToSet
  <2>3. r.to \in Actions \cup {"direct", "manual", "auto"} \cup (GroupSet \cap tags)
    BY <2>2, RulesLead
  <2> QED BY <1>2, <2>3
<1>5. ASSUME NEW ob \in ToSet(f.outbounds)
      PROVE  ToSet(ob.members) \subseteq tags /\ ob.resolver \in servers \cup {""}
  <2>1. ToSet(ob.members) \subseteq tags /\ ob.resolver \in Resolvers
    BY <1>1, MembersResolve
  <2> HIDE DEF tags, servers
  <2> QED BY <1>3, <2>1 DEF Resolvers
<1>6. {f.final, f.uiDetour} \subseteq tags
  <2>1. f.final \in {"manual", "auto"} /\ f.uiDetour \in {"direct", "manual"}
    BY DEF FileOK, Chosen
  <2> HIDE DEF tags
  <2> QED BY <1>2, <2>1
<1>7. ASSUME NEW rs \in ToSet(f.ruleSets) PROVE rs.detour \in tags
  <2>1. IsSeq(f.ruleSets) /\ \A i \in 1 .. Len(f.ruleSets) : RuleSetOK(f.ruleSets[i])
    BY DEF FileOK, RuleSetsOK
  <2>2. RuleSetOK(rs)
    BY <2>1, SeqFacts DEF ToSet
  <2> HIDE DEF tags
  <2> QED BY <1>2, <2>2 DEF RuleSetOK
<1>8. ASSUME NEW d \in ToSet(f.servers)
      PROVE  /\ d.detour \in tags \cup {""}
             /\ d.resolver # <<>> => d.resolver[1] \in servers \ {d.tag}
  <2>1. IsSeq(f.servers) /\ \A i \in 1 .. Len(f.servers) : ServerOK(f.servers[i])
    BY DEF FileOK, ServersOK
  <2>2. ServerOK(d)
    BY <2>1, SeqFacts DEF ToSet
  <2> HIDE DEF tags, servers
  <2> QED BY <1>2, <1>3, <2>2 DEF ServerOK, Chosen
<1>9. ASSUME NEW r \in ToSet(f.dnsRules) PROVE r.to \in servers \cup {"reject"}
  <2>1. /\ f.dnsRules \in Seq(DnsRules(AllTargets))
        /\ \A i \in 1 .. Len(f.dnsRules) :
             f.dnsRules[i].to = "dns_fakeip" => "dns_fakeip" \in servers
    BY DEF FileOK, DnsRulesOK
  <2> HIDE DEF servers
  <2>2. DOMAIN f.dnsRules = 1 .. Len(f.dnsRules)
    BY <2>1
  <2>3. r \in DnsRules(AllTargets) /\ (r.to = "dns_fakeip" => "dns_fakeip" \in servers)
    BY <2>1, <2>2, ElementOfSeq DEF ToSet
  <2>4. r.to \in {"dns_cn", "dns_proxy", "reject", "dns_fakeip"}
    BY <2>3, DnsRuleFacts DEF AllTargets, Targets
  <2> QED BY <1>3, <2>3, <2>4
<1> HIDE DEF tags, servers
<1>10. Resolves(f, tags, servers)
  BY <1>2, <1>4, <1>5, <1>6, <1>7, <1>8, <1>9 DEF Resolves
<1> QED
  BY <1>10 DEF tags, servers

LEMMA TagsHold ==
  ContentInv => TagsResolve
<1> SUFFICES ASSUME ContentInv, HasFile PROVE TagsResolve
  BY DEF TagsResolve
<1> DEFINE servers == {d.tag : d \in ToSet(file.servers)}
<1>1. Resolves(file, Tags(file.outbounds), Tags(file.servers))
  BY FileResolves DEF ContentInv
<1>2. servers = Tags(file.servers)
  BY ServersTagged
<1> HIDE DEF servers
<1>3. Resolves(file, Tags(file.outbounds), servers)
  BY <1>1, <1>2
<1> QED
  BY <1>3 DEF TagsResolve, Resolves, servers

----------------------------------------------------------------------------
(* The theorems                                                             *)

LEMMA ContentHolds ==
  ASSUME NamesApart
  PROVE  Spec => []ContentInv
<1>1. Init => ContentInv
  BY ContentInit
<1>2. ContentInv /\ [Next]_vars => ContentInv'
  BY ContentNext
<1> QED
  BY <1>1, <1>2, PTL DEF Spec

\* If no node is named like an application group, then whatever was imported
\* and whichever settings and rules were changed since, everything this program
\* makes the file refer to by tag is in it, whatever the nodes themselves dial
\* through, and no two outbounds have the same tag.
THEOREM EveryTagResolves ==
  ASSUME NamesApart
  PROVE  Spec => []TagsResolve
<1>1. Spec => []ContentInv
  BY ContentHolds
<1> QED
  BY <1>1, TagsHold, PTL

\* If no node is named like an application group, then automatic selection is
\* never left on direct or on a notice of the provider while there is a usable
\* node, and every group in the file offers each usable node.
THEOREM EveryGroupOffersTheNodes ==
  ASSUME NamesApart
  PROVE  Spec => []GroupsOfferNodes
<1>1. Spec => []ContentInv
  BY ContentHolds
<1> QED
  BY <1>1, GroupsHold, PTL
=============================================================================
