---------------------------- MODULE TurnViewProofs ----------------------------
(***************************************************************************)
(* The turns on the screen are what a rebuild shows, the renderer's thread *)
(* is the server's, and undo is offered only where the server accepts it.  *)
(***************************************************************************)
EXTENDS TurnView, WellFoundedInduction, SequenceTheorems, TLAPS

-----------------------------------------------------------------------------
(* Induction and the least and the greatest of some numbers *)

\* Any set of numbers has a least one.
LEMMA Least == ASSUME NEW S \in SUBSET Nat, S # {} PROVE \E n \in S : \A m \in S : n <= m
<1>1. IsWellFoundedOn(OpToRel(<, Nat), Nat)
  BY NatLessThanWellFounded
<1>2. \E x \in S : \A y \in S : ~(<<y, x>> \in OpToRel(<, Nat))
  BY <1>1, WFMin
<1>3. OpToRel(<, Nat) = {p \in Nat \X Nat : p[1] < p[2]}
  BY DEF OpToRel
<1>4. PICK x \in S : \A y \in S : ~(<<y, x>> \in {p \in Nat \X Nat : p[1] < p[2]})
  BY <1>2, <1>3
<1>5. ASSUME NEW y \in S PROVE x <= y
  <2>1. x \in Nat /\ y \in Nat
    OBVIOUS
  <2>2. y < x => <<y, x>> \in {p \in Nat \X Nat : p[1] < p[2]}
    BY <2>1
  <2>3. ~(y < x)
    BY <1>4, <1>5, <2>2
  <2> QED BY <2>1, <2>3
<1> QED BY <1>5

\* A set that has 0 and with each number the next one has all numbers.
LEMMA AllNumbers ==
  ASSUME NEW P \in SUBSET Nat, 0 \in P, \A n \in P : n + 1 \in P
  PROVE  P = Nat
<1>1. SUFFICES ASSUME Nat \ P # {} PROVE FALSE
  OBVIOUS
<1>2. PICK n \in Nat \ P : \A m \in Nat \ P : n <= m
  BY <1>1, Least
<1>3. n # 0 /\ n - 1 \in Nat /\ n - 1 \in P
  BY <1>2
<1>4. (n - 1) + 1 \in P
  BY <1>3
<1> QED BY <1>2, <1>4

\* The same for sequences, which grow at their end.
LEMMA AllSequences ==
  ASSUME NEW X, NEW P \in SUBSET Seq(X), <<>> \in P,
         \A s \in P, x \in X : Append(s, x) \in P
  PROVE  P = Seq(X)
<1> DEFINE N == {n \in Nat : \A s \in Seq(X) : Len(s) = n => s \in P}
<1>1. 0 \in N
  <2>1. \A s \in Seq(X) : Len(s) = 0 => s = <<>>
    OBVIOUS
  <2> QED BY <2>1
<1>2. ASSUME NEW n \in N PROVE n + 1 \in N
  <2>1. ASSUME NEW s \in Seq(X), Len(s) = n + 1 PROVE s \in P
    <3>1. n \in Nat /\ s # <<>>
      BY <2>1
    <3>2. PICK f \in Seq(X), x \in X : s = Append(f, x)
      BY <3>1, SequenceEmptyOrAppend
    <3>3. Len(f) = n
      BY <2>1, <3>1, <3>2
    <3> QED BY <3>2, <3>3
  <2> QED BY <2>1
<1>3. N = Nat
  <2> HIDE DEF N
  <2>1. N \in SUBSET Nat
    BY DEF N
  <2> QED BY <1>1, <1>2, <2>1, AllNumbers
<1>4. ASSUME NEW s \in Seq(X) PROVE s \in P
  <2>1. Len(s) \in N
    BY <1>3
  <2> QED BY <2>1
<1> QED BY <1>4

\* What comes last can be taken off.
LEMMA TakenOff ==
  ASSUME NEW X, NEW s \in Seq(X), s # <<>>
  PROVE  \E f \in Seq(X), x \in X : s = Append(f, x) /\ Len(f) = Len(s) - 1 /\ x = s[Len(s)]
<1>1. PICK f \in Seq(X), x \in X : s = Append(f, x)
  BY SequenceEmptyOrAppend
<1>2. Len(f) = Len(s) - 1 /\ x = s[Len(s)]
  BY <1>1
<1> QED BY <1>1, <1>2

\* The first of some positions,
LEMMA FirstOf ==
  ASSUME NEW I \in SUBSET Nat, I # {}
  PROVE  Min(I) \in I /\ \A m \in I : Min(I) <= m
<1>1. \E n \in I : \A m \in I : n <= m
  BY Least
<1> QED BY <1>1 DEF Min

\* and the last of them.
LEMMA LastOf ==
  ASSUME NEW n \in Nat, NEW I \in SUBSET (0..n), I # {}
  PROVE  Max(I) \in I /\ \A m \in I : m <= Max(I)
<1> DEFINE J == {n - i : i \in I}
<1>1. J \in SUBSET Nat /\ J # {}
  <2>1. \A i \in I : n - i \in Nat
    OBVIOUS
  <2>2. PICK i \in I : TRUE
    OBVIOUS
  <2>3. n - i \in J
    OBVIOUS
  <2> QED BY <2>1, <2>3
<1>2. PICK j \in J : \A m \in J : j <= m
  BY <1>1, Least
<1>3. PICK i \in I : j = n - i
  BY <1>2
<1>4. ASSUME NEW m \in I PROVE m <= i
  <2>1. n - m \in J
    OBVIOUS
  <2>2. n - i <= n - m
    BY <1>2, <1>3, <2>1
  <2> QED BY <2>2
<1>5. \E x \in I : \A m \in I : m <= x
  BY <1>4
<1> QED BY <1>5 DEF Max

-----------------------------------------------------------------------------
(* What is kept of a sequence *)

\* What is kept of each of its beginnings.
Kept(f, s, S, k) ==
  f = [i \in 0..k |-> IF i = 0 THEN <<>>
                      ELSE IF s[i] \in S THEN Append(f[i - 1], s[i]) ELSE f[i - 1]]

\* There is such a function,
LEMMA KeptExists ==
  ASSUME NEW s, NEW S, NEW k \in Nat
  PROVE  \E f : Kept(f, s, S, k)
<1> DEFINE P == {n \in Nat : \E f : Kept(f, s, S, n)}
<1>1. 0 \in P
  <2>1. Kept([i \in 0..0 |-> <<>>], s, S, 0)
    BY DEF Kept
  <2> QED BY <2>1
<1>2. ASSUME NEW n \in P PROVE n + 1 \in P
  <2>1. PICK g : Kept(g, s, S, n)
    OBVIOUS
  <2> DEFINE f == [i \in 0..n + 1 |->
                     IF i = n + 1
                     THEN IF s[n + 1] \in S THEN Append(g[n], s[n + 1]) ELSE g[n]
                     ELSE g[i]]
  <2>2. \A i \in 0..n : g[i] = IF i = 0 THEN <<>>
          ELSE IF s[i] \in S THEN Append(g[i - 1], s[i]) ELSE g[i - 1]
    BY <2>1 DEF Kept
  <2>3. ASSUME NEW i \in 0..n + 1
        PROVE  f[i] = IF i = 0 THEN <<>>
                 ELSE IF s[i] \in S THEN Append(f[i - 1], s[i]) ELSE f[i - 1]
    <3>1. CASE i = n + 1
      <4>1. f[i - 1] = g[n] /\ i # 0
        BY <3>1
      <4> QED BY <3>1, <4>1
    <3>2. CASE i # n + 1 /\ i # 0
      <4>1. f[i] = g[i] /\ f[i - 1] = g[i - 1] /\ i \in 0..n
        BY <3>2
      <4> QED BY <2>2, <3>2, <4>1
    <3>3. CASE i # n + 1 /\ i = 0
      <4>1. f[i] = g[i] /\ i \in 0..n
        BY <3>3
      <4> QED BY <2>2, <3>3, <4>1
    <3> QED BY <3>1, <3>2, <3>3
  <2>4. f = [i \in 0..n + 1 |-> IF i = 0 THEN <<>>
               ELSE IF s[i] \in S THEN Append(f[i - 1], s[i]) ELSE f[i - 1]]
    <3>1. f = [i \in 0..n + 1 |-> f[i]]
      OBVIOUS
    <3> HIDE DEF f
    <3> QED BY <2>3, <3>1
  <2>5. Kept(f, s, S, n + 1)
    BY <2>4 DEF Kept
  <2> QED BY <2>5
<1>3. P = Nat
  <2> HIDE DEF P
  <2>1. P \in SUBSET Nat
    BY DEF P
  <2> QED BY <1>1, <1>2, <2>1, AllNumbers
<1> QED BY <1>3

\* and none other: sequences that agree keep the same.
LEMMA KeptIsOne ==
  ASSUME NEW s, NEW u, NEW S, NEW f, NEW g, NEW k \in Nat, NEW l \in Nat, k <= l,
         Kept(f, s, S, k), Kept(g, u, S, l), \A i \in 1..k : s[i] = u[i]
  PROVE  \A i \in 0..k : f[i] = g[i]
<1> DEFINE P == {n \in Nat : n <= k => f[n] = g[n]}
<1>1. 0 \in P
  BY DEF Kept
<1>2. ASSUME NEW n \in P PROVE n + 1 \in P
  <2>1. SUFFICES ASSUME n + 1 <= k PROVE f[n + 1] = g[n + 1]
    OBVIOUS
  <2>2. f[n] = g[n] /\ s[n + 1] = u[n + 1] /\ n + 1 \in 0..k /\ n + 1 \in 0..l /\ n + 1 # 0
    BY <2>1
  <2>3. /\ f[n + 1] = IF s[n + 1] \in S THEN Append(f[n], s[n + 1]) ELSE f[n]
        /\ g[n + 1] = IF u[n + 1] \in S THEN Append(g[n], u[n + 1]) ELSE g[n]
    <3>1. n \in Nat /\ (n + 1) - 1 = n
      OBVIOUS
    <3>2. \A i \in 0..k : f[i] = IF i = 0 THEN <<>>
            ELSE IF s[i] \in S THEN Append(f[i - 1], s[i]) ELSE f[i - 1]
      BY DEF Kept
    <3>3. \A i \in 0..l : g[i] = IF i = 0 THEN <<>>
            ELSE IF u[i] \in S THEN Append(g[i - 1], u[i]) ELSE g[i - 1]
      BY DEF Kept
    <3> QED BY <2>2, <3>1, <3>2, <3>3
  <2> QED BY <2>2, <2>3
<1>3. P = Nat
  <2> HIDE DEF P
  <2>1. P \in SUBSET Nat
    BY DEF P
  <2> QED BY <1>1, <1>2, <2>1, AllNumbers
<1> QED BY <1>3

\* Keep is where such a function ends.
LEMMA KeepIs ==
  ASSUME NEW s, NEW S, Len(s) \in Nat
  PROVE  \E f : Kept(f, s, S, Len(s)) /\ Keep(s, S) = f[Len(s)]
<1>1. \E f : f = [i \in 0..Len(s) |-> IF i = 0 THEN <<>>
                    ELSE IF s[i] \in S THEN Append(f[i - 1], s[i]) ELSE f[i - 1]]
  <2>1. \E f : Kept(f, s, S, Len(s))
    BY KeptExists
  <2> QED BY <2>1, Zenon DEF Kept
<1> DEFINE f == CHOOSE f : f = [i \in 0..Len(s) |-> IF i = 0 THEN <<>>
                    ELSE IF s[i] \in S THEN Append(f[i - 1], s[i]) ELSE f[i - 1]]
<1>2. f = [i \in 0..Len(s) |-> IF i = 0 THEN <<>>
             ELSE IF s[i] \in S THEN Append(f[i - 1], s[i]) ELSE f[i - 1]]
  BY <1>1
<1>3. Keep(s, S) = f[Len(s)]
  BY DEF Keep
<1> QED BY <1>2, <1>3 DEF Kept

\* Nothing is kept of nothing.
LEMMA KeepNone == ASSUME NEW S PROVE Keep(<<>>, S) = <<>>
<1>1. PICK f : Kept(f, <<>>, S, 0) /\ Keep(<<>>, S) = f[0]
  <2>1. Len(<<>>) = 0
    OBVIOUS
  <2>2. \E f : Kept(f, <<>>, S, Len(<<>>)) /\ Keep(<<>>, S) = f[Len(<<>>)]
    BY <2>1, KeepIs
  <2> QED BY <2>1, <2>2
<1> QED BY <1>1 DEF Kept

\* What is appended is kept or not.
LEMMA KeepAppend ==
  ASSUME NEW X, NEW s \in Seq(X), NEW x \in X, NEW S
  PROVE  Keep(Append(s, x), S) = IF x \in S THEN Append(Keep(s, S), x) ELSE Keep(s, S)
<1>1. PICK u : u = Append(s, x)
  OBVIOUS
<1>2. PICK l \in Nat : l = Len(u) /\ l # 0 /\ u[l] = x /\ Len(s) = l - 1 /\ l - 1 \in Nat
                       /\ \A i \in 1..l - 1 : s[i] = u[i]
  BY <1>1
<1>3. PICK f : Kept(f, s, S, l - 1) /\ Keep(s, S) = f[l - 1]
  BY <1>2, KeepIs
<1>4. PICK g : Kept(g, u, S, l) /\ Keep(u, S) = g[l]
  BY <1>2, KeepIs
<1>5. f[l - 1] = g[l - 1]
  <2>1. l - 1 <= l /\ l - 1 \in 0..l - 1
    BY <1>2
  <2>2. \A i \in 0..l - 1 : f[i] = g[i]
    BY <1>2, <1>3, <1>4, <2>1, KeptIsOne
  <2> QED BY <2>1, <2>2
<1>6. g[l] = IF u[l] \in S THEN Append(g[l - 1], u[l]) ELSE g[l - 1]
  <2>1. l \in 0..l /\ l # 0
    BY <1>2
  <2> QED BY <1>4, <2>1 DEF Kept
<1> QED BY <1>1, <1>2, <1>3, <1>4, <1>5, <1>6

\* The elements of a sequence with one more.
LEMMA SetOfAppend ==
  ASSUME NEW X, NEW s \in Seq(X), NEW x \in X
  PROVE  ToSet(Append(s, x)) = ToSet(s) \cup {x}
<1>1. /\ Append(s, x) \in Seq(X) /\ Len(Append(s, x)) = Len(s) + 1
      /\ \A i \in 1..Len(s) : Append(s, x)[i] = s[i]
      /\ Append(s, x)[Len(s) + 1] = x
  OBVIOUS
<1>2. DOMAIN Append(s, x) = 1..Len(s) + 1 /\ DOMAIN s = 1..Len(s) /\ Len(s) \in Nat
  BY <1>1
<1>3. ASSUME NEW y \in ToSet(Append(s, x)) PROVE y \in ToSet(s) \cup {x}
  <2>1. PICK i \in 1..Len(s) + 1 : y = Append(s, x)[i]
    BY <1>2 DEF ToSet
  <2>2. CASE i = Len(s) + 1
    BY <1>1, <2>1, <2>2
  <2>3. CASE i # Len(s) + 1
    <3>1. i \in 1..Len(s)
      BY <1>2, <2>3
    <3> QED BY <1>1, <1>2, <2>1, <3>1 DEF ToSet
  <2> QED BY <2>2, <2>3
<1>4. ASSUME NEW y \in ToSet(s) \cup {x} PROVE y \in ToSet(Append(s, x))
  <2>1. CASE y = x
    <3>1. Len(s) + 1 \in DOMAIN Append(s, x)
      BY <1>2
    <3> QED BY <1>1, <2>1, <3>1 DEF ToSet
  <2>2. CASE y \in ToSet(s)
    <3>1. PICK i \in 1..Len(s) : y = s[i]
      BY <1>2, <2>2 DEF ToSet
    <3>2. i \in DOMAIN Append(s, x) /\ y = Append(s, x)[i]
      BY <1>1, <1>2, <3>1
    <3> QED BY <3>2 DEF ToSet
  <2> QED BY <2>1, <2>2
<1> QED BY <1>3, <1>4

\* What is kept are the elements in the set.
LEMMA KeepType ==
  ASSUME NEW X, NEW s \in Seq(X), NEW S
  PROVE  Keep(s, S) \in Seq(X) /\ ToSet(Keep(s, S)) = ToSet(s) \cap S
<1> DEFINE P == {u \in Seq(X) : Keep(u, S) \in Seq(X) /\ ToSet(Keep(u, S)) = ToSet(u) \cap S}
<1>1. <<>> \in P
  <2>1. ToSet(<<>>) = {} /\ <<>> \in Seq(X)
    BY DEF ToSet
  <2> QED BY <2>1, KeepNone
<1>2. ASSUME NEW u \in P, NEW x \in X PROVE Append(u, x) \in P
  <2>1. Keep(u, S) \in Seq(X) /\ ToSet(Keep(u, S)) = ToSet(u) \cap S /\ u \in Seq(X)
    OBVIOUS
  <2>2. Append(u, x) \in Seq(X)
    BY <2>1
  <2>3. Keep(Append(u, x), S) = IF x \in S THEN Append(Keep(u, S), x) ELSE Keep(u, S)
    BY <2>1, KeepAppend
  <2>4. ToSet(Append(u, x)) = ToSet(u) \cup {x}
    BY <2>1, SetOfAppend
  <2>5. CASE x \in S
    <3>1. ToSet(Append(Keep(u, S), x)) = ToSet(Keep(u, S)) \cup {x}
      BY <2>1, SetOfAppend
    <3>2. Append(Keep(u, S), x) \in Seq(X)
      BY <2>1
    <3> QED BY <2>1, <2>2, <2>3, <2>4, <2>5, <3>1, <3>2
  <2>6. CASE x \notin S
    BY <2>1, <2>2, <2>3, <2>4, <2>6
  <2> QED BY <2>5, <2>6
<1>3. P = Seq(X)
  <2> HIDE DEF P
  <2>1. P \in SUBSET Seq(X)
    BY DEF P
  <2> QED BY <1>1, <1>2, <2>1, AllSequences
<1> QED BY <1>3

\* Only the elements of the sequence count.
LEMMA KeepSame ==
  ASSUME NEW X, NEW s \in Seq(X), NEW S, NEW T, ToSet(s) \cap S = ToSet(s) \cap T
  PROVE  Keep(s, S) = Keep(s, T)
<1> DEFINE P == {u \in Seq(X) : ToSet(u) \cap S = ToSet(u) \cap T => Keep(u, S) = Keep(u, T)}
<1>1. <<>> \in P
  BY KeepNone
<1>2. ASSUME NEW u \in P, NEW x \in X PROVE Append(u, x) \in P
  <2>1. SUFFICES ASSUME ToSet(Append(u, x)) \cap S = ToSet(Append(u, x)) \cap T
                 PROVE  Keep(Append(u, x), S) = Keep(Append(u, x), T)
    OBVIOUS
  <2>2. u \in Seq(X) /\ ToSet(Append(u, x)) = ToSet(u) \cup {x}
    BY SetOfAppend
  <2>3. ToSet(u) \cap S = ToSet(u) \cap T /\ (x \in S <=> x \in T)
    BY <2>1, <2>2
  <2>4. Keep(u, S) = Keep(u, T)
    BY <2>3
  <2>5. /\ Keep(Append(u, x), S) = IF x \in S THEN Append(Keep(u, S), x) ELSE Keep(u, S)
        /\ Keep(Append(u, x), T) = IF x \in T THEN Append(Keep(u, T), x) ELSE Keep(u, T)
    BY <2>2, KeepAppend
  <2> QED BY <2>3, <2>4, <2>5
<1>3. P = Seq(X)
  <2> HIDE DEF P
  <2>1. P \in SUBSET Seq(X)
    BY DEF P
  <2> QED BY <1>1, <1>2, <2>1, AllSequences
<1> QED BY <1>3

\* What differs from each other still does.
LEMMA KeepDistinct ==
  ASSUME NEW X, NEW s \in Seq(X), NEW S,
         \A i, j \in DOMAIN s : s[i] = s[j] => i = j
  PROVE  \A i, j \in DOMAIN Keep(s, S) : Keep(s, S)[i] = Keep(s, S)[j] => i = j
<1> DEFINE D(u) == \A i, j \in DOMAIN u : u[i] = u[j] => i = j
           P == {u \in Seq(X) : D(u) => D(Keep(u, S))}
<1>1. <<>> \in P
  BY KeepNone
<1>2. ASSUME NEW u \in P, NEW x \in X PROVE Append(u, x) \in P
  <2>1. SUFFICES ASSUME D(Append(u, x)) PROVE D(Keep(Append(u, x), S))
    <3>1. Append(u, x) \in Seq(X)
      OBVIOUS
    <3> QED BY <3>1
  <2>2. u \in Seq(X) /\ DOMAIN u = 1..Len(u) /\ Len(u) \in Nat
    OBVIOUS
  <2>3. /\ DOMAIN Append(u, x) = 1..Len(u) + 1 /\ Append(u, x)[Len(u) + 1] = x
        /\ \A i \in DOMAIN u : Append(u, x)[i] = u[i]
    BY <2>2
  <2>4. D(u) /\ x \notin ToSet(u)
    BY <2>1, <2>2, <2>3 DEF ToSet
  <2>5. D(Keep(u, S)) /\ Keep(u, S) \in Seq(X) /\ x \notin ToSet(Keep(u, S))
    BY <2>2, <2>4, KeepType
  <2>6. Keep(Append(u, x), S) = IF x \in S THEN Append(Keep(u, S), x) ELSE Keep(u, S)
    BY <2>2, KeepAppend
  <2>7. CASE x \in S
    <3>1. PICK k : k = Keep(u, S)
      OBVIOUS
    <3>2. k \in Seq(X) /\ D(k) /\ x \notin ToSet(k)
      BY <2>5, <3>1
    <3>3. DOMAIN k = 1..Len(k) /\ Len(k) \in Nat /\ \A i \in DOMAIN k : k[i] # x
      BY <3>2 DEF ToSet
    <3>4. /\ DOMAIN Append(k, x) = 1..Len(k) + 1 /\ Append(k, x)[Len(k) + 1] = x
          /\ \A i \in DOMAIN k : Append(k, x)[i] = k[i]
      BY <3>2, <3>3
    <3>5. D(Append(k, x))
      BY <3>2, <3>3, <3>4
    <3> QED BY <2>6, <2>7, <3>1, <3>5
  <2>8. CASE x \notin S
    BY <2>5, <2>6, <2>8
  <2> QED BY <2>7, <2>8
<1>3. P = Seq(X)
  <2> HIDE DEF P
  <2>1. P \in SUBSET Seq(X)
    BY DEF P
  <2> QED BY <1>1, <1>2, <2>1, AllSequences
<1> QED BY <1>3

-----------------------------------------------------------------------------
(* What is of a turn *)

\* Nothing is of any turn.
LEMMA OfNone == ASSUME NEW t PROVE Of(<<>>, t) = <<>>
BY KeepNone DEF Of

\* What is of a turn, as a set.
LEMMA OfType ==
  ASSUME NEW X, NEW s \in Seq(X), NEW t
  PROVE  Of(s, t) \in Seq(X) /\ ToSet(Of(s, t)) = {x \in ToSet(s) : x.turn = t}
<1> DEFINE S == {x \in ToSet(s) : x.turn = t}
<1>1. Keep(s, S) \in Seq(X) /\ ToSet(Keep(s, S)) = ToSet(s) \cap S
  BY KeepType
<1>2. Of(s, t) = Keep(s, S)
  BY DEF Of
<1> QED BY <1>1, <1>2

\* What is appended is of the turn or not.
LEMMA OfAppend ==
  ASSUME NEW X, NEW s \in Seq(X), NEW x \in X, NEW t
  PROVE  Of(Append(s, x), t) = IF x.turn = t THEN Append(Of(s, t), x) ELSE Of(s, t)
<1> DEFINE S == {y \in ToSet(s) : y.turn = t}
           T == {y \in ToSet(Append(s, x)) : y.turn = t}
<1>1. Keep(Append(s, x), T) = IF x \in T THEN Append(Keep(s, T), x) ELSE Keep(s, T)
  BY KeepAppend
<1>2. ToSet(Append(s, x)) = ToSet(s) \cup {x}
  BY SetOfAppend
<1>3. ToSet(s) \cap S = ToSet(s) \cap T
  BY <1>2
<1>4. Keep(s, S) = Keep(s, T)
  <2> HIDE DEF S, T
  <2> QED BY <1>3, KeepSame
<1>5. x \in T <=> x.turn = t
  BY <1>2
<1>6. Of(s, t) = Keep(s, S) /\ Of(Append(s, x), t) = Keep(Append(s, x), T)
  BY DEF Of
<1> QED BY <1>1, <1>4, <1>5, <1>6

\* A sequence with one element replaced, and with one more.
LEMMA Replaced ==
  ASSUME NEW X, NEW s \in Seq(X), NEW x \in X, NEW y \in X, NEW i \in DOMAIN s
  PROVE  /\ [s EXCEPT ![i] = x] \in Seq(X) /\ Len([s EXCEPT ![i] = x]) = Len(s)
         /\ [Append(s, y) EXCEPT ![i] = x] = Append([s EXCEPT ![i] = x], y)
<1>1. Len(s) \in Nat /\ DOMAIN s = 1..Len(s) /\ Append(s, y) \in Seq(X)
  OBVIOUS
<1>2. i \in 1..Len(s) /\ i \in 1..Len(Append(s, y))
  BY <1>1
<1>3. /\ [s EXCEPT ![i] = x] \in Seq(X) /\ Len([s EXCEPT ![i] = x]) = Len(s)
      /\ \A j \in 1..Len(s) : [s EXCEPT ![i] = x][j] = IF j = i THEN x ELSE s[j]
  BY <1>2, ExceptSeq
<1>4. PICK u : u = [s EXCEPT ![i] = x]
  OBVIOUS
<1>5. u \in Seq(X) /\ Len(u) = Len(s) /\ \A j \in 1..Len(s) : u[j] = IF j = i THEN x ELSE s[j]
  BY <1>3, <1>4
<1>6. PICK a : a = Append(s, y)
  OBVIOUS
<1>7. a \in Seq(X) /\ Len(a) = Len(s) + 1 /\ a[Len(s) + 1] = y /\ \A j \in 1..Len(s) : a[j] = s[j]
  BY <1>6
<1>8. /\ [a EXCEPT ![i] = x] \in Seq(X) /\ Len([a EXCEPT ![i] = x]) = Len(s) + 1
      /\ \A j \in 1..Len(s) + 1 : [a EXCEPT ![i] = x][j] = IF j = i THEN x ELSE a[j]
  <2>1. i \in 1..Len(a)
    BY <1>2, <1>6
  <2> QED BY <1>7, <2>1, ExceptSeq
<1>9. [a EXCEPT ![i] = x] = Append(u, y)
  <2>1. PICK b : b = [a EXCEPT ![i] = x]
    OBVIOUS
  <2>2. PICK c : c = Append(u, y)
    OBVIOUS
  <2>3. c \in Seq(X) /\ Len(c) = Len(s) + 1 /\ c[Len(s) + 1] = y /\ \A j \in 1..Len(s) : c[j] = u[j]
    BY <1>5, <2>2
  <2>4. b \in Seq(X) /\ Len(b) = Len(s) + 1 /\ \A j \in 1..Len(s) + 1 : b[j] = IF j = i THEN x ELSE a[j]
    BY <1>8, <2>1
  <2>5. ASSUME NEW j \in 1..Len(s) + 1 PROVE b[j] = c[j]
    <3>1. CASE j = Len(s) + 1
      BY <1>1, <1>2, <1>7, <2>3, <2>4, <3>1
    <3>2. CASE j # Len(s) + 1
      <4>1. j \in 1..Len(s)
        BY <1>1, <3>2
      <4>2. b[j] = IF j = i THEN x ELSE a[j]
        BY <2>4
      <4>3. c[j] = u[j] /\ u[j] = (IF j = i THEN x ELSE s[j]) /\ a[j] = s[j]
        BY <1>5, <1>7, <2>3, <4>1
      <4> QED BY <4>2, <4>3
    <3> QED BY <3>1, <3>2
  <2>6. b \in Seq(X) /\ c \in Seq(X) /\ Len(b) = Len(c) /\ \A j \in 1..Len(b) : b[j] = c[j]
    BY <2>3, <2>4, <2>5
  <2>7. b = c
    BY <2>6, SeqEqual
  <2> QED BY <2>1, <2>2, <2>7
<1> QED BY <1>3, <1>4, <1>6, <1>9

\* A sequence with its last element replaced.
LEMMA LastReplaced ==
  ASSUME NEW X, NEW u \in Seq(X), NEW x \in X, NEW y \in X
  PROVE  [Append(u, y) EXCEPT ![Len(u) + 1] = x] = Append(u, x)
<1>1. PICK b : b = Append(u, y)
  OBVIOUS
<1>2. b \in Seq(X) /\ Len(b) = Len(u) + 1 /\ Len(u) \in Nat /\ \A l \in 1..Len(u) : b[l] = u[l]
  BY <1>1
<1>3. PICK m \in 1..Len(b) : m = Len(u) + 1
  BY <1>2
<1>4. PICK c : c = [b EXCEPT ![m] = x]
  OBVIOUS
<1>5. c \in Seq(X) /\ Len(c) = Len(b) /\ \A l \in 1..Len(b) : c[l] = IF l = m THEN x ELSE b[l]
  BY <1>2, <1>4, ExceptSeq
<1>6. PICK d : d = Append(u, x)
  OBVIOUS
<1>7. d \in Seq(X) /\ Len(d) = Len(u) + 1 /\ d[Len(u) + 1] = x /\ \A l \in 1..Len(u) : d[l] = u[l]
  BY <1>6
<1>8. ASSUME NEW l \in 1..Len(c) PROVE c[l] = d[l]
  <2>1. CASE l = m
    BY <1>2, <1>3, <1>5, <1>7, <2>1
  <2>2. CASE l # m
    <3>1. l \in 1..Len(u)
      BY <1>2, <1>3, <1>5, <2>2
    <3> QED BY <1>2, <1>5, <1>7, <2>2, <3>1
  <2> QED BY <2>1, <2>2
<1>9. c = d
  BY <1>2, <1>5, <1>7, <1>8, SeqEqual
<1> QED BY <1>1, <1>3, <1>4, <1>6, <1>9

\* Where an element of a turn is among those of the turn: what is before it and
\* behind it there is so in the whole, and replacing it in one replaces it in the other.
Placed(X, s, t, i, j) ==
  /\ j \in DOMAIN Of(s, t) /\ Of(s, t)[j] = s[i]
  /\ \A l \in 1..j - 1 : \E k \in 1..i - 1 : Of(s, t)[l] = s[k]
  /\ \A l \in j + 1..Len(Of(s, t)) : \E k \in i + 1..Len(s) : Of(s, t)[l] = s[k]
  /\ \A x \in X : x.turn = t => Of([s EXCEPT ![i] = x], t) = [Of(s, t) EXCEPT ![j] = x]

\* An element has its place before another one is appended, and after that.
LEMMA PlacedBefore ==
  ASSUME NEW X, NEW s \in Seq(X), NEW y \in X, NEW t, NEW i \in DOMAIN s, NEW j,
         Placed(X, s, t, i, j)
  PROVE  Placed(X, Append(s, y), t, i, j)
<1>1. PICK a : a = Append(s, y)
  OBVIOUS
<1>2. PICK o : o = Of(s, t)
  OBVIOUS
<1>3. PICK p : p = Of(a, t)
  OBVIOUS
<1>4. /\ a \in Seq(X) /\ Len(a) = Len(s) + 1 /\ a[Len(s) + 1] = y /\ Len(s) \in Nat
      /\ \A k \in 1..Len(s) : a[k] = s[k]
      /\ i \in 1..Len(s)
  BY <1>1
<1>5. o \in Seq(X) /\ p = IF y.turn = t THEN Append(o, y) ELSE o
  BY <1>1, <1>2, <1>3, OfAppend, OfType
<1>6. /\ j \in 1..Len(o) /\ Len(o) \in Nat /\ o[j] = s[i]
      /\ \A l \in 1..j - 1 : \E k \in 1..i - 1 : o[l] = s[k]
      /\ \A l \in j + 1..Len(o) : \E k \in i + 1..Len(s) : o[l] = s[k]
      /\ \A x \in X : x.turn = t => Of([s EXCEPT ![i] = x], t) = [o EXCEPT ![j] = x]
  <2>1. /\ j \in DOMAIN o /\ o[j] = s[i]
        /\ \A l \in 1..j - 1 : \E k \in 1..i - 1 : o[l] = s[k]
        /\ \A l \in j + 1..Len(o) : \E k \in i + 1..Len(s) : o[l] = s[k]
        /\ \A x \in X : x.turn = t => Of([s EXCEPT ![i] = x], t) = [o EXCEPT ![j] = x]
    BY Zenon, <1>2 DEF Placed
  <2>2. DOMAIN o = 1..Len(o) /\ Len(o) \in Nat
    BY <1>5
  <2> QED BY Zenon, <2>1, <2>2
<1>7. /\ p \in Seq(X) /\ \A l \in 1..Len(o) : p[l] = o[l]
      /\ Len(p) = Len(o) \/ (Len(p) = Len(o) + 1 /\ p[Len(o) + 1] = y)
  BY <1>5
<1>8. j \in DOMAIN p /\ p[j] = a[i]
  BY <1>4, <1>6, <1>7
<1>9. ASSUME NEW l \in 1..j - 1 PROVE \E k \in 1..i - 1 : p[l] = a[k]
  <2>1. l \in 1..Len(o)
    BY <1>6
  <2>2. PICK k \in 1..i - 1 : o[l] = s[k]
    BY <1>6
  <2>3. k \in 1..Len(s)
    BY <1>4
  <2> QED BY <1>4, <1>7, <2>1, <2>2, <2>3
<1>10. ASSUME NEW l \in j + 1..Len(p) PROVE \E k \in i + 1..Len(a) : p[l] = a[k]
  <2>1. CASE l <= Len(o)
    <3>1. l \in 1..Len(o) /\ l \in j + 1..Len(o)
      BY <1>6, <2>1
    <3>2. PICK k \in i + 1..Len(s) : o[l] = s[k]
      BY <1>6, <3>1
    <3>3. k \in 1..Len(s) /\ k \in i + 1..Len(a)
      BY <1>4
    <3> QED BY <1>4, <1>7, <3>1, <3>2, <3>3
  <2>2. CASE ~(l <= Len(o))
    <3>1. l = Len(o) + 1 /\ p[l] = y
      BY <1>6, <1>7, <2>2
    <3>2. Len(s) + 1 \in i + 1..Len(a)
      BY <1>4
    <3> QED BY <1>4, <3>1, <3>2
  <2> QED BY <2>1, <2>2
<1>11. ASSUME NEW x \in X, x.turn = t PROVE Of([a EXCEPT ![i] = x], t) = [p EXCEPT ![j] = x]
  <2>1. PICK r : r = [s EXCEPT ![i] = x]
    OBVIOUS
  <2>2. r \in Seq(X) /\ [a EXCEPT ![i] = x] = Append(r, y)
    BY <1>1, <2>1, Replaced
  <2>3. Of(Append(r, y), t) = IF y.turn = t THEN Append(Of(r, t), y) ELSE Of(r, t)
    BY <2>2, OfAppend
  <2>4. Of(r, t) = [o EXCEPT ![j] = x]
    BY <1>6, <1>11, <2>1
  <2>5. j \in DOMAIN o /\ [Append(o, y) EXCEPT ![j] = x] = Append([o EXCEPT ![j] = x], y)
    BY <1>5, <1>6, Replaced
  <2> QED BY <1>5, <2>2, <2>3, <2>4, <2>5
<1>12. Placed(X, a, t, i, j)
  BY <1>3, <1>8, <1>9, <1>10, <1>11 DEF Placed
<1> QED BY <1>1, <1>12

\* The element appended is placed last.
LEMMA PlacedLast ==
  ASSUME NEW X, NEW s \in Seq(X), NEW y \in X, NEW t, y.turn = t
  PROVE  Placed(X, Append(s, y), t, Len(s) + 1, Len(Of(s, t)) + 1)
<1>1. PICK a : a = Append(s, y)
  OBVIOUS
<1>2. PICK o : o = Of(s, t)
  OBVIOUS
<1>3. PICK p : p = Of(a, t)
  OBVIOUS
<1>4. /\ a \in Seq(X) /\ Len(a) = Len(s) + 1 /\ a[Len(s) + 1] = y /\ Len(s) \in Nat
      /\ \A k \in 1..Len(s) : a[k] = s[k]
  BY <1>1
<1>5. o \in Seq(X) /\ p = Append(o, y) /\ ToSet(o) \subseteq ToSet(s)
  BY <1>1, <1>2, <1>3, OfAppend, OfType
<1>6. /\ Len(o) \in Nat /\ p \in Seq(X) /\ Len(p) = Len(o) + 1 /\ p[Len(o) + 1] = y
      /\ \A l \in 1..Len(o) : p[l] = o[l]
  BY <1>5
<1>7. PICK i, j : i = Len(s) + 1 /\ j = Len(o) + 1
  OBVIOUS
<1>8. j \in DOMAIN p /\ p[j] = a[i]
  BY <1>4, <1>6, <1>7
<1>9. ASSUME NEW l \in 1..j - 1 PROVE \E k \in 1..i - 1 : p[l] = a[k]
  <2>1. l \in 1..Len(o) /\ l \in DOMAIN o
    BY <1>5, <1>6, <1>7
  <2>2. o[l] \in ToSet(s)
    BY <1>5, <2>1 DEF ToSet
  <2>3. PICK k \in 1..Len(s) : o[l] = s[k]
    BY <2>2 DEF ToSet
  <2>4. k \in 1..i - 1
    BY <1>4, <1>7
  <2> QED BY <1>4, <1>6, <2>1, <2>3, <2>4
<1>10. ASSUME NEW l \in j + 1..Len(p) PROVE \E k \in i + 1..Len(a) : p[l] = a[k]
  BY <1>6, <1>7
<1>11. ASSUME NEW x \in X, x.turn = t PROVE Of([a EXCEPT ![i] = x], t) = [p EXCEPT ![j] = x]
  <2>1. \A u \in Seq(X) : [Append(u, y) EXCEPT ![Len(u) + 1] = x] = Append(u, x)
    BY LastReplaced
  <2>2. [a EXCEPT ![i] = x] = Append(s, x) /\ [p EXCEPT ![j] = x] = Append(o, x)
    BY <1>1, <1>5, <1>7, <2>1
  <2>3. Of(Append(s, x), t) = Append(o, x)
    BY <1>2, <1>11, OfAppend
  <2> QED BY <2>2, <2>3
<1>12. Placed(X, a, t, i, j)
  BY <1>3, <1>8, <1>9, <1>10, <1>11 DEF Placed
<1> QED BY <1>1, <1>2, <1>7, <1>12

\* Every element of a turn has its place.
LEMMA PlaceOf ==
  ASSUME NEW X, NEW s \in Seq(X), NEW i \in DOMAIN s, NEW t, s[i].turn = t
  PROVE  \E j : Placed(X, s, t, i, j)
<1> DEFINE P == {u \in Seq(X) : \A k \in DOMAIN u : u[k].turn = t => \E j : Placed(X, u, t, k, j)}
<1>1. <<>> \in P
  OBVIOUS
<1>2. ASSUME NEW u \in P, NEW x \in X PROVE Append(u, x) \in P
  <2>1. u \in Seq(X) /\ Len(u) \in Nat /\ DOMAIN u = 1..Len(u)
    OBVIOUS
  <2>2. PICK a : a = Append(u, x)
    OBVIOUS
  <2>3. /\ a \in Seq(X) /\ DOMAIN a = 1..Len(u) + 1 /\ a[Len(u) + 1] = x
        /\ \A k \in 1..Len(u) : a[k] = u[k]
    BY <2>1, <2>2
  <2>4. ASSUME NEW k \in DOMAIN a, a[k].turn = t PROVE \E j : Placed(X, a, t, k, j)
    <3>1. CASE k \in DOMAIN u
      <4>1. u[k].turn = t
        BY <2>1, <2>3, <2>4, <3>1
      <4>2. PICK j : Placed(X, u, t, k, j)
        BY <3>1, <4>1
      <4>3. Placed(X, Append(u, x), t, k, j)
        BY <2>1, <3>1, <4>2, PlacedBefore
      <4> QED BY <2>2, <4>3
    <3>2. CASE k \notin DOMAIN u
      <4>1. k = Len(u) + 1 /\ x.turn = t
        BY <2>1, <2>3, <2>4, <3>2
      <4>2. Placed(X, Append(u, x), t, Len(u) + 1, Len(Of(u, t)) + 1)
        BY <2>1, <4>1, PlacedLast
      <4> QED BY <2>2, <4>1, <4>2
    <3> QED BY <3>1, <3>2
  <2> QED BY <2>2, <2>3, <2>4
<1>3. P = Seq(X)
  <2> HIDE DEF P
  <2>1. P \in SUBSET Seq(X)
    BY DEF P
  <2> QED BY <1>1, <1>2, <2>1, AllSequences
<1> QED BY <1>3

\* Sequences that differ in other turns only have the same of this one.
LEMMA OfOthers ==
  ASSUME NEW X, NEW s \in Seq(X), NEW u \in Seq(X), NEW t, Len(s) = Len(u),
         \A i \in DOMAIN s : s[i].turn = t \/ u[i].turn = t => s[i] = u[i]
  PROVE  Of(s, t) = Of(u, t)
<1> DEFINE Like(v, w) == \A i \in DOMAIN v : v[i].turn = t \/ w[i].turn = t => v[i] = w[i]
           P == {v \in Seq(X) : \A w \in Seq(X) :
                   Len(v) = Len(w) /\ Like(v, w) => Of(v, t) = Of(w, t)}
<1>1. <<>> \in P
  <2>1. \A w \in Seq(X) : Len(<<>>) = Len(w) => w = <<>>
    OBVIOUS
  <2> QED BY <2>1
<1>2. ASSUME NEW v \in P, NEW x \in X PROVE Append(v, x) \in P
  <2>1. v \in Seq(X) /\ Len(v) \in Nat /\ DOMAIN v = 1..Len(v)
    OBVIOUS
  <2>2. PICK a : a = Append(v, x)
    OBVIOUS
  <2>3. /\ a \in Seq(X) /\ DOMAIN a = 1..Len(v) + 1 /\ a[Len(v) + 1] = x /\ Len(a) = Len(v) + 1
        /\ \A k \in 1..Len(v) : a[k] = v[k]
    BY <2>1, <2>2
  <2>4. ASSUME NEW w \in Seq(X), Len(a) = Len(w), Like(a, w) PROVE Of(a, t) = Of(w, t)
    <3>1. w # <<>>
      BY <2>1, <2>3, <2>4
    <3>2. PICK f \in Seq(X), y \in X : w = Append(f, y)
      BY <3>1, SequenceEmptyOrAppend
    <3>3. /\ Len(f) = Len(v) /\ w[Len(v) + 1] = y
          /\ \A k \in 1..Len(v) : w[k] = f[k]
      BY <2>1, <2>3, <2>4, <3>2
    <3>4. Like(v, f)
      BY <2>1, <2>3, <2>4, <3>3
    <3>5. x.turn = t \/ y.turn = t => x = y
      <4>1. Len(v) + 1 \in DOMAIN a
        BY <2>1, <2>3
      <4> QED BY <2>3, <2>4, <3>3, <4>1
    <3>6. Of(v, t) = Of(f, t)
      BY <3>3, <3>4
    <3>7. /\ Of(a, t) = IF x.turn = t THEN Append(Of(v, t), x) ELSE Of(v, t)
          /\ Of(w, t) = IF y.turn = t THEN Append(Of(f, t), y) ELSE Of(f, t)
      BY <2>1, <2>2, <3>2, OfAppend
    <3> QED BY <3>5, <3>6, <3>7
  <2> QED BY <2>2, <2>3, <2>4
<1>3. P = Seq(X)
  <2> HIDE DEF P
  <2>1. P \in SUBSET Seq(X)
    BY DEF P
  <2> QED BY <1>1, <1>2, <2>1, AllSequences
<1>4. s \in P /\ Like(s, u)
  BY <1>3
<1> QED BY <1>4

-----------------------------------------------------------------------------
(* Activity *)

Entries == [turn : TurnIds, tool : Tools \cup {None}, status : Status, seq : Nat, last : Nat]
Thinks(a, t) == a.turn = t /\ a.tool = None /\ a.status = "in_progress"
Completed(a) == [a EXCEPT !.status = "completed"]

\* A completed entry is one, of the same turn.
LEMMA CompletedIs ==
  ASSUME NEW a \in Entries
  PROVE  Completed(a) \in Entries /\ Completed(a).turn = a.turn /\ Completed(a).tool = a.tool
         /\ Completed(a).seq = a.seq /\ Completed(a).last = a.last
BY DEF Entries, Completed, Status

\* The last open thought of a turn is finished,
LEMMA FinishThoughtAt ==
  ASSUME NEW s \in Seq(Entries), NEW t, NEW i \in DOMAIN s, Thinks(s[i], t),
         \A k \in i + 1..Len(s) : ~Thinks(s[k], t)
  PROVE  FinishThought(s, t) = [s EXCEPT ![i] = Completed(s[i])]
<1> DEFINE I == {k \in 1..Len(s) : Thinks(s[k], t)}
<1>1. Len(s) \in Nat /\ i \in 1..Len(s)
  OBVIOUS
<1>2. i \in I /\ I \in SUBSET (0..Len(s))
  BY <1>1
<1>3. Max(I) \in I /\ \A m \in I : m <= Max(I)
  <2> HIDE DEF I
  <2> QED BY <1>1, <1>2, LastOf
<1>4. Max(I) = i
  <2>1. PICK m \in I : m = Max(I)
    BY <1>3
  <2>2. i <= m /\ m \in 1..Len(s)
    BY <1>2, <1>3, <2>1
  <2>3. m \notin i + 1..Len(s)
    BY <2>1
  <2>4. m = i
    BY <1>1, <2>2, <2>3
  <2> QED BY <2>1, <2>4
<1>5. SelectLastInSeq(s, LAMBDA a : a.turn = t /\ a.tool = None /\ a.status = "in_progress") = i
  BY <1>2, <1>4 DEF SelectLastInSeq, Thinks
<1>6. i # 0
  BY <1>1
<1>7. FinishThought(s, t) = [s EXCEPT ![i].status = "completed"]
  BY <1>5, <1>6 DEF FinishThought
<1> QED BY <1>7 DEF Completed

\* if there is any.
LEMMA FinishThoughtNone ==
  ASSUME NEW s \in Seq(Entries), NEW t, \A k \in DOMAIN s : ~Thinks(s[k], t)
  PROVE  FinishThought(s, t) = s
<1> DEFINE I == {k \in 1..Len(s) : Thinks(s[k], t)}
<1>1. I = {}
  OBVIOUS
<1>2. SelectLastInSeq(s, LAMBDA a : a.turn = t /\ a.tool = None /\ a.status = "in_progress") = 0
  BY <1>1 DEF SelectLastInSeq, Thinks
<1> QED BY <1>2 DEF FinishThought

\* One of the two is the case.
LEMMA LastThought ==
  ASSUME NEW s \in Seq(Entries), NEW t
  PROVE  \/ \A k \in DOMAIN s : ~Thinks(s[k], t)
         \/ \E i \in DOMAIN s : Thinks(s[i], t) /\ \A k \in i + 1..Len(s) : ~Thinks(s[k], t)
<1> DEFINE I == {k \in 1..Len(s) : Thinks(s[k], t)}
<1>1. SUFFICES ASSUME I # {}
                PROVE  \E i \in DOMAIN s : Thinks(s[i], t) /\ \A k \in i + 1..Len(s) : ~Thinks(s[k], t)
  OBVIOUS
<1>2. I \in SUBSET (0..Len(s)) /\ Len(s) \in Nat
  OBVIOUS
<1>3. Max(I) \in I /\ \A m \in I : m <= Max(I)
  <2> HIDE DEF I
  <2> QED BY <1>1, <1>2, LastOf
<1>4. PICK i \in I : \A m \in I : m <= i
  BY <1>3
<1>5. \A k \in i + 1..Len(s) : k \notin I /\ k \in 1..Len(s)
  BY <1>2, <1>4
<1> QED BY <1>4, <1>5

\* Finishing a thought changes an entry of the turn, but not what it is.
Only(s, u, t) ==
  /\ Len(u) = Len(s)
  /\ \A k \in DOMAIN s : /\ u[k].turn = s[k].turn /\ u[k].tool = s[k].tool
                         /\ u[k].seq = s[k].seq /\ u[k].last = s[k].last
                         /\ s[k].turn # t => u[k] = s[k]

\* Finishing the last open thought of a turn.
LEMMA FinishThoughtIs ==
  ASSUME NEW s \in Seq(Entries), NEW t
  PROVE  FinishThought(s, t) \in Seq(Entries) /\ Only(s, FinishThought(s, t), t)
<1>1. CASE \A k \in DOMAIN s : ~Thinks(s[k], t)
  BY <1>1, FinishThoughtNone DEF Only
<1>2. CASE \E i \in DOMAIN s : Thinks(s[i], t) /\ \A k \in i + 1..Len(s) : ~Thinks(s[k], t)
  <2>1. PICK i \in DOMAIN s : Thinks(s[i], t) /\ \A k \in i + 1..Len(s) : ~Thinks(s[k], t)
    BY <1>2
  <2>2. s[i] \in Entries /\ i \in 1..Len(s)
    OBVIOUS
  <2>3. PICK x \in Entries : x = Completed(s[i])
    BY <2>2, CompletedIs
  <2>4. /\ x.turn = s[i].turn /\ x.tool = s[i].tool /\ x.seq = s[i].seq /\ x.last = s[i].last
        /\ s[i].turn = t
    BY <2>1, <2>2, <2>3, CompletedIs DEF Thinks
  <2>5. PICK u : u = [s EXCEPT ![i] = x]
    OBVIOUS
  <2>6. u \in Seq(Entries) /\ Len(u) = Len(s) /\ \A j \in 1..Len(s) : u[j] = IF j = i THEN x ELSE s[j]
    BY <2>2, <2>5, ExceptSeq
  <2>7. u = FinishThought(s, t)
    BY <2>1, <2>3, <2>5, FinishThoughtAt
  <2>8. Only(s, u, t)
    BY <2>4, <2>6 DEF Only
  <2> QED BY <2>6, <2>7, <2>8
<1> QED BY <1>1, <1>2, LastThought

\* It is finished in the turn as in the whole,
LEMMA FinishThoughtOf ==
  ASSUME NEW s \in Seq(Entries), NEW t
  PROVE  Of(FinishThought(s, t), t) = FinishThought(Of(s, t), t)
<1>1. PICK o : o = Of(s, t)
  OBVIOUS
<1>2. o \in Seq(Entries) /\ ToSet(o) \subseteq ToSet(s)
  BY <1>1, OfType
<1>3. CASE \A k \in DOMAIN s : ~Thinks(s[k], t)
  <2>1. \A k \in DOMAIN o : ~Thinks(o[k], t)
    <3>1. \A k \in DOMAIN o : o[k] \in ToSet(s)
      BY <1>2 DEF ToSet
    <3> QED BY <1>3, <3>1 DEF ToSet
  <2>2. FinishThought(o, t) = o /\ FinishThought(s, t) = s
    BY <1>2, <1>3, <2>1, FinishThoughtNone
  <2> QED BY <1>1, <2>2
<1>4. CASE \E i \in DOMAIN s : Thinks(s[i], t) /\ \A k \in i + 1..Len(s) : ~Thinks(s[k], t)
  <2>1. PICK i \in DOMAIN s : Thinks(s[i], t) /\ \A k \in i + 1..Len(s) : ~Thinks(s[k], t)
    BY <1>4
  <2>2. s[i].turn = t /\ s[i] \in Entries
    BY <2>1 DEF Thinks
  <2>3. PICK j : Placed(Entries, s, t, i, j)
    BY <2>2, PlaceOf
  <2>4. /\ j \in DOMAIN o /\ o[j] = s[i]
        /\ \A l \in j + 1..Len(o) : \E k \in i + 1..Len(s) : o[l] = s[k]
        /\ \A x \in Entries : x.turn = t => Of([s EXCEPT ![i] = x], t) = [o EXCEPT ![j] = x]
    BY <1>1, <2>3 DEF Placed
  <2>5. Completed(s[i]) \in Entries /\ Completed(s[i]).turn = t
    BY <2>2, CompletedIs
  <2>6. FinishThought(s, t) = [s EXCEPT ![i] = Completed(s[i])]
    BY <2>1, FinishThoughtAt
  <2>7. FinishThought(o, t) = [o EXCEPT ![j] = Completed(o[j])]
    <3>1. Thinks(o[j], t) /\ \A l \in j + 1..Len(o) : ~Thinks(o[l], t)
      BY <2>1, <2>4
    <3> QED BY <1>2, <2>4, <3>1, FinishThoughtAt
  <2> QED BY <1>1, <2>4, <2>5, <2>6, <2>7
<1> QED BY <1>3, <1>4, LastThought

\* and for other turns nothing changes.
LEMMA OnlyOthers ==
  ASSUME NEW s \in Seq(Entries), NEW u \in Seq(Entries), NEW t, NEW v, v # t, Only(s, u, t)
  PROVE  Of(u, v) = Of(s, v)
<1>1. Len(s) = Len(u) /\ \A k \in DOMAIN s : s[k].turn = v \/ u[k].turn = v => s[k] = u[k]
  BY DEF Only
<1>2. Of(s, v) = Of(u, v)
  BY <1>1, OfOthers
<1> QED BY <1>2

\* An entry replaced by one of its turn.
LEMMA ReplacedOther ==
  ASSUME NEW s \in Seq(Entries), NEW i \in DOMAIN s, NEW x \in Entries, x.turn = s[i].turn,
         NEW v, v # x.turn
  PROVE  Of([s EXCEPT ![i] = x], v) = Of(s, v)
<1>1. i \in 1..Len(s)
  OBVIOUS
<1>2. PICK u : u = [s EXCEPT ![i] = x]
  OBVIOUS
<1>3. u \in Seq(Entries) /\ Len(u) = Len(s) /\ \A j \in 1..Len(s) : u[j] = IF j = i THEN x ELSE s[j]
  BY <1>1, <1>2, ExceptSeq
<1>4. \A k \in DOMAIN s : s[k].turn = v \/ u[k].turn = v => s[k] = u[k]
  BY <1>3
<1>5. Of(s, v) = Of(u, v)
  BY <1>3, <1>4, OfOthers
<1> QED BY <1>2, <1>5

\* The activity of a turn that ends.
Finished(a, t, st) == IF a.turn = t /\ Open(a) THEN [a EXCEPT !.status = st] ELSE a

\* A finished entry is one, of the same turn.
LEMMA FinishedIs ==
  ASSUME NEW a \in Entries, NEW t, NEW st \in Status
  PROVE  /\ Finished(a, t, st) \in Entries /\ Finished(a, t, st).turn = a.turn
         /\ Finished(a, t, st).tool = a.tool /\ Finished(a, t, st).seq = a.seq
         /\ Finished(a, t, st).last = a.last
         /\ a.turn # t => Finished(a, t, st) = a
BY DEF Entries, Finished

\* Every entry is finished.
LEMMA FinishActivityIs ==
  ASSUME NEW s \in Seq(Entries), NEW t, NEW st \in Status
  PROVE  /\ FinishActivity(s, t, st) \in Seq(Entries)
         /\ Only(s, FinishActivity(s, t, st), t)
         /\ \A i \in DOMAIN s : FinishActivity(s, t, st)[i] = Finished(s[i], t, st)
<1>1. PICK u : u = [i \in 1..Len(s) |-> Finished(s[i], t, st)]
  OBVIOUS
<1>2. u = FinishActivity(s, t, st)
  BY <1>1 DEF FinishActivity, Finished
<1>3. Len(s) \in Nat /\ \A i \in 1..Len(s) : s[i] \in Entries
  OBVIOUS
<1>4. \A i \in 1..Len(s) : Finished(s[i], t, st) \in Entries
  BY <1>3, FinishedIs
<1>5. u \in Seq(Entries) /\ Len(u) = Len(s) /\ \A i \in 1..Len(s) : u[i] = Finished(s[i], t, st)
  BY <1>1, <1>3, <1>4
<1>6. Only(s, u, t)
  <2>1. \A k \in 1..Len(s) : /\ u[k].turn = s[k].turn /\ u[k].tool = s[k].tool
                             /\ u[k].seq = s[k].seq /\ u[k].last = s[k].last
                             /\ s[k].turn # t => u[k] = s[k]
    BY <1>3, <1>5, FinishedIs
  <2> QED BY <1>5, <2>1 DEF Only
<1> QED BY <1>2, <1>5, <1>6

\* It is finished in the turn as in the whole.
LEMMA FinishActivityOf ==
  ASSUME NEW s \in Seq(Entries), NEW t, NEW st \in Status
  PROVE  Of(FinishActivity(s, t, st), t) = FinishActivity(Of(s, t), t, st)
<1> DEFINE P == {u \in Seq(Entries) :
                   Of(FinishActivity(u, t, st), t) = FinishActivity(Of(u, t), t, st)}
<1>1. FinishActivity(<<>>, t, st) = <<>>
  BY DEF FinishActivity
<1>2. <<>> \in P
  BY <1>1, OfNone
<1>3. ASSUME NEW u \in Seq(Entries), NEW x \in Entries
      PROVE  FinishActivity(Append(u, x), t, st) = Append(FinishActivity(u, t, st), Finished(x, t, st))
  <2>1. PICK a : a = Append(u, x)
    OBVIOUS
  <2>2. /\ a \in Seq(Entries) /\ Len(a) = Len(u) + 1 /\ a[Len(u) + 1] = x /\ Len(u) \in Nat
        /\ \A k \in 1..Len(u) : a[k] = u[k]
    BY <2>1
  <2>3. PICK f : f = FinishActivity(u, t, st)
    OBVIOUS
  <2>4. f \in Seq(Entries) /\ Len(f) = Len(u) /\ \A k \in 1..Len(u) : f[k] = Finished(u[k], t, st)
    BY <2>3, FinishActivityIs DEF Only
  <2>5. PICK g : g = FinishActivity(a, t, st)
    OBVIOUS
  <2>6. g \in Seq(Entries) /\ Len(g) = Len(a) /\ \A k \in 1..Len(a) : g[k] = Finished(a[k], t, st)
    BY <2>2, <2>5, FinishActivityIs DEF Only
  <2>7. PICK y \in Entries : y = Finished(x, t, st)
    BY FinishedIs
  <2>8. PICK h : h = Append(f, y)
    OBVIOUS
  <2>9. h \in Seq(Entries) /\ Len(h) = Len(u) + 1 /\ h[Len(u) + 1] = y /\ \A k \in 1..Len(u) : h[k] = f[k]
    BY <2>4, <2>8
  <2>10. ASSUME NEW k \in 1..Len(u) + 1 PROVE g[k] = h[k]
    <3>1. CASE k = Len(u) + 1
      BY <2>2, <2>6, <2>7, <2>9, <3>1
    <3>2. CASE k # Len(u) + 1
      <4>1. k \in 1..Len(u)
        BY <2>2, <3>2
      <4> QED BY <2>2, <2>4, <2>6, <2>9, <4>1
    <3> QED BY <3>1, <3>2
  <2>11. g = h
    BY <2>2, <2>6, <2>9, <2>10, SeqEqual
  <2> QED BY <2>1, <2>3, <2>5, <2>7, <2>8, <2>11
<1>4. ASSUME NEW u \in P, NEW x \in Entries PROVE Append(u, x) \in P
  <2>1. u \in Seq(Entries) /\ Of(FinishActivity(u, t, st), t) = FinishActivity(Of(u, t), t, st)
        /\ Append(u, x) \in Seq(Entries)
    OBVIOUS
  <2>2. PICK f \in Seq(Entries) : f = FinishActivity(u, t, st)
    BY <2>1, FinishActivityIs
  <2>3. PICK y \in Entries : y = Finished(x, t, st) /\ y.turn = x.turn
    BY FinishedIs
  <2>4. PICK o \in Seq(Entries) : o = Of(u, t)
    BY <2>1, OfType
  <2>5. Of(Append(f, y), t) = IF y.turn = t THEN Append(Of(f, t), y) ELSE Of(f, t)
    BY OfAppend
  <2>6. Of(Append(u, x), t) = IF x.turn = t THEN Append(o, x) ELSE o
    BY <2>1, <2>4, OfAppend
  <2>7. FinishActivity(Append(u, x), t, st) = Append(f, y)
    BY <1>3, <2>1, <2>2, <2>3
  <2>8. FinishActivity(Append(o, x), t, st) = Append(FinishActivity(o, t, st), y)
    BY <1>3, <2>3
  <2>9. Of(Append(f, y), t) = FinishActivity(Of(Append(u, x), t), t, st)
    BY <2>1, <2>2, <2>3, <2>4, <2>5, <2>6, <2>8
  <2> QED BY <2>1, <2>7, <2>9
<1>5. P = Seq(Entries)
  <2> HIDE DEF P
  <2>1. P \in SUBSET Seq(Entries)
    BY DEF P
  <2> QED BY <1>2, <1>4, <2>1, AllSequences
<1> QED BY <1>5

\* The first of some positions is the one before which there is none.
LEMMA FirstIsOne ==
  ASSUME NEW n \in Nat, NEW I \in SUBSET (1..n), NEW i \in I, \A j \in 1..i - 1 : j \notin I
  PROVE  Min(I) = i
<1>1. I \in SUBSET Nat /\ I # {}
  OBVIOUS
<1>2. PICK m \in I : m = Min(I) /\ \A j \in I : m <= j
  BY <1>1, FirstOf
<1>3. m <= i /\ m \in 1..n /\ i \in 1..n
  BY <1>2
<1>4. m \notin 1..i - 1
  BY <1>2
<1> QED BY <1>2, <1>3, <1>4

\* A thought that goes on.
Later(a, n) == [a EXCEPT !.last = n]

\* It is an entry of the same turn.
LEMMA LaterIs ==
  ASSUME NEW a \in Entries, NEW n \in Nat
  PROVE  /\ Later(a, n) \in Entries /\ Later(a, n).turn = a.turn /\ Later(a, n).tool = a.tool
         /\ Later(a, n).seq = a.seq /\ Later(a, n).status = a.status /\ Later(a, n).last = n
BY DEF Entries, Later

Thought(t, st, n) == [turn |-> t, tool |-> None, status |-> st, seq |-> n, last |-> n]

\* A thought goes on or is a new entry.
LEMMA AppendThoughtIs ==
  ASSUME NEW s \in Seq(Entries), NEW t \in TurnIds, NEW st \in Status, NEW n \in Nat
  PROVE  /\ AppendThought(s, t, st, n) \in Seq(Entries)
         /\ Extends(s, t) =>
              /\ Len(s) \in DOMAIN s /\ Thinks(s[Len(s)], t)
              /\ AppendThought(s, t, st, n) = [s EXCEPT ![Len(s)] = Later(s[Len(s)], n)]
         /\ ~Extends(s, t) =>
              AppendThought(s, t, st, n) = Append(FinishThought(s, t), Thought(t, st, n))
         /\ Thought(t, st, n) \in Entries
<1>1. Thought(t, st, n) \in Entries
  BY DEF Entries, Thought
<1>2. FinishThought(s, t) \in Seq(Entries)
  BY FinishThoughtIs
<1>3. CASE Extends(s, t)
  <2>1. Len(s) \in DOMAIN s /\ Thinks(s[Len(s)], t)
    <3>1. s # <<>> /\ Thinks(s[Len(s)], t)
      BY <1>3 DEF Extends, Thinks
    <3> QED BY <3>1
  <2>2. PICK i \in 1..Len(s) : i = Len(s)
    BY <2>1
  <2>3. s[i] \in Entries
    OBVIOUS
  <2>4. PICK x \in Entries : x = Later(s[i], n)
    BY <2>3, LaterIs
  <2>5. [s EXCEPT ![i] = x] \in Seq(Entries)
    BY <2>2, ExceptSeq
  <2>6. AppendThought(s, t, st, n) = [s EXCEPT ![Len(s)].last = n]
    BY <1>3 DEF AppendThought
  <2>7. [s EXCEPT ![Len(s)].last = n] = [s EXCEPT ![i] = x]
    BY <2>2, <2>4 DEF Later
  <2> QED BY <1>1, <1>3, <2>1, <2>2, <2>4, <2>5, <2>6, <2>7
<1>4. CASE ~Extends(s, t)
  <2>1. AppendThought(s, t, st, n) = Append(FinishThought(s, t), Thought(t, st, n))
    BY <1>4 DEF AppendThought, Thought
  <2>2. Append(FinishThought(s, t), Thought(t, st, n)) \in Seq(Entries)
    BY <1>1, <1>2
  <2> QED BY <1>1, <1>4, <2>1, <2>2
<1> QED BY <1>3, <1>4

\* What that does to the entries of the turn, and of others.
LEMMA ThoughtOf ==
  ASSUME NEW s \in Seq(Entries), NEW t \in TurnIds, NEW st \in Status, NEW n \in Nat,
         NEW o, o = Of(s, t)
  PROVE  /\ Extends(s, t) =>
              /\ Len(o) \in DOMAIN o /\ o[Len(o)] = s[Len(s)]
              /\ Of(AppendThought(s, t, st, n), t) = [o EXCEPT ![Len(o)] = Later(o[Len(o)], n)]
         /\ ~Extends(s, t) =>
              Of(AppendThought(s, t, st, n), t) = Append(FinishThought(o, t), Thought(t, st, n))
         /\ \A v : v # t => Of(AppendThought(s, t, st, n), v) = Of(s, v)
<1>1. /\ AppendThought(s, t, st, n) \in Seq(Entries)
      /\ Extends(s, t) =>
           /\ Len(s) \in DOMAIN s /\ Thinks(s[Len(s)], t)
           /\ AppendThought(s, t, st, n) = [s EXCEPT ![Len(s)] = Later(s[Len(s)], n)]
      /\ ~Extends(s, t) =>
           AppendThought(s, t, st, n) = Append(FinishThought(s, t), Thought(t, st, n))
      /\ Thought(t, st, n) \in Entries
  BY AppendThoughtIs
<1>2. o \in Seq(Entries)
  BY OfType
<1>3. CASE Extends(s, t)
  <2>1. PICK i \in DOMAIN s : i = Len(s) /\ s[i].turn = t
    BY <1>1, <1>3 DEF Thinks
  <2>2. PICK j : Placed(Entries, s, t, i, j)
    BY <2>1, PlaceOf
  <2>3. /\ j \in DOMAIN o /\ o[j] = s[i]
        /\ \A l \in j + 1..Len(o) : \E k \in i + 1..Len(s) : o[l] = s[k]
        /\ \A x \in Entries : x.turn = t => Of([s EXCEPT ![i] = x], t) = [o EXCEPT ![j] = x]
    BY <2>2 DEF Placed
  <2>4. j = Len(o)
    <3>1. i + 1..Len(s) = {} /\ j \in 1..Len(o) /\ Len(o) \in Nat
      BY <1>2, <2>1, <2>3
    <3>2. j < Len(o) => Len(o) \in j + 1..Len(o)
      BY <3>1
    <3> QED BY <2>3, <3>1, <3>2
  <2>5. s[i] \in Entries
    OBVIOUS
  <2>6. PICK x \in Entries : x = Later(s[i], n) /\ x.turn = t
    BY <2>1, <2>5, LaterIs
  <2>7. Of([s EXCEPT ![i] = x], t) = [o EXCEPT ![j] = x]
    BY <2>3, <2>6
  <2>8. ASSUME NEW v, v # t PROVE Of([s EXCEPT ![i] = x], v) = Of(s, v)
    <3>1. x.turn = s[i].turn /\ v # x.turn
      BY <2>1, <2>6, <2>8
    <3> QED BY <3>1, ReplacedOther
  <2> QED BY <1>1, <1>3, <2>1, <2>3, <2>4, <2>6, <2>7, <2>8
<1>4. CASE ~Extends(s, t)
  <2>1. PICK f \in Seq(Entries) : f = FinishThought(s, t) /\ Only(s, f, t)
    BY FinishThoughtIs
  <2>2. PICK x \in Entries : x = Thought(t, st, n) /\ x.turn = t
    BY <1>1 DEF Thought
  <2>3. \A v : Of(Append(f, x), v) = IF x.turn = v THEN Append(Of(f, v), x) ELSE Of(f, v)
    BY OfAppend
  <2>4. Of(f, t) = FinishThought(o, t)
    BY <2>1, FinishThoughtOf
  <2>5. \A v : v # t => Of(f, v) = Of(s, v)
    BY <2>1, OnlyOthers
  <2> QED BY <1>1, <1>4, <2>1, <2>2, <2>3, <2>4, <2>5
<1> QED BY <1>3, <1>4

\* Where a tool is in the activity.
ToolAt(s, k) == First(s, LAMBDA a : a.tool = k)

\* It is the first entry of the tool, if there is one.
LEMMA ToolAtIs ==
  ASSUME NEW s \in Seq(Entries), NEW k
  PROVE  /\ ToolAt(s, k) # 0 =>
              /\ ToolAt(s, k) \in DOMAIN s /\ s[ToolAt(s, k)].tool = k
              /\ \A j \in 1..ToolAt(s, k) - 1 : s[j].tool # k
         /\ ToolAt(s, k) = 0 => \A j \in DOMAIN s : s[j].tool # k
<1> DEFINE I == {j \in 1..Len(s) : s[j].tool = k}
<1>1. ToolAt(s, k) = IF I # {} THEN Min(I) ELSE 0
  BY DEF ToolAt, First, SelectInSeq
<1>2. CASE I = {}
  BY <1>1, <1>2
<1>3. CASE I # {}
  <2>1. I \in SUBSET Nat /\ Len(s) \in Nat
    OBVIOUS
  <2>2. PICK i \in I : i = Min(I) /\ \A m \in I : i <= m
    <3> HIDE DEF I
    <3> QED BY <1>3, <2>1, FirstOf
  <2>3. i \in 1..Len(s) /\ s[i].tool = k
    BY <2>2
  <2>4. \A j \in 1..i - 1 : j \in 1..Len(s) /\ j \notin I
    BY <2>1, <2>2, <2>3
  <2>5. \A j \in 1..i - 1 : s[j].tool # k
    BY <2>4
  <2> QED BY <1>1, <1>3, <2>2, <2>3, <2>5
<1> QED BY <1>2, <1>3

\* An entry of the tool before which there is none is that.
LEMMA ToolAtOne ==
  ASSUME NEW s \in Seq(Entries), NEW k, NEW i \in DOMAIN s, s[i].tool = k,
         \A j \in 1..i - 1 : s[j].tool # k
  PROVE  ToolAt(s, k) = i /\ i # 0
<1> DEFINE I == {j \in 1..Len(s) : s[j].tool = k}
<1>1. ToolAt(s, k) = IF I # {} THEN Min(I) ELSE 0
  BY DEF ToolAt, First, SelectInSeq
<1>2. i \in I /\ Len(s) \in Nat /\ I \in SUBSET (1..Len(s)) /\ \A j \in 1..i - 1 : j \notin I
  OBVIOUS
<1>3. Min(I) = i
  <2> HIDE DEF I
  <2> QED BY <1>2, FirstIsOne
<1> QED BY <1>1, <1>2, <1>3

ToolRecs == [id : Tools, turn : TurnIds \cup {None}, status : Status]
Renewed(a, st, n) == [a EXCEPT !.status = st, !.last = n]
ToolEntry(tool, st, n) ==
  [turn |-> tool.turn, tool |-> tool.id, status |-> st, seq |-> n, last |-> n]

\* A renewed entry is of the same turn and tool.
LEMMA RenewedIs ==
  ASSUME NEW a \in Entries, NEW st \in Status, NEW n \in Nat
  PROVE  /\ Renewed(a, st, n) \in Entries /\ Renewed(a, st, n).turn = a.turn
         /\ Renewed(a, st, n).tool = a.tool /\ Renewed(a, st, n).seq = a.seq
         /\ Renewed(a, st, n).last = n
BY DEF Entries, Renewed

\* A tool's entry is renewed, or is a new one.
LEMMA UpsertIs ==
  ASSUME NEW s \in Seq(Entries), NEW tool \in ToolRecs, tool.turn # None,
         NEW st \in Status, NEW n \in Nat, NEW i
  PROVE  /\ i \in DOMAIN s =>
              /\ UpsertTool(s, i, tool, st, n) = [s EXCEPT ![i] = Renewed(s[i], st, n)]
              /\ UpsertTool(s, i, tool, st, n) \in Seq(Entries)
         /\ i = 0 =>
              /\ UpsertTool(s, i, tool, st, n)
                   = Append(FinishThought(s, tool.turn), ToolEntry(tool, st, n))
              /\ UpsertTool(s, i, tool, st, n) \in Seq(Entries)
         /\ ToolEntry(tool, st, n) \in Entries
<1>1. ToolEntry(tool, st, n) \in Entries
  BY DEF Entries, ToolEntry, ToolRecs
<1>2. CASE i \in DOMAIN s
  <2>1. i \in 1..Len(s) /\ i # 0 /\ s[i] \in Entries
    BY <1>2
  <2>2. PICK x \in Entries : x = Renewed(s[i], st, n)
    BY <2>1, RenewedIs
  <2>3. [s EXCEPT ![i] = x] \in Seq(Entries)
    BY <2>1, ExceptSeq
  <2>4. UpsertTool(s, i, tool, st, n) = [s EXCEPT ![i].status = st, ![i].last = n]
    BY <2>1 DEF UpsertTool
  <2>5. [s EXCEPT ![i].status = st, ![i].last = n] = [s EXCEPT ![i] = x]
    BY <1>2, <2>1, <2>2 DEF Renewed
  <2> QED BY <1>1, <2>1, <2>2, <2>3, <2>4, <2>5
<1>3. CASE i = 0
  <2>1. UpsertTool(s, i, tool, st, n)
          = Append(FinishThought(s, tool.turn), ToolEntry(tool, st, n))
    BY <1>3 DEF UpsertTool, ToolEntry
  <2>2. FinishThought(s, tool.turn) \in Seq(Entries)
    BY FinishThoughtIs
  <2>3. i \notin DOMAIN s
    BY <1>3
  <2> QED BY <1>1, <2>1, <2>2, <2>3
<1> QED BY <1>1, <1>2, <1>3

Upserted(s, o, u, tool, st, n) ==
  /\ u \in Seq(Entries)
  /\ Of(u, tool.turn) = UpsertTool(o, ToolAt(o, tool.id), tool, st, n)
  /\ \A v : v # tool.turn => Of(u, v) = Of(s, v)
  /\ ToolAt(u, tool.id) \in DOMAIN u
  /\ ToolAt(o, tool.id) = 0 => u[ToolAt(u, tool.id)] = ToolEntry(tool, st, n)
  /\ ToolAt(o, tool.id) # 0 =>
       u[ToolAt(u, tool.id)] = Renewed(o[ToolAt(o, tool.id)], st, n)

\* What that does to the entries of its turn, and of others.
LEMMA UpsertOf ==
  ASSUME NEW s \in Seq(Entries), NEW tool \in ToolRecs, tool.turn # None,
         NEW st \in Status, NEW n \in Nat,
         \A i \in DOMAIN s : s[i].tool = tool.id => s[i].turn = tool.turn,
         NEW o, o = Of(s, tool.turn), NEW u, u = UpsertTool(s, ToolAt(s, tool.id), tool, st, n)
  PROVE  Upserted(s, o, u, tool, st, n)
<1> DEFINE k == tool.id  t == tool.turn
<1>1. o \in Seq(Entries) /\ ToSet(o) \subseteq ToSet(s)
  BY OfType
<1>2. CASE ToolAt(s, k) = 0
  <2>1. \A j \in DOMAIN s : s[j].tool # k
    BY <1>2, ToolAtIs
  <2>2. \A j \in DOMAIN o : o[j].tool # k
    BY <1>1, <2>1 DEF ToSet
  <2>3. ToolAt(o, k) = 0
    BY <1>1, <2>2, ToolAtIs
  <2>4. /\ u = Append(FinishThought(s, t), ToolEntry(tool, st, n)) /\ u \in Seq(Entries)
        /\ UpsertTool(o, 0, tool, st, n) = Append(FinishThought(o, t), ToolEntry(tool, st, n))
        /\ ToolEntry(tool, st, n) \in Entries
    BY <1>1, <1>2, UpsertIs
  <2>5. PICK x \in Entries : x = ToolEntry(tool, st, n) /\ x.turn = t /\ x.tool = k
    BY <2>4 DEF ToolEntry
  <2>6. PICK f \in Seq(Entries) : f = FinishThought(s, t) /\ Only(s, f, t)
    BY FinishThoughtIs
  <2>7. \A v : Of(Append(f, x), v) = IF x.turn = v THEN Append(Of(f, v), x) ELSE Of(f, v)
    BY OfAppend
  <2>8. Of(f, t) = FinishThought(o, t)
    BY <2>6, FinishThoughtOf
  <2>9. \A v : v # t => Of(f, v) = Of(s, v)
    BY <2>6, OnlyOthers
  <2>10. /\ u = Append(f, x) /\ Len(u) = Len(f) + 1 /\ u[Len(f) + 1] = x /\ Len(f) \in Nat
         /\ \A j \in 1..Len(f) : u[j] = f[j]
    BY <2>4, <2>5, <2>6
  <2>11. \A j \in 1..Len(f) : u[j].tool # k
    BY <2>1, <2>6, <2>10 DEF Only
  <2>12. ToolAt(u, k) = Len(f) + 1
    <3>1. PICK i \in DOMAIN u : i = Len(f) + 1
      BY <2>4, <2>10
    <3>2. u[i].tool = k /\ \A j \in 1..i - 1 : u[j].tool # k
      BY <2>5, <2>10, <2>11, <3>1
    <3>3. ToolAt(u, k) = i
      BY <2>4, <3>2, ToolAtOne
    <3> QED BY <3>1, <3>3
  <2>13. ToolAt(u, k) \in DOMAIN u
    BY <2>4, <2>10, <2>12
  <2> QED BY <2>3, <2>4, <2>5, <2>6, <2>7, <2>8, <2>9, <2>10, <2>12, <2>13 DEF Upserted
<1>3. CASE ToolAt(s, k) # 0
  <2>1. PICK i \in DOMAIN s : i = ToolAt(s, k) /\ s[i].tool = k /\ \A j \in 1..i - 1 : s[j].tool # k
    BY <1>3, ToolAtIs
  <2>2. s[i].turn = t /\ s[i] \in Entries /\ i \in 1..Len(s) /\ Len(s) \in Nat
    BY <2>1
  <2>3. PICK j : Placed(Entries, s, t, i, j)
    BY <2>2, PlaceOf
  <2>4. /\ j \in DOMAIN o /\ o[j] = s[i]
        /\ \A l \in 1..j - 1 : \E m \in 1..i - 1 : o[l] = s[m]
        /\ \A x \in Entries : x.turn = t => Of([s EXCEPT ![i] = x], t) = [o EXCEPT ![j] = x]
    BY <2>3 DEF Placed
  <2>5. ToolAt(o, k) = j /\ j # 0
    <3>1. o[j].tool = k /\ \A l \in 1..j - 1 : o[l].tool # k
      <4>1. o[j].tool = k
        BY <2>1, <2>4
      <4>2. ASSUME NEW l \in 1..j - 1 PROVE o[l].tool # k
        <5>1. PICK m \in 1..i - 1 : o[l] = s[m]
          BY <2>4
        <5> QED BY <2>1, <5>1
      <4> QED BY <4>1, <4>2
    <3>2. o \in Seq(Entries) /\ j \in DOMAIN o
      BY <1>1, <2>4
    <3> QED BY <3>1, <3>2, ToolAtOne
  <2>6. PICK x \in Entries : x = Renewed(s[i], st, n) /\ x.turn = t /\ x.tool = k
    BY <2>1, <2>2, RenewedIs
  <2>7. u = [s EXCEPT ![i] = x] /\ UpsertTool(o, j, tool, st, n) = [o EXCEPT ![j] = x]
    <3>1. ASSUME NEW w \in Seq(Entries), NEW m \in DOMAIN w
          PROVE  UpsertTool(w, m, tool, st, n) = [w EXCEPT ![m] = Renewed(w[m], st, n)]
      BY UpsertIs
    <3>2. UpsertTool(o, j, tool, st, n) = [o EXCEPT ![j] = Renewed(o[j], st, n)]
      BY <1>1, <2>4, <3>1
    <3> QED BY <2>1, <2>4, <2>6, <3>1, <3>2
  <2>8. Of(u, t) = [o EXCEPT ![j] = x]
    BY <2>4, <2>6, <2>7
  <2>9. ASSUME NEW v, v # t PROVE Of(u, v) = Of(s, v)
    <3>1. x.turn = s[i].turn /\ v # x.turn
      BY <2>2, <2>6, <2>9
    <3>2. Of([s EXCEPT ![i] = x], v) = Of(s, v)
      BY <3>1, ReplacedOther
    <3> QED BY <2>7, <3>2
  <2>10. u \in Seq(Entries) /\ Len(u) = Len(s) /\ \A l \in 1..Len(s) : u[l] = IF l = i THEN x ELSE s[l]
    BY <2>2, <2>7, ExceptSeq
  <2>11. ToolAt(u, k) = i /\ i \in DOMAIN u
    <3>1. i \in DOMAIN u /\ u[i].tool = k /\ \A l \in 1..i - 1 : u[l].tool # k
      BY <2>1, <2>2, <2>6, <2>10
    <3> QED BY <2>10, <3>1, ToolAtOne
  <2>12. u[i] = Renewed(o[j], st, n)
    BY <2>2, <2>4, <2>6, <2>10
  <2> QED BY <2>5, <2>7, <2>8, <2>9, <2>10, <2>11, <2>12 DEF Upserted
<1> QED BY <1>2, <1>3

-----------------------------------------------------------------------------
(* Messages, records and approvals *)

MessageRecs == [turn : TurnIds, role : {"user", "assistant"}, text : Seq(Nat)]

\* A message of the turn goes on at the end of the thread, or is a new one.
Continues(messages, latest, e) ==
  /\ messages # <<>>
  /\ LET last == messages[Len(messages)] IN
     last.turn = e.turn /\ last.role = e.role /\ last.text[Len(last.text)] > latest
Longer(m, n) == [m EXCEPT !.text = Append(@, n)]
NewMessage(e, n) == [turn |-> e.turn, role |-> e.role, text |-> <<n>>]

\* A longer message is one of the same turn, which begins as it did.
LEMMA LongerIs ==
  ASSUME NEW m \in MessageRecs, NEW n \in Nat, m.text # <<>>
  PROVE  /\ Longer(m, n) \in MessageRecs /\ Longer(m, n).turn = m.turn
         /\ Longer(m, n).text = Append(m.text, n)
         /\ Head(Longer(m, n).text) = Head(m.text)
<1>1. m.text \in Seq(Nat)
  BY DEF MessageRecs
<1>2. Longer(m, n).text = Append(m.text, n) /\ Longer(m, n).turn = m.turn
  BY DEF Longer, MessageRecs
<1>3. Append(m.text, n) \in Seq(Nat) /\ Head(Append(m.text, n)) = Head(m.text)
  BY <1>1, HeadTailAppend
<1>4. Longer(m, n) \in MessageRecs
  BY <1>3 DEF Longer, MessageRecs
<1> QED BY <1>2, <1>3, <1>4

\* The messages with another chunk.
LEMMA AppendMessageIs ==
  ASSUME NEW s \in Seq(MessageRecs), NEW latest, NEW n \in Nat,
         NEW e, e.turn \in TurnIds, e.role \in {"user", "assistant"},
         \A m \in ToSet(s) : m.text # <<>>
  PROVE  /\ AppendMessage(s, latest, e, n) \in Seq(MessageRecs)
         /\ AppendMessage(s, latest, e, n) # <<>>
         /\ Continues(s, latest, e) =>
              /\ Len(s) \in DOMAIN s /\ s[Len(s)].turn = e.turn
              /\ AppendMessage(s, latest, e, n) = [s EXCEPT ![Len(s)] = Longer(s[Len(s)], n)]
         /\ ~Continues(s, latest, e) =>
              AppendMessage(s, latest, e, n) = Append(s, NewMessage(e, n))
         /\ NewMessage(e, n) \in MessageRecs
<1>1. NewMessage(e, n) \in MessageRecs
  BY DEF NewMessage, MessageRecs
<1>2. CASE Continues(s, latest, e)
  <2>1. s # <<>> /\ s[Len(s)].turn = e.turn
    BY <1>2 DEF Continues
  <2>2. PICK i \in 1..Len(s) : i = Len(s)
    BY <2>1
  <2>3. s[i] \in MessageRecs /\ s[i] \in ToSet(s)
    BY DEF ToSet
  <2>4. PICK x \in MessageRecs : x = Longer(s[i], n)
    BY <2>3, LongerIs
  <2>5. [s EXCEPT ![i] = x] \in Seq(MessageRecs) /\ Len([s EXCEPT ![i] = x]) = Len(s)
    BY <2>2, ExceptSeq
  <2>6. AppendMessage(s, latest, e, n) = [s EXCEPT ![Len(s)] = Longer(s[Len(s)], n)]
    BY <1>2 DEF Continues, AppendMessage, ReplaceAt, Longer
  <2>7. [s EXCEPT ![i] = x] # <<>>
    BY <2>2, <2>5
  <2> QED BY <1>1, <1>2, <2>1, <2>2, <2>4, <2>5, <2>6, <2>7
<1>3. CASE ~Continues(s, latest, e)
  <2>1. AppendMessage(s, latest, e, n) = Append(s, NewMessage(e, n))
    BY <1>3 DEF Continues, AppendMessage, NewMessage
  <2>2. Append(s, NewMessage(e, n)) \in Seq(MessageRecs) /\ Append(s, NewMessage(e, n)) # <<>>
    BY <1>1, AppendProperties
  <2> QED BY <1>1, <1>3, <2>1, <2>2
<1> QED BY <1>2, <1>3

\* The view's messages follow: its last one is replaced if the chunk went on with it.
LEMMA MessageOf ==
  ASSUME NEW s \in Seq(MessageRecs), NEW latest, NEW n \in Nat,
         NEW e, e.turn \in TurnIds, e.role \in {"user", "assistant"},
         \A m \in ToSet(s) : m.text # <<>> /\ Head(m.text) < n,
         NEW o, o = Of(s, e.turn), NEW u, u = AppendMessage(s, latest, e, n)
  PROVE  /\ Of(u, e.turn) = IF o # <<>> /\ Head(Last(o).text) = Head(Last(u).text)
                            THEN ReplaceAt(o, Len(o), Last(u)) ELSE Append(o, Last(u))
         /\ \A v : v # e.turn => Of(u, v) = Of(s, v)
<1>0. \A m \in ToSet(s) : m.text # <<>>
  OBVIOUS
<1>1. /\ u \in Seq(MessageRecs)
      /\ Continues(s, latest, e) =>
           /\ Len(s) \in DOMAIN s
           /\ s[Len(s)].turn = e.turn
           /\ u = [s EXCEPT ![Len(s)] = Longer(s[Len(s)], n)]
      /\ ~Continues(s, latest, e) => u = Append(s, NewMessage(e, n))
      /\ NewMessage(e, n) \in MessageRecs
  <2>1. AppendMessage(s, latest, e, n) \in Seq(MessageRecs) /\ NewMessage(e, n) \in MessageRecs
    BY <1>0, AppendMessageIs
  <2>2. CASE Continues(s, latest, e)
    <3>1. AppendMessage(s, latest, e, n) = [s EXCEPT ![Len(s)] = Longer(s[Len(s)], n)]
      BY <2>2 DEF Continues, AppendMessage, ReplaceAt, Longer
    <3>2. s # <<>> /\ s[Len(s)].turn = e.turn
      BY <2>2 DEF Continues
    <3>3. Len(s) \in DOMAIN s
      BY <3>2
    <3> QED BY <2>1, <2>2, <3>1, <3>2, <3>3
  <2>3. CASE ~Continues(s, latest, e)
    <3>1. AppendMessage(s, latest, e, n) = Append(s, NewMessage(e, n))
      BY <2>3 DEF Continues, AppendMessage, NewMessage
    <3> QED BY <2>1, <2>3, <3>1
  <2> QED BY <2>2, <2>3
<1>2. o \in Seq(MessageRecs) /\ ToSet(o) \subseteq ToSet(s)
  BY OfType
<1>3. CASE Continues(s, latest, e)
  <2>1. PICK i \in DOMAIN s : i = Len(s) /\ s[i].turn = e.turn /\ i \in 1..Len(s)
    BY <1>1, <1>3
  <2>2. PICK j : Placed(MessageRecs, s, e.turn, i, j)
    BY <2>1, PlaceOf
  <2>3. /\ j \in DOMAIN o /\ o[j] = s[i]
        /\ \A l \in j + 1..Len(o) : \E k \in i + 1..Len(s) : o[l] = s[k]
        /\ \A x \in MessageRecs : x.turn = e.turn
              => Of([s EXCEPT ![i] = x], e.turn) = [o EXCEPT ![j] = x]
    BY <2>2 DEF Placed
  <2>4. j = Len(o) /\ o # <<>>
    <3>1. i + 1..Len(s) = {} /\ j \in 1..Len(o) /\ Len(o) \in Nat
      BY <1>2, <2>1, <2>3
    <3>2. j < Len(o) => Len(o) \in j + 1..Len(o)
      BY <3>1
    <3> QED BY <2>3, <3>1, <3>2
  <2>5. s[i] \in MessageRecs /\ s[i] \in ToSet(s)
    BY <2>1 DEF ToSet
  <2>6. PICK x \in MessageRecs : x = Longer(s[i], n) /\ x.turn = e.turn /\ Head(x.text) = Head(s[i].text)
    BY <2>1, <2>5, LongerIs
  <2>7. u = [s EXCEPT ![i] = x]
    BY <1>1, <1>3, <2>1, <2>6
  <2>8. Last(u) = x
    <3>1. Len(u) = Len(s) /\ u[i] = x
      BY <2>1, <2>7, ExceptSeq
    <3> QED BY <2>1, <3>1 DEF Last
  <2>9. Of(u, e.turn) = ReplaceAt(o, Len(o), x)
    BY <2>3, <2>4, <2>6, <2>7 DEF ReplaceAt
  <2>10. Head(Last(o).text) = Head(x.text)
    BY <2>3, <2>4, <2>6 DEF Last
  <2>11. ASSUME NEW v, v # e.turn PROVE Of(u, v) = Of(s, v)
    <3>1. /\ Len(u) = Len(s)
          /\ \A k \in 1..Len(s) : u[k] = IF k = i THEN x ELSE s[k]
      BY <2>1, <2>7, ExceptSeq
    <3>2. \A k \in DOMAIN s : s[k].turn = v \/ u[k].turn = v => s[k] = u[k]
      BY <2>1, <2>6, <2>11, <3>1
    <3>3. Of(s, v) = Of(u, v)
      BY <1>1, <3>1, <3>2, OfOthers
    <3> QED BY <3>3
  <2> QED BY <2>4, <2>8, <2>9, <2>10, <2>11
<1>4. CASE ~Continues(s, latest, e)
  <2>1. PICK x \in MessageRecs : x = NewMessage(e, n) /\ x.turn = e.turn /\ x.text = <<n>>
    BY <1>1 DEF NewMessage
  <2>2. u = Append(s, x)
    BY <1>1, <1>4, <2>1
  <2>3. Last(u) = x
    BY <2>2 DEF Last
  <2>4. \A v : Of(u, v) = IF x.turn = v THEN Append(Of(s, v), x) ELSE Of(s, v)
    BY <2>2, OfAppend
  <2>5. Head(x.text) = n
    BY <2>1
  <2>6. o # <<>> => Head(Last(o).text) # n
    <3>1. SUFFICES ASSUME o # <<>> PROVE Head(Last(o).text) # n
      OBVIOUS
    <3>2. Len(o) \in DOMAIN o
      BY <1>2, <3>1
    <3>3. Last(o) \in ToSet(s)
      BY <1>2, <3>2 DEF Last, ToSet
    <3>4. \A m \in ToSet(s) : m.text \in Seq(Nat)
      <4>1. \A m \in MessageRecs : m.text \in Seq(Nat)
        BY DEF MessageRecs
      <4> QED BY <4>1 DEF ToSet
    <3>5. PICK m \in ToSet(s) : m = Last(o) /\ m.text \in Seq(Nat) /\ m.text # <<>> /\ Head(m.text) < n
      BY <3>3, <3>4
    <3>6. Head(m.text) \in Nat
      BY <3>5
    <3> QED BY <3>5, <3>6
  <2> QED BY <2>1, <2>3, <2>4, <2>5, <2>6
<1> QED BY <1>3, <1>4

Stops == {None, "end_turn", "error", "cancelled"}
TurnRecs == [turn : Turns, stop : Stops]

\* Where the last record of a turn is.
RecordIn(s, t) == SelectLastInSeq(s, LAMBDA r : r.turn = t)

LastOfTurn(s, t, i) ==
  i \in DOMAIN s /\ s[i].turn = t /\ \A k \in i + 1..Len(s) : s[k].turn # t
NoneOfTurn(s, t) == \A k \in DOMAIN s : s[k].turn # t

\* How a turn ended is in its last record, if it has one.
LEMMA RecordIs ==
  ASSUME NEW th, th.turns \in Seq(TurnRecs), NEW t
  PROVE  \/ NoneOfTurn(th.turns, t) /\ Record(th, t) = "none"
         \/ \E i : LastOfTurn(th.turns, t, i) /\ Record(th, t) = th.turns[i].stop
                  /\ RecordIn(th.turns, t) = i /\ i # 0
<1> DEFINE s == th.turns
           I == {k \in 1..Len(s) : s[k].turn = t}
<1>1. RecordIn(s, t) = IF I # {} THEN Max(I) ELSE 0
  BY DEF RecordIn, SelectLastInSeq
<1>2. CASE I = {}
  <2>1. Record(th, t) = "none"
    BY <1>1, <1>2 DEF Record, RecordIn
  <2>2. NoneOfTurn(s, t)
    BY <1>2 DEF NoneOfTurn
  <2> QED BY <2>1, <2>2
<1>3. CASE I # {}
  <2>1. I \in SUBSET (0..Len(s)) /\ Len(s) \in Nat
    OBVIOUS
  <2>2. PICK i \in I : i = Max(I) /\ \A m \in I : m <= i
    <3> HIDE DEF I
    <3> QED BY <1>3, <2>1, LastOf
  <2>3. i \in 1..Len(s) /\ s[i].turn = t /\ i # 0 /\ i \in DOMAIN s
    BY <2>2
  <2>4. \A k \in i + 1..Len(s) : s[k].turn # t
    <3>1. \A k \in i + 1..Len(s) : k \in 1..Len(s) /\ k \notin I
      BY <2>1, <2>2, <2>3
    <3> QED BY <3>1
  <2>5. RecordIn(s, t) = i
    BY <1>1, <1>3, <2>2
  <2>6. Record(th, t) = s[i].stop
    BY <2>3, <2>5 DEF Record, RecordIn
  <2>7. LastOfTurn(s, t, i)
    BY <2>3, <2>4 DEF LastOfTurn
  <2> QED BY <2>3, <2>5, <2>6, <2>7
<1> QED BY <1>2, <1>3

\* The last record of a turn is the only one behind which there is none.
LEMMA RecordAt ==
  ASSUME NEW th, th.turns \in Seq(TurnRecs), NEW i, NEW t, LastOfTurn(th.turns, t, i)
  PROVE  Record(th, t) = th.turns[i].stop
<1> DEFINE s == th.turns
<1>1. i \in 1..Len(s) /\ Len(s) \in Nat
  BY DEF LastOfTurn
<1>2. PICK j : LastOfTurn(s, t, j) /\ Record(th, t) = s[j].stop
  <2>1. ~NoneOfTurn(s, t)
    BY DEF LastOfTurn, NoneOfTurn
  <2> QED BY <2>1, RecordIs
<1>3. j \in 1..Len(s)
  BY <1>2 DEF LastOfTurn
<1>4. i = j
  <2>1. j > i => j \in i + 1..Len(s)
    BY <1>1, <1>3
  <2>2. i > j => i \in j + 1..Len(s)
    BY <1>1, <1>3
  <2> QED BY <1>1, <1>2, <1>3, <2>1, <2>2 DEF LastOfTurn
<1> QED BY <1>2, <1>4

\* What records say of other turns stays when records are of a turn.
LEMMA RecordSame ==
  ASSUME NEW th, NEW nx, th.turns \in Seq(TurnRecs), nx.turns \in Seq(TurnRecs), NEW t,
         Len(th.turns) <= Len(nx.turns),
         \A k \in DOMAIN th.turns : nx.turns[k].turn = th.turns[k].turn,
         \A k \in DOMAIN th.turns : th.turns[k].turn = t => nx.turns[k] = th.turns[k],
         \A k \in Len(th.turns) + 1..Len(nx.turns) : nx.turns[k].turn # t
  PROVE  Record(nx, t) = Record(th, t)
<1> DEFINE s == th.turns  u == nx.turns
<1>1. /\ Len(s) \in Nat /\ Len(u) \in Nat /\ DOMAIN s = 1..Len(s) /\ DOMAIN u = 1..Len(u)
      /\ DOMAIN s \subseteq DOMAIN u
  OBVIOUS
<1>2. CASE NoneOfTurn(s, t)
  <2>1. Record(th, t) = "none"
    <3>1. \A i : ~LastOfTurn(s, t, i)
      BY <1>2 DEF NoneOfTurn, LastOfTurn
    <3> QED BY <3>1, RecordIs
  <2>2. ASSUME NEW k \in DOMAIN u PROVE u[k].turn # t
    <3>1. k \in DOMAIN s \/ k \in Len(s) + 1..Len(u)
      BY <1>1
    <3> QED BY <1>2, <3>1 DEF NoneOfTurn
  <2>3. Record(nx, t) = "none"
    <3>1. \A i : ~LastOfTurn(u, t, i)
      BY <2>2 DEF LastOfTurn
    <3> QED BY <3>1, RecordIs
  <2> QED BY <2>1, <2>3
<1>3. CASE ~NoneOfTurn(s, t)
  <2>1. PICK i \in DOMAIN s : /\ s[i].turn = t /\ \A k \in i + 1..Len(s) : s[k].turn # t
                              /\ Record(th, t) = s[i].stop
    <3>1. PICK i : LastOfTurn(s, t, i) /\ Record(th, t) = s[i].stop
      BY <1>3, RecordIs
    <3> QED BY <3>1 DEF LastOfTurn
  <2>2. i \in DOMAIN u /\ u[i] = s[i] /\ u[i].turn = t
    BY <1>1, <2>1
  <2>3. ASSUME NEW k \in i + 1..Len(u) PROVE u[k].turn # t
    <3>1. CASE k <= Len(s)
      <4>1. k \in DOMAIN s /\ k \in i + 1..Len(s)
        BY <1>1, <3>1
      <4> QED BY <2>1, <4>1
    <3>2. CASE ~(k <= Len(s))
      <4>1. k \in Len(s) + 1..Len(u)
        BY <1>1, <3>2
      <4> QED BY <4>1
    <3> QED BY <3>1, <3>2
  <2>4. Record(nx, t) = u[i].stop
    BY <2>2, <2>3, RecordAt DEF LastOfTurn
  <2> QED BY <2>1, <2>2, <2>4
<1> QED BY <1>2, <1>3

\* Keeping twice.
LEMMA KeepTwice ==
  ASSUME NEW X, NEW s \in Seq(X), NEW S, NEW T
  PROVE  Keep(Keep(s, S), T) = Keep(s, S \cap T)
<1> DEFINE P == {u \in Seq(X) : Keep(Keep(u, S), T) = Keep(u, S \cap T)}
<1>1. <<>> \in P
  <2>1. <<>> \in Seq(X)
    OBVIOUS
  <2> QED BY <2>1, KeepNone
<1>2. ASSUME NEW u \in P, NEW x \in X PROVE Append(u, x) \in P
  <2>1. u \in Seq(X) /\ Keep(Keep(u, S), T) = Keep(u, S \cap T) /\ Append(u, x) \in Seq(X)
    OBVIOUS
  <2>2. PICK k \in Seq(X) : k = Keep(u, S)
    BY <2>1, KeepType
  <2>3. Keep(Append(u, x), S) = IF x \in S THEN Append(k, x) ELSE k
    BY <2>1, <2>2, KeepAppend
  <2>4. Keep(Append(k, x), T) = IF x \in T THEN Append(Keep(k, T), x) ELSE Keep(k, T)
    BY KeepAppend
  <2>5. Keep(Append(u, x), S \cap T)
          = IF x \in S \cap T THEN Append(Keep(u, S \cap T), x) ELSE Keep(u, S \cap T)
    BY <2>1, KeepAppend
  <2> QED BY <2>1, <2>2, <2>3, <2>4, <2>5
<1>3. P = Seq(X)
  <2> HIDE DEF P
  <2>1. P \in SUBSET Seq(X)
    BY DEF P
  <2> QED BY <1>1, <1>2, <2>1, AllSequences
<1> QED BY <1>3

ApprovalRecs == [id : Approvals, turn : TurnIds \cup {None}]

\* What is without an approval.
LEMMA WithoutIs ==
  ASSUME NEW s \in Seq(ApprovalRecs), NEW id
  PROVE  /\ Without(s, id) \in Seq(ApprovalRecs)
         /\ ToSet(Without(s, id)) = {a \in ToSet(s) : a.id # id}
         /\ \A t : Of(Without(s, id), t) = Without(Of(s, t), id)
         /\ \A t : (\A a \in ToSet(s) : a.id = id => a.turn # t) => Of(Without(s, id), t) = Of(s, t)
<1> DEFINE S == {a \in ToSet(s) : a.id # id}
<1>1. Without(s, id) = Keep(s, S)
  BY DEF Without
<1>2. Keep(s, S) \in Seq(ApprovalRecs) /\ ToSet(Keep(s, S)) = ToSet(s) \cap S
  BY KeepType
<1>3. ToSet(s) \cap S = S
  OBVIOUS
<1>4. ASSUME NEW t
      PROVE  /\ Of(Without(s, id), t) = Without(Of(s, t), id)
             /\ (\A a \in ToSet(s) : a.id = id => a.turn # t) => Of(Without(s, id), t) = Of(s, t)
  <2> DEFINE T == {a \in ToSet(s) : a.turn = t}
             A == {a \in ToSet(Without(s, id)) : a.turn = t}
             B == {a \in ToSet(Of(s, t)) : a.id # id}
  <2>1. Of(s, t) = Keep(s, T) /\ ToSet(Of(s, t)) = T
    <3>1. Of(s, t) = Keep(s, T)
      BY DEF Of
    <3>2. ToSet(Of(s, t)) = {a \in ToSet(s) : a.turn = t}
      BY OfType
    <3> QED BY <3>1, <3>2
  <2>2. Of(Without(s, id), t) = Keep(Keep(s, S), A) /\ Without(Of(s, t), id) = Keep(Keep(s, T), B)
    BY <1>1, <2>1 DEF Of, Without
  <2>3. A = S \cap T /\ B = S \cap T
    BY <1>1, <1>2, <1>3, <2>1
  <2>4. Keep(Keep(s, S), A) = Keep(s, S \cap A) /\ Keep(Keep(s, T), B) = Keep(s, T \cap B)
    BY KeepTwice
  <2>5. S \cap A = S \cap T /\ T \cap B = S \cap T
    BY <2>3
  <2>6. (\A a \in ToSet(s) : a.id = id => a.turn # t) => S \cap T = T
    OBVIOUS
  <2> QED
    <3> HIDE DEF S, T, A, B
    <3> QED BY <2>1, <2>2, <2>4, <2>5, <2>6
<1> QED BY <1>1, <1>2, <1>3, <1>4

-----------------------------------------------------------------------------
(* Threads and projections *)

Phases == {"idle", "preparing", "running", "stopping", "checkpointing", "blocked", "failed"}
CheckRecs == [turn : TurnIds, phase : {"before", "after", "reverted"}]
Threads ==
  [active : Turns \cup {None}, phase : Phases, phaseTurn : Turns \cup {None},
   turns : Seq(TurnRecs), messages : Seq(MessageRecs), activity : Seq(Entries),
   tools : Seq(ToolRecs), approvals : Seq(ApprovalRecs), checkpoints : Seq(CheckRecs),
   parts : SUBSET TurnIds]
ViewRecs ==
  [turn : TurnIds, record : Stops \cup {"none"}, messages : Seq(MessageRecs),
   activity : Seq(Entries), tools : Seq(ToolRecs), approvals : Seq(ApprovalRecs),
   checkpoint : BOOLEAN, canRevert : BOOLEAN, running : BOOLEAN, phase : Phases]
Projections ==
  [views : Seq(ViewRecs), before : SUBSET TurnIds, after : SUBSET TurnIds,
   reverted : SUBSET TurnIds, parts : SUBSET TurnIds, approvalTurn : SUBSET ApprovalRecs]

TurnsIn(s) == {x.turn : x \in ToSet(s)}
AllTurns(th) ==
  TurnsIn(th.turns) \cup TurnsIn(th.messages) \cup TurnsIn(th.activity)
    \cup (TurnsIn(th.tools) \cap TurnIds)
UniqueIds(s) == \A i, j \in DOMAIN s : s[i].id = s[j].id => i = j
CanRevert(th, t) == Revertible(Marks(th), t)

\* The marks of a projection are those of the thread.
MarksAre(p, th) ==
  /\ p.before = Reached(th, "before") /\ p.after = Reached(th, "after")
  /\ p.reverted = Reached(th, "reverted") /\ p.parts = th.parts
  /\ p.approvalTurn = {a \in ToSet(th.approvals) : a.turn # None}

\* A view shows its turn of the thread, with the tools in any order.
Shows(v, th) ==
  /\ v.record = Record(th, v.turn)
  /\ v.messages = Of(th.messages, v.turn)
  /\ v.activity = Of(th.activity, v.turn)
  /\ ToSet(v.tools) = {x \in ToSet(th.tools) : x.turn = v.turn}
  /\ UniqueIds(v.tools)
  /\ v.approvals = Of(th.approvals, v.turn)
  /\ v.checkpoint <=> v.turn \in Reached(th, "after")
  /\ v.canRevert <=> CanRevert(th, v.turn)
  /\ v.running <=> th.active = v.turn
  /\ v.phase = PhaseOf(th, v.turn)

\* A step of the thread that a turn takes no part in.
Alike(th, nx, t) ==
  /\ Record(nx, t) = Record(th, t)
  /\ Of(nx.messages, t) = Of(th.messages, t)
  /\ Of(nx.activity, t) = Of(th.activity, t)
  /\ {x \in ToSet(nx.tools) : x.turn = t} = {x \in ToSet(th.tools) : x.turn = t}
  /\ Of(nx.approvals, t) = Of(th.approvals, t)
  /\ t \in Reached(nx, "after") <=> t \in Reached(th, "after")
  /\ CanRevert(nx, t) <=> CanRevert(th, t)
  /\ nx.active = t <=> th.active = t
  /\ PhaseOf(nx, t) = PhaseOf(th, t)

\* The views show the thread, each of these turns once.
ShownFor(p, th, T) ==
  /\ p \in Projections
  /\ MarksAre(p, th)
  /\ \A i \in DOMAIN p.views : Shows(p.views[i], th)
  /\ \A i, j \in DOMAIN p.views : p.views[i].turn = p.views[j].turn => i = j
  /\ \A t : t \in T <=> \E i \in DOMAIN p.views : p.views[i].turn = t

\* A view that takes no part in a step shows what follows it.
LEMMA ShowsOn ==
  ASSUME NEW v, NEW th, NEW nx, Shows(v, th), Alike(th, nx, v.turn)
  PROVE  Shows(v, nx)
BY DEF Shows, Alike

\* Where the view of a turn is.
LEMMA AtIs ==
  ASSUME NEW p, p.views \in Seq(ViewRecs), NEW t
  PROVE  /\ At(p, t) # 0 =>
              At(p, t) \in DOMAIN p.views /\ p.views[At(p, t)].turn = t
         /\ At(p, t) = 0 => \A i \in DOMAIN p.views : p.views[i].turn # t
<1> DEFINE s == p.views
           I == {j \in 1..Len(s) : s[j].turn = t}
<1>1. At(p, t) = IF I # {} THEN Min(I) ELSE 0
  BY DEF At, First, SelectInSeq
<1>2. CASE I = {}
  BY <1>1, <1>2
<1>3. CASE I # {}
  <2>1. I \in SUBSET Nat
    OBVIOUS
  <2>2. PICK i \in I : i = Min(I)
    <3> HIDE DEF I
    <3> QED BY <1>3, <2>1, FirstOf
  <2>3. i \in 1..Len(s) /\ s[i].turn = t /\ i # 0 /\ i \in DOMAIN s
    BY <2>2
  <2> QED BY <1>1, <1>3, <2>2, <2>3
<1> QED BY <1>2, <1>3

\* A turn shown has its view, and only that.
LEMMA AtShown ==
  ASSUME NEW p, NEW th, NEW T, ShownFor(p, th, T), NEW t
  PROVE  /\ t \in T => /\ At(p, t) # 0 /\ At(p, t) \in DOMAIN p.views
                       /\ p.views[At(p, t)].turn = t /\ p.views[At(p, t)] \in ViewRecs
                       /\ Shows(p.views[At(p, t)], th)
         /\ t \notin T => At(p, t) = 0
<1>1. p.views \in Seq(ViewRecs)
  BY DEF ShownFor, Projections
<1>2. /\ At(p, t) # 0 => At(p, t) \in DOMAIN p.views /\ p.views[At(p, t)].turn = t
      /\ At(p, t) = 0 => \A i \in DOMAIN p.views : p.views[i].turn # t
  BY <1>1, AtIs
<1>3. At(p, t) # 0 <=> t \in T
  BY <1>2 DEF ShownFor
<1>4. t \in T => p.views[At(p, t)] \in ViewRecs /\ Shows(p.views[At(p, t)], th)
  BY <1>1, <1>2, <1>3 DEF ShownFor
<1> QED BY <1>2, <1>3, <1>4

\* A step that none of the turns takes part in.
LEMMA ViewsKept ==
  ASSUME NEW p, NEW th, NEW T, ShownFor(p, th, T), NEW q \in Projections, NEW nx,
         q.views = p.views, MarksAre(q, nx), \A t \in T : Alike(th, nx, t)
  PROVE  ShownFor(q, nx, T)
<1>1. ASSUME NEW i \in DOMAIN p.views PROVE Shows(p.views[i], nx)
  <2>1. p.views[i].turn \in T /\ Shows(p.views[i], th)
    BY DEF ShownFor
  <2> QED BY <2>1, ShowsOn
<1> QED BY <1>1 DEF ShownFor

\* A step of one turn, of which the view is changed.
LEMMA ViewChanged ==
  ASSUME NEW p, NEW th, NEW T, ShownFor(p, th, T), NEW q \in Projections, NEW nx,
         NEW t \in T, NEW v \in ViewRecs, v.turn = t, Shows(v, nx),
         q.views = [p.views EXCEPT ![At(p, t)] = v], MarksAre(q, nx),
         \A s \in T : s # t => Alike(th, nx, s)
  PROVE  ShownFor(q, nx, T)
<1>1. PICK i \in DOMAIN p.views : i = At(p, t) /\ p.views[i].turn = t
  BY AtShown
<1>2. p.views \in Seq(ViewRecs) /\ i \in 1..Len(p.views)
  BY <1>1 DEF ShownFor, Projections
<1>3. PICK u : u = q.views
  OBVIOUS
<1>4. /\ u \in Seq(ViewRecs) /\ Len(u) = Len(p.views)
      /\ \A j \in 1..Len(p.views) : u[j] = IF j = i THEN v ELSE p.views[j]
  BY <1>1, <1>2, <1>3, ExceptSeq
<1>5. DOMAIN u = DOMAIN p.views /\ \A j \in DOMAIN u : u[j].turn = p.views[j].turn
  BY <1>1, <1>2, <1>4
<1>6. ASSUME NEW j \in DOMAIN u PROVE Shows(u[j], nx)
  <2>1. CASE j = i
    BY <1>2, <1>4, <1>5, <2>1
  <2>2. CASE j # i
    <3>1. u[j] = p.views[j] /\ p.views[j].turn \in T /\ p.views[j].turn # t /\ Shows(p.views[j], th)
      BY <1>1, <1>2, <1>4, <1>5, <2>2 DEF ShownFor
    <3> QED BY <3>1, ShowsOn
  <2> QED BY <2>1, <2>2
<1> QED BY <1>3, <1>5, <1>6 DEF ShownFor

\* A step of a turn that was not shown and is from then on.
LEMMA ViewAdded ==
  ASSUME NEW p, NEW th, NEW T, ShownFor(p, th, T), NEW q \in Projections, NEW nx,
         NEW t, t \notin T, NEW v \in ViewRecs, v.turn = t, Shows(v, nx),
         q.views = Append(p.views, v), MarksAre(q, nx),
         \A s \in T : Alike(th, nx, s)
  PROVE  ShownFor(q, nx, T \cup {t})
<1>1. p.views \in Seq(ViewRecs)
  BY DEF ShownFor, Projections
<1>2. PICK u, l : u = q.views /\ l = Len(p.views) + 1
  OBVIOUS
<1>3. /\ u \in Seq(ViewRecs) /\ DOMAIN u = 1..l /\ u[l] = v /\ l \in DOMAIN u
      /\ DOMAIN p.views = 1..l - 1 /\ \A j \in DOMAIN p.views : u[j] = p.views[j]
      /\ \A j \in DOMAIN u : j = l \/ j \in DOMAIN p.views
      /\ \A j \in DOMAIN p.views : j \in DOMAIN u
  BY <1>1, <1>2
<1>4. ASSUME NEW j \in DOMAIN u PROVE Shows(u[j], nx)
  <2>1. CASE j = l
    BY <1>3, <2>1
  <2>2. CASE j # l
    <3>1. u[j] = p.views[j] /\ p.views[j].turn \in T /\ Shows(p.views[j], th)
      BY <1>3, <2>2 DEF ShownFor
    <3> QED BY <3>1, ShowsOn
  <2> QED BY <2>1, <2>2
<1>5. \A j \in DOMAIN p.views : p.views[j].turn # t
  BY DEF ShownFor
<1>6. \A i, j \in DOMAIN u : u[i].turn = u[j].turn => i = j
  BY <1>3, <1>5 DEF ShownFor
<1>7. ASSUME NEW s PROVE s \in T \cup {t} <=> \E i \in DOMAIN u : u[i].turn = s
  <2>1. ASSUME s \in T PROVE \E i \in DOMAIN u : u[i].turn = s
    <3>1. PICK i \in DOMAIN p.views : p.views[i].turn = s
      BY <2>1 DEF ShownFor
    <3> QED BY <1>3, <3>1
  <2>2. ASSUME s = t PROVE \E i \in DOMAIN u : u[i].turn = s
    BY <1>3, <2>2
  <2>3. ASSUME NEW i \in DOMAIN u, u[i].turn = s PROVE s \in T \cup {t}
    <3>1. CASE i = l
      BY <1>3, <2>3, <3>1
    <3>2. CASE i # l
      <4>1. i \in DOMAIN p.views /\ p.views[i].turn = s
        BY <1>3, <2>3, <3>2
      <4> QED BY <4>1 DEF ShownFor
    <3> QED BY <3>1, <3>2
  <2> QED BY <2>1, <2>2, <2>3
<1> QED BY <1>2, <1>4, <1>6, <1>7 DEF ShownFor

-----------------------------------------------------------------------------
(* What an event does to the activity *)

\* Entries are numbered in their order, up to n.
ActivityOK(s, n) ==
  /\ \A i, j \in DOMAIN s : i < j => s[i].seq < s[j].seq
  /\ \A i \in DOMAIN s : s[i].seq <= s[i].last /\ s[i].last <= n

\* An entry of a tool is of the tool's turn.
HasTools(s, tools) ==
  \A i \in DOMAIN s : s[i].tool # None =>
    \E k \in tools : k.id = s[i].tool /\ k.turn = s[i].turn

\* Event n makes u of the activity s, and concerns the turn t.
Goes(s, u, t, n) ==
  /\ u \in Seq(Entries) /\ ActivityOK(u, n)
  /\ TurnsIn(u) = TurnsIn(s) \cup {t}
  /\ \A v : v # t => Of(u, v) = Of(s, v)
  /\ \E i \in DOMAIN u : u[i].turn = t /\ u[i].last = n

\* Numbers stay as they were.
LEMMA OnlyOK ==
  ASSUME NEW s \in Seq(Entries), NEW u \in Seq(Entries), NEW t, Only(s, u, t),
         NEW n, ActivityOK(s, n)
  PROVE  ActivityOK(u, n) /\ TurnsIn(u) = TurnsIn(s)
         /\ \A K : HasTools(s, K) => HasTools(u, K)
<1>1. DOMAIN u = DOMAIN s
  BY DEF Only
<1>2. ActivityOK(u, n)
  BY <1>1 DEF Only, ActivityOK
<1>3. TurnsIn(u) = TurnsIn(s)
  <2>1. \A w : TurnsIn(w) = {w[i].turn : i \in DOMAIN w}
    BY DEF TurnsIn, ToSet
  <2>2. {u[i].turn : i \in DOMAIN u} = {s[i].turn : i \in DOMAIN s}
    BY <1>1 DEF Only
  <2> QED BY <2>1, <2>2
<1>4. \A K : HasTools(s, K) => HasTools(u, K)
  BY <1>1 DEF Only, HasTools
<1> QED BY <1>2, <1>3, <1>4

\* The turns of a sequence with one more.
LEMMA TurnsOfAppend ==
  ASSUME NEW X, NEW s \in Seq(X), NEW x \in X
  PROVE  TurnsIn(Append(s, x)) = TurnsIn(s) \cup {x.turn}
<1>1. ToSet(Append(s, x)) = ToSet(s) \cup {x}
  BY SetOfAppend
<1> QED BY <1>1 DEF TurnsIn

\* An entry goes on,
LEMMA EntryGoesOn ==
  ASSUME NEW s \in Seq(Entries), NEW n \in Nat, ActivityOK(s, n), NEW i \in DOMAIN s,
         NEW x \in Entries, x.turn = s[i].turn, x.tool = s[i].tool, x.seq = s[i].seq,
         x.last = n + 1, NEW u, u = [s EXCEPT ![i] = x]
  PROVE  /\ Goes(s, u, x.turn, n + 1)
         /\ \A K : HasTools(s, K) => HasTools(u, K)
<1>1. i \in 1..Len(s) /\ DOMAIN s = 1..Len(s)
  OBVIOUS
<1>2. /\ u \in Seq(Entries) /\ Len(u) = Len(s)
      /\ \A j \in 1..Len(s) : u[j] = IF j = i THEN x ELSE s[j]
  BY <1>1, ExceptSeq
<1>3. DOMAIN u = DOMAIN s /\ \A j \in DOMAIN s : u[j] = IF j = i THEN x ELSE s[j]
  BY <1>1, <1>2
<1>4. \A j \in DOMAIN s : s[j].seq \in Nat /\ s[j].last \in Nat
  <2>1. \A a \in Entries : a.seq \in Nat /\ a.last \in Nat
    BY DEF Entries
  <2> QED BY <2>1
<1>5. ActivityOK(u, n + 1)
  <2>1. \A j \in DOMAIN s : u[j].seq = s[j].seq
    BY <1>3
  <2>2. \A j \in DOMAIN s : u[j].seq <= u[j].last /\ u[j].last <= n + 1
    <3>1. s[i].seq <= n
      BY <1>4 DEF ActivityOK
    <3> QED BY <1>3, <1>4, <3>1 DEF ActivityOK
  <2> QED BY <1>3, <2>1, <2>2 DEF ActivityOK
<1>6. TurnsIn(u) = TurnsIn(s) \cup {x.turn}
  <2>1. TurnsIn(u) = {u[j].turn : j \in DOMAIN u} /\ TurnsIn(s) = {s[j].turn : j \in DOMAIN s}
    BY DEF TurnsIn, ToSet
  <2>2. \A j \in DOMAIN s : u[j].turn = s[j].turn
    BY <1>3
  <2> QED BY <1>3, <2>1, <2>2
<1>7. \A K : HasTools(s, K) => HasTools(u, K)
  BY <1>3 DEF HasTools
<1>8. \A v : v # x.turn => Of(u, v) = Of(s, v)
  BY ReplacedOther
<1>9. u[i].turn = x.turn /\ u[i].last = n + 1 /\ i \in DOMAIN u
  BY <1>3
<1> QED BY <1>2, <1>5, <1>6, <1>7, <1>8, <1>9 DEF Goes

\* or a new one is put behind all.
LEMMA EntryIsNew ==
  ASSUME NEW s \in Seq(Entries), NEW n \in Nat, ActivityOK(s, n),
         NEW x \in Entries, x.seq = n + 1, x.last = n + 1,
         NEW u, u = Append(FinishThought(s, x.turn), x)
  PROVE  /\ Goes(s, u, x.turn, n + 1) /\ u[Len(u)] = x /\ Len(u) \in DOMAIN u
         /\ \A K : HasTools(s, K) /\ (x.tool # None => \E k \in K : k.id = x.tool /\ k.turn = x.turn)
                    => HasTools(u, K)
<1>1. PICK f \in Seq(Entries) : f = FinishThought(s, x.turn) /\ Only(s, f, x.turn)
  BY FinishThoughtIs
<1>2. /\ ActivityOK(f, n) /\ TurnsIn(f) = TurnsIn(s)
      /\ \A K : HasTools(s, K) => HasTools(f, K)
  BY <1>1, OnlyOK
<1>3. PICK l \in Nat : l = Len(f) + 1 /\ l = Len(u) /\ l \in DOMAIN u
  BY <1>1
<1>4. /\ u \in Seq(Entries) /\ DOMAIN f = 1..l - 1 /\ DOMAIN u = 1..l /\ u[l] = x
      /\ \A j \in DOMAIN f : u[j] = f[j]
      /\ \A j \in DOMAIN u : j = l \/ j \in DOMAIN f
  BY <1>1, <1>3
<1>5. \A j \in DOMAIN f : f[j].seq \in Nat /\ f[j].last \in Nat /\ f[j].seq < n + 1 /\ f[j].last <= n + 1
  <2>1. \A a \in Entries : a.seq \in Nat /\ a.last \in Nat
    BY DEF Entries
  <2>2. \A j \in DOMAIN f : f[j] \in Entries
    BY <1>1
  <2> QED BY <1>2, <2>1, <2>2 DEF ActivityOK
<1>6. ActivityOK(u, n + 1)
  <2>1. \A i, j \in DOMAIN u : i < j => u[i].seq < u[j].seq
    <3>1. SUFFICES ASSUME NEW i \in DOMAIN u, NEW j \in DOMAIN u, i < j PROVE u[i].seq < u[j].seq
      OBVIOUS
    <3>2. i \in DOMAIN f /\ u[i] = f[i]
      BY <1>4, <3>1
    <3>3. CASE j = l
      BY <1>4, <1>5, <3>2, <3>3
    <3>4. CASE j \in DOMAIN f
      BY <1>2, <1>4, <3>1, <3>2, <3>4 DEF ActivityOK
    <3> QED BY <1>4, <3>3, <3>4
  <2>2. \A i \in DOMAIN u : u[i].seq <= u[i].last /\ u[i].last <= n + 1
    BY <1>2, <1>4, <1>5 DEF ActivityOK
  <2> QED BY <2>1, <2>2 DEF ActivityOK
<1>7. TurnsIn(u) = TurnsIn(s) \cup {x.turn}
  BY <1>1, <1>2, TurnsOfAppend
<1>8. \A v : v # x.turn => Of(u, v) = Of(s, v)
  <2>1. \A v : Of(Append(f, x), v) = IF x.turn = v THEN Append(Of(f, v), x) ELSE Of(f, v)
    BY OfAppend
  <2>2. \A v : v # x.turn => Of(f, v) = Of(s, v)
    BY <1>1, OnlyOthers
  <2> QED BY <1>1, <2>1, <2>2
<1>9. ASSUME NEW K, HasTools(s, K), x.tool # None => \E k \in K : k.id = x.tool /\ k.turn = x.turn
      PROVE  HasTools(u, K)
  <2>1. HasTools(f, K)
    BY <1>2, <1>9
  <2>2. ASSUME NEW i \in DOMAIN u, u[i].tool # None
        PROVE  \E k \in K : k.id = u[i].tool /\ k.turn = u[i].turn
    <3>1. CASE i = l
      BY <1>4, <1>9, <2>2, <3>1
    <3>2. CASE i \in DOMAIN f
      <4>1. u[i] = f[i]
        BY <1>4, <3>2
      <4> QED BY <2>1, <2>2, <3>2, <4>1 DEF HasTools
    <3> QED BY <1>4, <3>1, <3>2
  <2> QED BY <2>2 DEF HasTools
<1> QED BY <1>3, <1>4, <1>6, <1>7, <1>8, <1>9 DEF Goes

\* A thought arrives.
LEMMA ThoughtGoes ==
  ASSUME NEW s \in Seq(Entries), NEW n \in Nat, ActivityOK(s, n),
         NEW t \in TurnIds, NEW st \in Status, NEW u, u = AppendThought(s, t, st, n + 1)
  PROVE  /\ Goes(s, u, t, n + 1) /\ Len(u) \in DOMAIN u /\ u[Len(u)].turn = t
         /\ \A K : HasTools(s, K) => HasTools(u, K)
<1>1. n + 1 \in Nat
  OBVIOUS
<1>2. CASE Extends(s, t)
  <2>1. /\ Len(s) \in DOMAIN s /\ Thinks(s[Len(s)], t)
        /\ u = [s EXCEPT ![Len(s)] = Later(s[Len(s)], n + 1)]
    <3>1. PICK m \in Nat : m = n + 1
      BY <1>1
    <3>2. /\ Len(s) \in DOMAIN s /\ Thinks(s[Len(s)], t)
          /\ AppendThought(s, t, st, m) = [s EXCEPT ![Len(s)] = Later(s[Len(s)], m)]
      BY <1>2, AppendThoughtIs
    <3> QED BY <3>1, <3>2
  <2>2. PICK i \in DOMAIN s : i = Len(s) /\ s[i].turn = t /\ s[i] \in Entries /\ i \in 1..Len(s)
    BY <2>1 DEF Thinks
  <2>3. PICK x \in Entries : /\ x = Later(s[i], n + 1) /\ x.turn = s[i].turn /\ x.tool = s[i].tool
                             /\ x.seq = s[i].seq /\ x.last = n + 1
    BY <1>1, <2>2, LaterIs
  <2>4. u = [s EXCEPT ![i] = x]
    BY <2>1, <2>2, <2>3
  <2>5. Goes(s, u, x.turn, n + 1) /\ \A K : HasTools(s, K) => HasTools(u, K)
    BY <2>2, <2>3, <2>4, EntryGoesOn
  <2>6. u[i] = x /\ Len(u) = i /\ i \in DOMAIN u
    BY <2>2, <2>4, ExceptSeq
  <2> QED BY <2>2, <2>3, <2>5, <2>6
<1>3. CASE ~Extends(s, t)
  <2>1. u = Append(FinishThought(s, t), Thought(t, st, n + 1)) /\ Thought(t, st, n + 1) \in Entries
    <3>1. PICK m \in Nat : m = n + 1
      BY <1>1
    <3>2. AppendThought(s, t, st, m) = Append(FinishThought(s, t), Thought(t, st, m))
      BY <1>3 DEF AppendThought, Thought
    <3>3. Thought(t, st, m) \in Entries
      BY DEF Thought, Entries
    <3> QED BY <3>1, <3>2, <3>3
  <2>2. PICK x \in Entries : /\ x = Thought(t, st, n + 1) /\ x.turn = t /\ x.tool = None
                             /\ x.seq = n + 1 /\ x.last = n + 1
    BY <2>1 DEF Thought
  <2>3. u = Append(FinishThought(s, x.turn), x)
    BY <2>1, <2>2
  <2>4. /\ Goes(s, u, x.turn, n + 1) /\ u[Len(u)] = x /\ Len(u) \in DOMAIN u
        /\ \A K : HasTools(s, K) /\ (x.tool # None => \E k \in K : k.id = x.tool /\ k.turn = x.turn)
                   => HasTools(u, K)
    BY <2>2, <2>3, EntryIsNew
  <2> QED BY <2>2, <2>4
<1> QED BY <1>2, <1>3

\* Something of a tool arrives.
LEMMA ToolGoes ==
  ASSUME NEW s \in Seq(Entries), NEW n \in Nat, ActivityOK(s, n),
         NEW tool \in ToolRecs, tool.turn # None, NEW st \in Status,
         \A i \in DOMAIN s : s[i].tool = tool.id => s[i].turn = tool.turn,
         NEW u, u = UpsertTool(s, ToolAt(s, tool.id), tool, st, n + 1)
  PROVE  /\ Goes(s, u, tool.turn, n + 1)
         /\ ToolAt(s, tool.id) = 0 => Len(u) \in DOMAIN u /\ u[Len(u)].turn = tool.turn
         /\ ToolAt(s, tool.id) # 0 => /\ Len(u) = Len(s) /\ s # <<>>
                                      /\ u[Len(u)].turn = s[Len(s)].turn
         /\ \A K : HasTools(s, K) /\ tool \in K => HasTools(u, K)
<1>1. n + 1 \in Nat /\ ToolEntry(tool, st, n + 1) \in Entries
  BY UpsertIs
<1>2. CASE ToolAt(s, tool.id) = 0
  <2>1. u = Append(FinishThought(s, tool.turn), ToolEntry(tool, st, n + 1))
    BY <1>1, <1>2, UpsertIs
  <2>2. PICK x \in Entries : /\ x = ToolEntry(tool, st, n + 1) /\ x.turn = tool.turn /\ x.tool = tool.id
                             /\ x.seq = n + 1 /\ x.last = n + 1
    BY <1>1 DEF ToolEntry
  <2>3. u = Append(FinishThought(s, x.turn), x)
    BY <2>1, <2>2
  <2>4. /\ Goes(s, u, x.turn, n + 1) /\ u[Len(u)] = x /\ Len(u) \in DOMAIN u
        /\ \A K : HasTools(s, K) /\ (x.tool # None => \E k \in K : k.id = x.tool /\ k.turn = x.turn)
                   => HasTools(u, K)
    BY <2>2, <2>3, EntryIsNew
  <2> QED BY <1>2, <2>2, <2>4
<1>3. CASE ToolAt(s, tool.id) # 0
  <2>1. PICK i \in DOMAIN s : /\ i = ToolAt(s, tool.id) /\ s[i].tool = tool.id
                              /\ s[i].turn = tool.turn /\ s[i] \in Entries /\ i \in 1..Len(s)
    BY <1>3, ToolAtIs
  <2>2. u = [s EXCEPT ![i] = Renewed(s[i], st, n + 1)]
    <3>1. PICK m \in Nat : m = n + 1
      BY <1>1
    <3>2. UpsertTool(s, i, tool, st, m) = [s EXCEPT ![i] = Renewed(s[i], st, m)]
      BY UpsertIs
    <3> QED BY <2>1, <3>1, <3>2
  <2>3. PICK x \in Entries : /\ x = Renewed(s[i], st, n + 1) /\ x.turn = s[i].turn /\ x.tool = s[i].tool
                             /\ x.seq = s[i].seq /\ x.last = n + 1
    BY <1>1, <2>1, RenewedIs
  <2>4. u = [s EXCEPT ![i] = x]
    BY <2>2, <2>3
  <2>5. Goes(s, u, x.turn, n + 1) /\ \A K : HasTools(s, K) => HasTools(u, K)
    BY <2>1, <2>3, <2>4, EntryGoesOn
  <2>6. Len(u) = Len(s) /\ \A j \in 1..Len(s) : u[j] = IF j = i THEN x ELSE s[j]
    BY <2>1, <2>4, ExceptSeq
  <2>7. s # <<>> /\ Len(s) \in 1..Len(s)
    BY <2>1
  <2> QED BY <1>3, <2>1, <2>3, <2>5, <2>6, <2>7
<1> QED BY <1>2, <1>3

-----------------------------------------------------------------------------
(* Tools *)

\* Where a tool is among the tools.
IdAt(s, id) == First(s, LAMBDA t : t.id = id)

\* u is s with this tool in place of the one with its id, if there was one.
ToolsNow(s, u, x) ==
  /\ u \in Seq(ToolRecs) /\ UniqueIds(u)
  /\ ToSet(u) = {y \in ToSet(s) : y.id # x.id} \cup {x}
  /\ IdAt(u, x.id) \in DOMAIN u /\ u[IdAt(u, x.id)] = x

\* It is there, or the tool is unknown.
LEMMA IdAtIs ==
  ASSUME NEW s \in Seq(ToolRecs), NEW id
  PROVE  /\ IdAt(s, id) # 0 => IdAt(s, id) \in DOMAIN s /\ s[IdAt(s, id)].id = id
         /\ IdAt(s, id) = 0 => \A j \in DOMAIN s : s[j].id # id
<1> DEFINE I == {j \in 1..Len(s) : s[j].id = id}
<1>1. IdAt(s, id) = IF I # {} THEN Min(I) ELSE 0
  BY DEF IdAt, First, SelectInSeq
<1>2. CASE I = {}
  BY <1>1, <1>2
<1>3. CASE I # {}
  <2>1. I \in SUBSET Nat
    OBVIOUS
  <2>2. PICK i \in I : i = Min(I)
    <3> HIDE DEF I
    <3> QED BY <1>3, <2>1, FirstOf
  <2>3. i \in 1..Len(s) /\ s[i].id = id /\ i # 0 /\ i \in DOMAIN s
    BY <2>2
  <2> QED BY <1>1, <1>3, <2>2, <2>3
<1> QED BY <1>2, <1>3

\* With ids told apart, it is where that id is.
LEMMA IdAtOne ==
  ASSUME NEW s \in Seq(ToolRecs), UniqueIds(s), NEW i \in DOMAIN s
  PROVE  IdAt(s, s[i].id) = i
<1>1. IdAt(s, s[i].id) # 0
  BY IdAtIs
<1>2. IdAt(s, s[i].id) \in DOMAIN s /\ s[IdAt(s, s[i].id)].id = s[i].id
  BY <1>1, IdAtIs
<1> QED BY <1>2 DEF UniqueIds

\* A tool is added,
LEMMA ToolAdded ==
  ASSUME NEW s \in Seq(ToolRecs), UniqueIds(s), NEW x \in ToolRecs,
         \A j \in DOMAIN s : s[j].id # x.id
  PROVE  ToolsNow(s, Append(s, x), x)
<1>1. PICK u, l : u = Append(s, x) /\ l = Len(s) + 1
  OBVIOUS
<1>2. /\ u \in Seq(ToolRecs) /\ DOMAIN u = 1..l /\ u[l] = x /\ l \in DOMAIN u
      /\ DOMAIN s = 1..l - 1 /\ \A j \in DOMAIN s : u[j] = s[j]
      /\ \A j \in DOMAIN u : j = l \/ j \in DOMAIN s
  BY <1>1
<1>3. UniqueIds(u)
  BY <1>2 DEF UniqueIds
<1>4. ToSet(u) = ToSet(s) \cup {x} /\ \A y \in ToSet(s) : y.id # x.id
  <2>1. ToSet(u) = ToSet(s) \cup {x}
    BY <1>1, SetOfAppend
  <2>2. \A y \in ToSet(s) : y.id # x.id
    BY DEF ToSet
  <2> QED BY <2>1, <2>2
<1>5. IdAt(u, x.id) = l
  BY <1>2, <1>3, IdAtOne
<1> QED BY <1>1, <1>2, <1>3, <1>4, <1>5 DEF ToolsNow

\* or replaced.
LEMMA ToolReplaced ==
  ASSUME NEW s \in Seq(ToolRecs), UniqueIds(s), NEW x \in ToolRecs,
         NEW i \in DOMAIN s, s[i].id = x.id
  PROVE  ToolsNow(s, [s EXCEPT ![i] = x], x)
<1>1. PICK u : u = [s EXCEPT ![i] = x]
  OBVIOUS
<1>2. /\ u \in Seq(ToolRecs) /\ Len(u) = Len(s)
      /\ \A j \in 1..Len(s) : u[j] = IF j = i THEN x ELSE s[j]
  <2>1. i \in 1..Len(s)
    OBVIOUS
  <2> QED BY <1>1, <2>1, ExceptSeq
<1>3. DOMAIN u = DOMAIN s /\ \A j \in DOMAIN s : u[j] = IF j = i THEN x ELSE s[j]
  BY <1>2
<1>4. UniqueIds(u)
  BY <1>3 DEF UniqueIds
<1>5. \A j \in DOMAIN s : j # i => s[j].id # x.id
  BY DEF UniqueIds
<1>6. ToSet(u) = {y \in ToSet(s) : y.id # x.id} \cup {x}
  <2>1. ASSUME NEW y \in ToSet(u) PROVE y \in {z \in ToSet(s) : z.id # x.id} \cup {x}
    <3>1. PICK j \in DOMAIN s : y = u[j]
      BY <1>3 DEF ToSet
    <3>2. s[j] \in ToSet(s)
      BY DEF ToSet
    <3> QED BY <1>3, <1>5, <3>1, <3>2
  <2>2. ASSUME NEW y \in ToSet(s), y.id # x.id PROVE y \in ToSet(u)
    <3>1. PICK j \in DOMAIN s : y = s[j]
      BY DEF ToSet
    <3>2. j # i /\ u[j] = y
      BY <1>3, <2>2, <3>1
    <3> QED BY <1>3, <3>2 DEF ToSet
  <2>3. x \in ToSet(u)
    BY <1>3 DEF ToSet
  <2> QED BY <2>1, <2>2, <2>3
<1>7. IdAt(u, x.id) = i
  <2>1. u[i].id = x.id /\ i \in DOMAIN u
    BY <1>3
  <2>2. IdAt(u, u[i].id) = i
    BY <1>2, <1>4, <2>1, IdAtOne
  <2> QED BY <2>1, <2>2
<1> QED BY <1>1, <1>2, <1>3, <1>4, <1>6, <1>7 DEF ToolsNow

\* What a patch or a new tool does to the tools.
ToolStepOf(s, u, id, active) ==
  \E x \in ToolRecs :
    /\ x.id = id /\ ToolsNow(s, u, x)
    /\ \A y \in ToSet(s) : y.id = id => y.turn \in {None, x.turn}
    /\ x.turn = active \/ \E y \in ToSet(s) : y.turn = x.turn

\* A tool is created.
LEMMA AddedIs ==
  ASSUME NEW s \in Seq(ToolRecs), UniqueIds(s), NEW e, e.tool \in Tools,
         e.status = "in_progress", NEW active \in Turns \cup {None},
         e.tool \notin {y.id : y \in ToSet(s)}
  PROVE  ToolStepOf(s, Added(s, e, active), e.tool, active)
<1>1. PICK x : x = [id |-> e.tool, turn |-> active, status |-> e.status]
  OBVIOUS
<1>2. x \in ToolRecs /\ x.id = e.tool /\ x.turn = active
  BY <1>1 DEF ToolRecs, TurnIds, Status
<1>3. \A y \in ToSet(s) : y.id # e.tool
  OBVIOUS
<1>4. \A j \in DOMAIN s : s[j].id # x.id
  BY <1>2, <1>3 DEF ToSet
<1>5. ToolsNow(s, Append(s, x), x)
  BY <1>2, <1>4, ToolAdded
<1>6. Added(s, e, active) = Append(s, x)
  BY <1>1 DEF Added
<1> QED BY <1>2, <1>3, <1>5, <1>6 DEF ToolStepOf

\* A tool is patched, or made by its first patch.
LEMMA PatchedIs ==
  ASSUME NEW s \in Seq(ToolRecs), UniqueIds(s), NEW e, e.tool \in Tools,
         e.status \in {"completed", "failed", None}, NEW active \in Turns \cup {None}
  PROVE  ToolStepOf(s, Patched(s, IdAt(s, e.tool), e, active), e.tool, active)
<1>1. CASE IdAt(s, e.tool) = 0
  <2>1. PICK x : x = [id |-> e.tool, turn |-> active,
                      status |-> IF e.status = None THEN "in_progress" ELSE e.status]
    OBVIOUS
  <2>2. x \in ToolRecs /\ x.id = e.tool /\ x.turn = active
    BY <2>1 DEF ToolRecs, TurnIds, Status
  <2>3. \A j \in DOMAIN s : s[j].id # x.id
    BY <1>1, <2>2, IdAtIs
  <2>4. ToolsNow(s, Append(s, x), x)
    BY <2>2, <2>3, ToolAdded
  <2>5. Patched(s, 0, e, active) = Append(s, x)
    BY <2>1 DEF Patched
  <2>6. \A y \in ToSet(s) : y.id # e.tool
    BY <2>2, <2>3 DEF ToSet
  <2> QED BY <1>1, <2>2, <2>4, <2>5, <2>6 DEF ToolStepOf
<1>2. CASE IdAt(s, e.tool) # 0
  <2>1. PICK i \in DOMAIN s : i = IdAt(s, e.tool) /\ s[i].id = e.tool /\ i # 0 /\ s[i] \in ToolRecs
    BY <1>2, IdAtIs
  <2>2. PICK x : x = [s[i] EXCEPT !.turn = IF @ = None THEN active ELSE @,
                                  !.status = IF e.status = None THEN @ ELSE e.status]
    OBVIOUS
  <2>3. /\ x \in ToolRecs /\ x.id = e.tool
        /\ x.turn = IF s[i].turn = None THEN active ELSE s[i].turn
    BY <2>1, <2>2 DEF ToolRecs, TurnIds, Status
  <2>4. ToolsNow(s, [s EXCEPT ![i] = x], x)
    BY <2>1, <2>3, ToolReplaced
  <2>5. Patched(s, i, e, active) = [s EXCEPT ![i] = x]
    BY <2>1, <2>2 DEF Patched
  <2>6. \A y \in ToSet(s) : y.id = e.tool => y = s[i]
    BY <2>1 DEF UniqueIds, ToSet
  <2>7. s[i] \in ToSet(s)
    BY DEF ToSet
  <2> QED BY <2>1, <2>3, <2>4, <2>5, <2>6, <2>7 DEF ToolStepOf
<1> QED BY <1>1, <1>2

-----------------------------------------------------------------------------
(* What an event does to a thread *)

PhaseGoes(th, e) ==
  /\ e.phase = "preparing" \/ Terminal(e) \/ th.active = e.turn
  /\ ~Terminal(e) \/ th.phaseTurn = None \/ th.phaseTurn = e.turn

\* The event of a phase, of which both threads accept the same.
LEMMA PhaseIs ==
  ASSUME NEW th, NEW e, NEW n, NEW latest, e.type = "TurnPhaseChanged", e.turn # None
  PROVE  /\ Mutate(th, e, n, latest) = IF PhaseGoes(th, e) THEN WithPhase(th, e) ELSE th
         /\ Apply(th, e, n) = IF PhaseGoes(th, e) THEN WithPhase(th, e) ELSE th
<1>1. None \in {th.phaseTurn, e.turn} <=> th.phaseTurn = None
  OBVIOUS
<1>2. Mutate(th, e, n, latest) = IF PhaseGoes(th, e) THEN WithPhase(th, e) ELSE th
  BY <1>1 DEF Mutate, PhaseGoes
<1>3. Apply(th, e, n) = IF PhaseGoes(th, e) THEN WithPhase(th, e) ELSE th
  BY <1>1 DEF Apply, PhaseGoes
<1> QED BY <1>2, <1>3

\* A thought, which the server opens only in the turn it works on.
LEMMA ThoughtIs ==
  ASSUME NEW th, NEW e, NEW n, NEW latest, e.type = "MessageDelta", e.role = "thought"
  PROVE  /\ Mutate(th, e, n, latest)
              = [th EXCEPT !.activity = AppendThought(@, e.turn, "in_progress", n)]
         /\ Apply(th, e, n)
              = [th EXCEPT !.activity = AppendThought(@, e.turn,
                   IF th.active = e.turn THEN "in_progress" ELSE "completed", n)]
BY DEF Mutate, Apply

\* A chunk of a message.
LEMMA ChunkIs ==
  ASSUME NEW th, NEW e, NEW n, NEW latest,
         e.type \in {"MessageAppended", "MessageDelta"}, e.role # "thought"
  PROVE  /\ Mutate(th, e, n, latest) = [th EXCEPT !.messages = AppendMessage(@, latest, e, n)]
         /\ Apply(th, e, n)
              = [th EXCEPT !.messages = AppendMessage(@, LatestActivity(th.activity, e.turn), e, n)]
BY DEF Mutate, Apply

\* The tools after an event of a tool.
NewTools(th, e) ==
  IF e.type = "ToolCallCreated" THEN Added(th.tools, e, th.active)
  ELSE Patched(th.tools, IdAt(th.tools, e.tool), e, th.active)

\* A tool.
LEMMA ToolIs ==
  ASSUME NEW th, NEW e, NEW n, NEW latest, e.type \in {"ToolCallCreated", "ToolCallPatched"}
  PROVE  /\ Mutate(th, e, n, latest) = RendererTool(th, NewTools(th, e), e.tool, n)
         /\ Apply(th, e, n) = ServerTool(th, NewTools(th, e), e.tool, n)
<1>1. CASE e.type = "ToolCallCreated"
  BY <1>1 DEF Mutate, Apply, NewTools
<1>2. CASE e.type = "ToolCallPatched"
  BY <1>2 DEF Mutate, Apply, NewTools, IdAt
<1> QED BY <1>1, <1>2

\* What is the same for both.
LEMMA CommonIs ==
  ASSUME NEW th, NEW e, NEW n, NEW latest,
         e.type \in {"TurnStarted", "ApprovalRequested", "ApprovalResolved", "Ended",
                     "CheckpointCaptured", "CheckpointReverted", "CheckpointPartReverted"}
  PROVE  Mutate(th, e, n, latest) = Common(th, e, n) /\ Apply(th, e, n) = Common(th, e, n)
BY DEF Mutate, Apply

\* The texts and approvals of a thread.
TextsOK(messages, n) == \A m \in ToSet(messages) : m.text # <<>> /\ Head(m.text) <= n
ApprovalsOK(approvals) == \A a, b \in ToSet(approvals) : a.id = b.id => a = b
ThreadOK(th, n) ==
  /\ th \in Threads
  /\ UniqueIds(th.tools) /\ ApprovalsOK(th.approvals)
  /\ ActivityOK(th.activity, n) /\ HasTools(th.activity, ToSet(th.tools))
  /\ TextsOK(th.messages, n)

\* Numbers up to n are numbers up to n + 1.
LEMMA NumbersOn ==
  ASSUME NEW th \in Threads, NEW n \in Nat
  PROVE  /\ ActivityOK(th.activity, n) => ActivityOK(th.activity, n + 1)
         /\ TextsOK(th.messages, n) => TextsOK(th.messages, n + 1)
<1>1. th.activity \in Seq(Entries) /\ th.messages \in Seq(MessageRecs)
  BY DEF Threads
<1>2. \A i \in DOMAIN th.activity : th.activity[i].last \in Nat
  <2>1. \A a \in Entries : a.last \in Nat
    BY DEF Entries
  <2> QED BY <1>1, <2>1
<1>3. ActivityOK(th.activity, n) => ActivityOK(th.activity, n + 1)
  BY <1>2 DEF ActivityOK
<1>4. \A m \in ToSet(th.messages) : m.text # <<>> => Head(m.text) \in Nat
  <2>1. \A m \in MessageRecs : m.text \in Seq(Nat)
    BY DEF MessageRecs
  <2>2. \A m \in ToSet(th.messages) : m \in MessageRecs
    BY <1>1 DEF ToSet
  <2>3. \A x \in Seq(Nat) : x # <<>> => Head(x) \in Nat
    OBVIOUS
  <2> QED BY <2>1, <2>2, <2>3
<1>5. TextsOK(th.messages, n) => TextsOK(th.messages, n + 1)
  BY <1>4 DEF TextsOK
<1> QED BY <1>3, <1>5

\* A text with one more message.
LEMMA TextsOnWith ==
  ASSUME NEW s \in Seq(MessageRecs), NEW n \in Nat, TextsOK(s, n), NEW x \in MessageRecs,
         x.text # <<>>, Head(x.text) <= n + 1
  PROVE  TextsOK(Append(s, x), n + 1)
<1>1. ToSet(Append(s, x)) = ToSet(s) \cup {x}
  BY SetOfAppend
<1>2. \A m \in ToSet(s) : m.text # <<>> => Head(m.text) \in Nat
  <2>1. \A m \in MessageRecs : m.text \in Seq(Nat)
    BY DEF MessageRecs
  <2>2. \A m \in ToSet(s) : m \in MessageRecs
    BY DEF ToSet
  <2>3. \A t \in Seq(Nat) : t # <<>> => Head(t) \in Nat
    OBVIOUS
  <2> QED BY <2>1, <2>2, <2>3
<1> QED BY <1>1, <1>2 DEF TextsOK

\* Another chunk leaves the texts right, and adds its turn.
LEMMA ChunkOK ==
  ASSUME NEW s \in Seq(MessageRecs), NEW latest, NEW n \in Nat, TextsOK(s, n),
         NEW e, e.turn \in TurnIds, e.role \in {"user", "assistant"},
         NEW u, u = AppendMessage(s, latest, e, n + 1)
  PROVE  /\ u \in Seq(MessageRecs) /\ TextsOK(u, n + 1)
         /\ TurnsIn(u) = TurnsIn(s) \cup {e.turn}
<1>1. CASE Continues(s, latest, e)
  <2>1. u = [s EXCEPT ![Len(s)] = Longer(s[Len(s)], n + 1)]
    BY <1>1 DEF Continues, AppendMessage, ReplaceAt, Longer
  <2>2. s # <<>> /\ s[Len(s)].turn = e.turn
    BY <1>1 DEF Continues
  <2>3. PICK i \in DOMAIN s : i = Len(s) /\ i \in 1..Len(s) /\ s[i] \in MessageRecs /\ s[i] \in ToSet(s)
    BY <2>2 DEF ToSet
  <2>4. s[i].text # <<>> /\ Head(s[i].text) <= n /\ s[i].text \in Seq(Nat)
    BY <2>3 DEF TextsOK, MessageRecs
  <2>5. PICK x : x = Longer(s[i], n + 1)
    OBVIOUS
  <2>6. /\ x \in MessageRecs /\ x.turn = e.turn /\ x.text = Append(s[i].text, n + 1)
        /\ Head(x.text) = Head(s[i].text)
    <3>1. PICK m \in Nat : m = n + 1
      OBVIOUS
    <3>2. PICK y \in MessageRecs : y = s[i] /\ y.text # <<>>
      BY <2>3, <2>4
    <3>3. /\ Longer(y, m) \in MessageRecs /\ Longer(y, m).turn = y.turn
          /\ Longer(y, m).text = Append(y.text, m)
          /\ Head(Longer(y, m).text) = Head(y.text)
      BY <3>2, LongerIs
    <3> QED BY <2>2, <2>3, <2>5, <3>1, <3>2, <3>3
  <2>7. Head(s[i].text) \in Nat /\ x.text # <<>> /\ Head(x.text) <= n + 1
    <3>1. PICK w \in Seq(Nat) : w = s[i].text /\ w # <<>>
      BY <2>4
    <3>2. Head(w) \in Nat
      BY <3>1
    <3>3. PICK m \in Nat : m = n + 1
      OBVIOUS
    <3>4. Append(w, m) # <<>>
      OBVIOUS
    <3>5. Head(w) \in Nat /\ Head(w) <= n /\ x.text # <<>> /\ Head(x.text) = Head(w)
      BY <2>4, <2>6, <3>1, <3>2, <3>3, <3>4
    <3>6. Head(w) <= n + 1
      BY <3>5
    <3> QED BY <3>1, <3>5, <3>6
  <2>8. /\ u \in Seq(MessageRecs) /\ DOMAIN u = DOMAIN s
        /\ \A j \in DOMAIN s : u[j] = IF j = i THEN x ELSE s[j]
    <3>1. u = [s EXCEPT ![i] = x]
      BY <2>1, <2>3, <2>5
    <3>2. PICK y \in MessageRecs : y = x
      BY <2>6
    <3>3. /\ [s EXCEPT ![i] = y] \in Seq(MessageRecs) /\ Len([s EXCEPT ![i] = y]) = Len(s)
          /\ \A j \in 1..Len(s) : [s EXCEPT ![i] = y][j] = IF j = i THEN y ELSE s[j]
      BY <2>3, ExceptSeq
    <3> QED BY <3>1, <3>2, <3>3
  <2>9. TextsOK(u, n + 1)
    <3>1. SUFFICES ASSUME NEW j \in DOMAIN s PROVE u[j].text # <<>> /\ Head(u[j].text) <= n + 1
      BY <2>8 DEF TextsOK, ToSet
    <3>2. CASE j = i
      <4>1. u[j] = x
        BY <2>8, <3>2
      <4> QED BY <2>7, <4>1
    <3>3. CASE j # i
      <4>1. PICK m : m = s[j]
        OBVIOUS
      <4>2. m \in MessageRecs /\ m \in ToSet(s)
        BY <4>1 DEF ToSet
      <4>3. PICK w \in Seq(Nat) : w = m.text /\ w # <<>> /\ Head(w) <= n
        BY <4>2 DEF TextsOK, MessageRecs
      <4>4. Head(w) \in Nat
        BY <4>3
      <4>5. u[j] = m
        BY <2>8, <3>3, <4>1
      <4> QED BY <4>3, <4>4, <4>5
    <3> QED BY <3>2, <3>3
  <2>10. TurnsIn(u) = TurnsIn(s) \cup {e.turn}
    <3>1. TurnsIn(u) = {u[j].turn : j \in DOMAIN u} /\ TurnsIn(s) = {s[j].turn : j \in DOMAIN s}
      BY DEF TurnsIn, ToSet
    <3>2. \A j \in DOMAIN s : u[j].turn = s[j].turn
      BY <2>2, <2>3, <2>6, <2>8
    <3> QED BY <2>2, <2>3, <2>8, <3>1, <3>2
  <2> QED BY <2>8, <2>9, <2>10
<1>2. CASE ~Continues(s, latest, e)
  <2>1. PICK x : x = NewMessage(e, n + 1)
    OBVIOUS
  <2>2. x \in MessageRecs /\ x.turn = e.turn /\ x.text = <<n + 1>>
    BY <2>1 DEF NewMessage, MessageRecs
  <2>3. u = Append(s, x)
    BY <1>2, <2>1 DEF Continues, AppendMessage, NewMessage
  <2>4. TextsOK(u, n + 1)
    <3>1. x.text # <<>> /\ Head(x.text) <= n + 1
      BY <2>2
    <3> QED BY <2>2, <2>3, <3>1, TextsOnWith
  <2>5. u \in Seq(MessageRecs)
    BY <2>2, <2>3
  <2>6. TurnsIn(u) = TurnsIn(s) \cup {x.turn}
    <3>1. ASSUME NEW y \in MessageRecs
          PROVE  TurnsIn(Append(s, y)) = TurnsIn(s) \cup {y.turn}
      BY TurnsOfAppend
    <3> QED BY <2>2, <2>3, <3>1
  <2> QED BY <2>2, <2>4, <2>5, <2>6
<1> QED BY <1>1, <1>2

-----------------------------------------------------------------------------
(* Threads stay right *)

\* A phase.
LEMMA PhaseThread ==
  ASSUME NEW n \in Nat, NEW th, ThreadOK(th, n), NEW e, e.phase \in Phases, e.turn \in Turns,
         NEW nx, nx = WithPhase(th, e)
  PROVE  /\ ThreadOK(nx, n + 1) /\ nx.active = th.active /\ nx.phase = e.phase
         /\ nx.phaseTurn = e.turn /\ nx.turns = th.turns /\ nx.messages = th.messages
         /\ nx.activity = th.activity /\ nx.tools = th.tools /\ nx.approvals = th.approvals
         /\ nx.checkpoints = th.checkpoints /\ nx.parts = th.parts
<1>1. th \in Threads
  BY DEF ThreadOK
<1>2. /\ nx \in Threads /\ nx.active = th.active /\ nx.phase = e.phase
      /\ nx.phaseTurn = e.turn /\ nx.turns = th.turns /\ nx.messages = th.messages
      /\ nx.activity = th.activity /\ nx.tools = th.tools /\ nx.approvals = th.approvals
      /\ nx.checkpoints = th.checkpoints /\ nx.parts = th.parts
  BY <1>1 DEF WithPhase, Threads
<1>3. ThreadOK(nx, n + 1)
  BY <1>1, <1>2, NumbersOn DEF ThreadOK
<1> QED BY <1>2, <1>3

\* A thread after TurnStarted: its record of the turn and the prompt.
Started(th, nx, t, r, x) ==
  /\ nx.active = t /\ nx.phase = "running"
  /\ r.turn = t /\ r.stop = None /\ x.turn = t
  /\ nx.turns = Append(th.turns, r) /\ nx.messages = Append(th.messages, x)
  /\ nx.activity = th.activity /\ nx.tools = th.tools /\ nx.approvals = th.approvals
  /\ nx.checkpoints = th.checkpoints /\ nx.parts = th.parts

\* A turn starts.
LEMMA StartThread ==
  ASSUME NEW n \in Nat, NEW th, ThreadOK(th, n), NEW e, e.type = "TurnStarted", e.turn \in Turns,
         NEW nx, nx = Common(th, e, n + 1),
         NEW r, r = [turn |-> e.turn, stop |-> None],
         NEW x, x = [turn |-> e.turn, role |-> "user", text |-> <<n + 1>>]
  PROVE  /\ ThreadOK(nx, n + 1) /\ r \in TurnRecs /\ x \in MessageRecs
         /\ Started(th, nx, e.turn, r, x) /\ nx.phaseTurn = e.turn
<1>1. th \in Threads
  BY DEF ThreadOK
<1>2. r \in TurnRecs /\ x \in MessageRecs /\ x.text = <<n + 1>>
  BY DEF TurnRecs, Stops, MessageRecs, TurnIds
<1>3. nx = [th EXCEPT !.active = e.turn, !.phase = "running", !.phaseTurn = e.turn,
              !.turns = Append(@, r), !.messages = Append(@, x)]
  BY DEF Common
<1>4. Append(th.turns, r) \in Seq(TurnRecs) /\ Append(th.messages, x) \in Seq(MessageRecs)
  BY <1>1, <1>2 DEF Threads
<1>5. /\ nx \in Threads /\ nx.active = e.turn /\ nx.phase = "running"
      /\ nx.phaseTurn = e.turn /\ nx.turns = Append(th.turns, r)
      /\ nx.messages = Append(th.messages, x)
      /\ nx.activity = th.activity /\ nx.tools = th.tools /\ nx.approvals = th.approvals
      /\ nx.checkpoints = th.checkpoints /\ nx.parts = th.parts
  <2>1. PICK a \in Seq(TurnRecs) : a = Append(th.turns, r)
    BY <1>4
  <2>2. PICK b \in Seq(MessageRecs) : b = Append(th.messages, x)
    BY <1>4
  <2>3. nx = [th EXCEPT !.active = e.turn, !.phase = "running", !.phaseTurn = e.turn,
                !.turns = a, !.messages = b]
    BY <1>3, <2>1, <2>2
  <2>4. nx \in Threads
    BY <1>1, <2>3 DEF Threads, Phases
  <2>5. /\ nx.active = e.turn /\ nx.phase = "running" /\ nx.phaseTurn = e.turn
        /\ nx.turns = a /\ nx.messages = b
    BY <1>1, <2>3 DEF Threads
  <2>6. /\ nx.activity = th.activity /\ nx.tools = th.tools /\ nx.approvals = th.approvals
        /\ nx.checkpoints = th.checkpoints /\ nx.parts = th.parts
    BY <1>1, <2>3 DEF Threads
  <2> QED BY <2>1, <2>2, <2>4, <2>5, <2>6
<1>6. TextsOK(nx.messages, n + 1)
  <2>1. th.messages \in Seq(MessageRecs) /\ TextsOK(th.messages, n)
    BY <1>1 DEF Threads, ThreadOK
  <2>2. x.text # <<>> /\ Head(x.text) <= n + 1
    BY <1>2
  <2> QED BY <1>2, <1>5, <2>1, <2>2, TextsOnWith
<1>7. ThreadOK(nx, n + 1)
  BY <1>1, <1>5, <1>6, NumbersOn DEF ThreadOK
<1>8. r.turn = e.turn /\ r.stop = None /\ x.turn = e.turn
  OBVIOUS
<1> QED BY <1>2, <1>5, <1>7, <1>8 DEF Started

\* A thread with another message, part of an activity or tool.
Steady(th, nx) ==
  /\ nx.active = th.active /\ nx.phase = th.phase /\ nx.turns = th.turns
  /\ nx.checkpoints = th.checkpoints /\ nx.parts = th.parts /\ nx.approvals = th.approvals
Chunked(th, nx, e, latest, n) ==
  /\ Steady(th, nx) /\ nx.activity = th.activity /\ nx.tools = th.tools
  /\ nx.messages = AppendMessage(th.messages, latest, e, n)

\* A chunk of a message.
LEMMA ChunkThread ==
  ASSUME NEW n \in Nat, NEW th, ThreadOK(th, n), NEW e, e.turn \in TurnIds,
         e.role \in {"user", "assistant"}, NEW latest,
         NEW nx, nx = [th EXCEPT !.messages = AppendMessage(@, latest, e, n + 1)]
  PROVE  /\ ThreadOK(nx, n + 1) /\ Chunked(th, nx, e, latest, n + 1)
         /\ nx.phaseTurn = th.phaseTurn
<1>1. th \in Threads /\ th.messages \in Seq(MessageRecs) /\ TextsOK(th.messages, n)
  BY DEF ThreadOK, Threads
<1>2. PICK u : u = AppendMessage(th.messages, latest, e, n + 1)
  OBVIOUS
<1>3. /\ u \in Seq(MessageRecs) /\ TextsOK(u, n + 1)
      /\ TurnsIn(u) = TurnsIn(th.messages) \cup {e.turn}
  BY <1>1, <1>2, ChunkOK
<1>4. /\ nx \in Threads /\ nx.active = th.active /\ nx.phase = th.phase
      /\ nx.phaseTurn = th.phaseTurn /\ nx.turns = th.turns /\ nx.messages = u
      /\ nx.activity = th.activity /\ nx.tools = th.tools /\ nx.approvals = th.approvals
      /\ nx.checkpoints = th.checkpoints /\ nx.parts = th.parts
  BY <1>1, <1>2, <1>3 DEF Threads
<1>5. ThreadOK(nx, n + 1)
  BY <1>1, <1>3, <1>4, NumbersOn DEF ThreadOK
<1> QED BY <1>2, <1>3, <1>4, <1>5 DEF Chunked, Steady

\* A thread with more of a thought.
Thinking(th, nx, t, st, n) ==
  /\ Steady(th, nx) /\ nx.messages = th.messages /\ nx.tools = th.tools
  /\ nx.activity = AppendThought(th.activity, t, st, n)
GoesOn(th, nx, t, n) ==
  nx.phaseTurn = th.phaseTurn /\ Goes(th.activity, nx.activity, t, n)

\* A thought.
LEMMA ThoughtThread ==
  ASSUME NEW n \in Nat, NEW th, ThreadOK(th, n), NEW t \in TurnIds, NEW st \in Status,
         NEW nx, nx = [th EXCEPT !.activity = AppendThought(@, t, st, n + 1)]
  PROVE  ThreadOK(nx, n + 1) /\ Thinking(th, nx, t, st, n + 1) /\ GoesOn(th, nx, t, n + 1)
<1>1. /\ th \in Threads /\ th.activity \in Seq(Entries) /\ ActivityOK(th.activity, n)
      /\ HasTools(th.activity, ToSet(th.tools))
  BY DEF ThreadOK, Threads
<1>2. PICK u : u = AppendThought(th.activity, t, st, n + 1)
  OBVIOUS
<1>3. /\ Goes(th.activity, u, t, n + 1) /\ Len(u) \in DOMAIN u /\ u[Len(u)].turn = t
      /\ HasTools(u, ToSet(th.tools))
  BY <1>1, <1>2, ThoughtGoes
<1>4. u \in Seq(Entries) /\ ActivityOK(u, n + 1)
  BY <1>3 DEF Goes
<1>5. /\ nx \in Threads /\ nx.active = th.active /\ nx.phase = th.phase
      /\ nx.phaseTurn = th.phaseTurn /\ nx.turns = th.turns /\ nx.messages = th.messages
      /\ nx.activity = u /\ nx.tools = th.tools /\ nx.approvals = th.approvals
      /\ nx.checkpoints = th.checkpoints /\ nx.parts = th.parts
  BY <1>1, <1>2, <1>4 DEF Threads
<1>6. ThreadOK(nx, n + 1)
  BY <1>1, <1>3, <1>4, <1>5, NumbersOn DEF ThreadOK
<1> QED BY <1>2, <1>3, <1>5, <1>6 DEF Thinking, Steady, GoesOn

\* An approval is asked for,
LEMMA AskThread ==
  ASSUME NEW n \in Nat, NEW th, ThreadOK(th, n), NEW e, e.type = "ApprovalRequested",
         e.id \in Approvals, \A a \in ToSet(th.approvals) : a.id # e.id,
         NEW nx, nx = Common(th, e, n + 1), NEW a, a = [id |-> e.id, turn |-> th.active]
  PROVE  /\ ThreadOK(nx, n + 1) /\ a \in ApprovalRecs /\ nx.active = th.active /\ nx.phase = th.phase
         /\ nx.phaseTurn = th.phaseTurn /\ nx.turns = th.turns /\ nx.messages = th.messages
         /\ nx.activity = th.activity /\ nx.tools = th.tools
         /\ nx.approvals = Append(th.approvals, a)
         /\ nx.checkpoints = th.checkpoints /\ nx.parts = th.parts
<1>1. th \in Threads /\ th.approvals \in Seq(ApprovalRecs) /\ th.active \in Turns \cup {None}
  BY DEF ThreadOK, Threads
<1>2. a \in ApprovalRecs
  BY <1>1 DEF ApprovalRecs, TurnIds
<1>3. nx = [th EXCEPT !.approvals = Append(@, a)]
  BY DEF Common
<1>4. Append(th.approvals, a) \in Seq(ApprovalRecs)
  BY <1>1, <1>2
<1>5. /\ nx \in Threads /\ nx.active = th.active /\ nx.phase = th.phase
      /\ nx.phaseTurn = th.phaseTurn /\ nx.turns = th.turns /\ nx.messages = th.messages
      /\ nx.activity = th.activity /\ nx.tools = th.tools
      /\ nx.approvals = Append(th.approvals, a)
      /\ nx.checkpoints = th.checkpoints /\ nx.parts = th.parts
  BY <1>1, <1>3, <1>4 DEF Threads
<1>6. ApprovalsOK(nx.approvals)
  <2>1. ToSet(nx.approvals) = ToSet(th.approvals) \cup {a}
    <3>1. ASSUME NEW y \in ApprovalRecs
          PROVE  ToSet(Append(th.approvals, y)) = ToSet(th.approvals) \cup {y}
      BY <1>1, SetOfAppend
    <3> QED BY <1>2, <1>5, <3>1
  <2>2. a.id = e.id /\ ApprovalsOK(th.approvals)
    BY DEF ThreadOK
  <2> QED BY <2>1, <2>2 DEF ApprovalsOK
<1>7. ThreadOK(nx, n + 1)
  BY <1>1, <1>5, <1>6, NumbersOn DEF ThreadOK
<1> QED BY <1>2, <1>5, <1>7

\* and answered.
LEMMA AnswerThread ==
  ASSUME NEW n \in Nat, NEW th, ThreadOK(th, n), NEW e, e.type = "ApprovalResolved",
         NEW nx, nx = Common(th, e, n + 1)
  PROVE  /\ ThreadOK(nx, n + 1) /\ nx.active = th.active /\ nx.phase = th.phase
         /\ nx.phaseTurn = th.phaseTurn /\ nx.turns = th.turns /\ nx.messages = th.messages
         /\ nx.activity = th.activity /\ nx.tools = th.tools
         /\ nx.approvals = Without(th.approvals, e.id)
         /\ nx.checkpoints = th.checkpoints /\ nx.parts = th.parts
<1>1. th \in Threads /\ th.approvals \in Seq(ApprovalRecs)
  BY DEF ThreadOK, Threads
<1>2. PICK w : w = Without(th.approvals, e.id)
  OBVIOUS
<1>3. w \in Seq(ApprovalRecs) /\ ToSet(w) = {a \in ToSet(th.approvals) : a.id # e.id}
  BY <1>1, <1>2, WithoutIs
<1>4. nx = [th EXCEPT !.approvals = w]
  BY <1>2 DEF Common
<1>5. /\ nx \in Threads /\ nx.active = th.active /\ nx.phase = th.phase
      /\ nx.phaseTurn = th.phaseTurn /\ nx.turns = th.turns /\ nx.messages = th.messages
      /\ nx.activity = th.activity /\ nx.tools = th.tools /\ nx.approvals = w
      /\ nx.checkpoints = th.checkpoints /\ nx.parts = th.parts
  BY <1>1, <1>3, <1>4 DEF Threads
<1>6. ApprovalsOK(nx.approvals)
  BY <1>3, <1>5 DEF ThreadOK, ApprovalsOK
<1>7. ThreadOK(nx, n + 1)
  BY <1>1, <1>5, <1>6, NumbersOn DEF ThreadOK
<1> QED BY <1>2, <1>5, <1>7

\* A thread with another checkpoint.
Snapped(th, nx, c, part) ==
  /\ nx.active = th.active /\ nx.phase = th.phase /\ nx.turns = th.turns
  /\ nx.messages = th.messages /\ nx.activity = th.activity /\ nx.tools = th.tools
  /\ nx.approvals = th.approvals /\ nx.checkpoints = Append(th.checkpoints, c)
  /\ nx.parts = IF part THEN th.parts \cup {c.turn} ELSE th.parts
Marked(th, nx, c, part) == Snapped(th, nx, c, part) /\ nx.phaseTurn = th.phaseTurn

\* A snapshot is taken or undone.
LEMMA CheckpointThread ==
  ASSUME NEW n \in Nat, NEW th, ThreadOK(th, n), NEW e,
         e.type \in {"CheckpointCaptured", "CheckpointReverted", "CheckpointPartReverted"},
         e.turn \in TurnIds, e.phase \in {"before", "after", "reverted"},
         NEW nx, nx = Common(th, e, n + 1), NEW c, c = [turn |-> e.turn, phase |-> e.phase]
  PROVE  ThreadOK(nx, n + 1) /\ c \in CheckRecs
         /\ Marked(th, nx, c, e.type = "CheckpointPartReverted")
<1>1. th \in Threads /\ th.checkpoints \in Seq(CheckRecs) /\ th.parts \in SUBSET TurnIds
  BY DEF ThreadOK, Threads
<1>2. c \in CheckRecs
  BY DEF CheckRecs
<1>3. Append(th.checkpoints, c) \in Seq(CheckRecs)
  BY <1>1, <1>2
<1>4. PICK s, P : /\ s = Append(th.checkpoints, c)
                 /\ P = IF e.type = "CheckpointPartReverted" THEN th.parts \cup {e.turn} ELSE th.parts
  OBVIOUS
<1>5. P \in SUBSET TurnIds /\ s \in Seq(CheckRecs)
  BY <1>1, <1>3, <1>4
<1>6. nx = [th EXCEPT !.checkpoints = s, !.parts = P]
  <2>1. CASE e.type = "CheckpointPartReverted"
    BY <1>4, <2>1 DEF Common
  <2>2. CASE e.type # "CheckpointPartReverted"
    <3>1. nx = [th EXCEPT !.checkpoints = s]
      BY <1>4, <2>2 DEF Common
    <3>2. [th EXCEPT !.checkpoints = s] = [th EXCEPT !.checkpoints = s, !.parts = th.parts]
      BY <1>1 DEF Threads
    <3> QED BY <1>4, <2>2, <3>1, <3>2
  <2> QED BY <2>1, <2>2
<1>7. /\ nx \in Threads /\ nx.active = th.active /\ nx.phase = th.phase
      /\ nx.phaseTurn = th.phaseTurn /\ nx.turns = th.turns /\ nx.messages = th.messages
      /\ nx.activity = th.activity /\ nx.tools = th.tools /\ nx.approvals = th.approvals
      /\ nx.checkpoints = Append(th.checkpoints, c)
      /\ nx.parts = P
  <2>1. th \in Threads
    BY <1>1
  <2> QED BY <1>4, <1>5, <1>6, <2>1 DEF Threads
<1>8. ThreadOK(nx, n + 1)
  BY <1>1, <1>7, NumbersOn DEF ThreadOK
<1>9. c.turn = e.turn
  OBVIOUS
<1> QED BY <1>2, <1>4, <1>7, <1>8, <1>9 DEF Marked, Snapped

\* The names of the events' turns and tools tell them from none.
NamesOK == None \notin TurnIds \cup Tools /\ Turns \cap Replays = {}

\* Entries and tools agree also after the tools changed.
LEMMA ToolsOn ==
  ASSUME NamesOK, NEW s \in Seq(Entries), NEW old \in Seq(ToolRecs), NEW u,
         HasTools(s, ToSet(old)), NEW x \in ToolRecs, ToolsNow(old, u, x),
         \A y \in ToSet(old) : y.id = x.id => y.turn \in {None, x.turn}
  PROVE  /\ HasTools(s, ToSet(u)) /\ x \in ToSet(u)
         /\ \A i \in DOMAIN s : s[i].tool = x.id => s[i].turn = x.turn
<1>1. ToSet(u) = {y \in ToSet(old) : y.id # x.id} \cup {x}
  BY DEF ToolsNow
<1>2. \A i \in DOMAIN s : s[i].turn \in TurnIds /\ s[i].turn # None
  <2>1. \A a \in Entries : a.turn \in TurnIds
    BY DEF Entries
  <2>2. \A i \in DOMAIN s : s[i] \in Entries
    OBVIOUS
  <2> QED BY <2>1, <2>2 DEF NamesOK
<1>3. x.id \in Tools /\ x.id # None
  BY DEF ToolRecs, NamesOK
<1>4. ASSUME NEW i \in DOMAIN s, s[i].tool # None
      PROVE  /\ \E k \in ToSet(u) : k.id = s[i].tool /\ k.turn = s[i].turn
             /\ s[i].tool = x.id => s[i].turn = x.turn
  <2>1. PICK k \in ToSet(old) : k.id = s[i].tool /\ k.turn = s[i].turn
    BY <1>4 DEF HasTools
  <2>2. CASE k.id = x.id
    BY <1>1, <1>2, <2>1, <2>2
  <2>3. CASE k.id # x.id
    BY <1>1, <2>1, <2>3
  <2> QED BY <2>2, <2>3
<1> QED BY <1>1, <1>3, <1>4 DEF HasTools

\* A thread after a tool call: u is what it has then, x the tool.
ToolSet(th, nx, u, x, n) ==
  /\ nx.active = th.active /\ nx.phase = th.phase /\ nx.phaseTurn = th.phaseTurn
  /\ nx.turns = th.turns /\ nx.messages = th.messages
  /\ nx.tools = u /\ nx.approvals = th.approvals
  /\ nx.checkpoints = th.checkpoints /\ nx.parts = th.parts
  /\ \A i \in DOMAIN th.activity :
       th.activity[i].tool = x.id => th.activity[i].turn = x.turn
  /\ x.turn = None => nx.activity = th.activity
  /\ x.turn # None => Goes(th.activity, nx.activity, x.turn, n)
ToolActs(th, nx, x, st, n) ==
  x.turn # None =>
    nx.activity = UpsertTool(th.activity, ToolAt(th.activity, x.id), x, st, n)
ToolDone(th, u, x, st, n) ==
  [th EXCEPT !.tools = u,
     !.activity = IF x.turn = None THEN th.activity
                  ELSE UpsertTool(th.activity, ToolAt(th.activity, x.id), x, st, n)]

EntriesFit(th, u, x) ==
  /\ HasTools(th.activity, ToSet(u)) /\ x \in ToSet(u)
  /\ \A i \in DOMAIN th.activity : th.activity[i].tool = x.id => th.activity[i].turn = x.turn

\* The entries of a thread are of the tools it then has.
LEMMA ToolsFit ==
  ASSUME NamesOK, NEW n \in Nat, NEW th, ThreadOK(th, n), NEW u, NEW x \in ToolRecs,
         ToolsNow(th.tools, u, x),
         \A y \in ToSet(th.tools) : y.id = x.id => y.turn \in {None, x.turn}
  PROVE  EntriesFit(th, u, x)
<1>1. /\ th.activity \in Seq(Entries) /\ HasTools(th.activity, ToSet(th.tools))
      /\ th.tools \in Seq(ToolRecs)
  BY DEF ThreadOK, Threads
<1>2. /\ HasTools(th.activity, ToSet(u)) /\ x \in ToSet(u)
      /\ \A i \in DOMAIN th.activity : th.activity[i].tool = x.id => th.activity[i].turn = x.turn
  BY <1>1, ToolsOn
<1> QED BY <1>2 DEF EntriesFit

\* A tool changes, and with it its entry.
LEMMA ToolThread ==
  ASSUME NamesOK, NEW n \in Nat, NEW th, ThreadOK(th, n), NEW u, NEW x \in ToolRecs,
         ToolsNow(th.tools, u, x),
         \A y \in ToSet(th.tools) : y.id = x.id => y.turn \in {None, x.turn},
         NEW st \in Status,
         NEW nx, nx = ToolDone(th, u, x, st, n + 1)
  PROVE  ThreadOK(nx, n + 1) /\ ToolSet(th, nx, u, x, n + 1) /\ ToolActs(th, nx, x, st, n + 1)
<1>1. PICK w : w = IF x.turn = None THEN th.activity
                   ELSE UpsertTool(th.activity, ToolAt(th.activity, x.id), x, st, n + 1)
  OBVIOUS
<1>2. /\ th \in Threads /\ th.activity \in Seq(Entries) /\ ActivityOK(th.activity, n)
      /\ HasTools(th.activity, ToSet(th.tools)) /\ th.tools \in Seq(ToolRecs)
  BY DEF ThreadOK, Threads
<1>3. /\ HasTools(th.activity, ToSet(u)) /\ x \in ToSet(u)
      /\ \A i \in DOMAIN th.activity : th.activity[i].tool = x.id => th.activity[i].turn = x.turn
  <2>1. EntriesFit(th, u, x)
    BY ToolsFit
  <2> QED BY <2>1 DEF EntriesFit
<1>4. /\ w \in Seq(Entries) /\ ActivityOK(w, n + 1) /\ HasTools(w, ToSet(u))
      /\ x.turn # None => Goes(th.activity, w, x.turn, n + 1)
  <2>1. CASE x.turn = None
    BY <1>1, <1>2, <1>3, <2>1, NumbersOn
  <2>2. CASE x.turn # None
    <3>1. w = UpsertTool(th.activity, ToolAt(th.activity, x.id), x, st, n + 1)
      BY <1>1, <2>2
    <3>2. /\ Goes(th.activity, w, x.turn, n + 1)
          /\ \A K : HasTools(th.activity, K) /\ x \in K => HasTools(w, K)
      BY <1>2, <1>3, <2>2, <3>1, ToolGoes
    <3> QED BY <1>3, <3>2 DEF Goes
  <2> QED BY <2>1, <2>2
<1>5. u \in Seq(ToolRecs) /\ UniqueIds(u)
  BY DEF ToolsNow
<1>6. /\ nx \in Threads /\ nx.active = th.active /\ nx.phase = th.phase
      /\ nx.phaseTurn = th.phaseTurn /\ nx.turns = th.turns /\ nx.messages = th.messages
      /\ nx.activity = w /\ nx.tools = u /\ nx.approvals = th.approvals
      /\ nx.checkpoints = th.checkpoints /\ nx.parts = th.parts
  <2>1. nx = [th EXCEPT !.tools = u, !.activity = w]
    BY <1>1 DEF ToolDone
  <2> QED BY <1>2, <1>4, <1>5, <2>1 DEF Threads
<1>7. ThreadOK(nx, n + 1)
  BY <1>2, <1>4, <1>5, <1>6, NumbersOn DEF ThreadOK
<1> QED BY <1>1, <1>3, <1>4, <1>6, <1>7 DEF ToolSet, ToolActs

\* Where the server looks for the entry of a tool.
EntryAt(s, id, t) == First(s, LAMBDA a : a.tool = id /\ a.turn = t)

\* It finds the one the renderer finds, when all of the tool are of its turn.
LEMMA ServerEntry ==
  ASSUME NEW s \in Seq(Entries), NEW id, NEW t,
         \A i \in DOMAIN s : s[i].tool = id => s[i].turn = t
  PROVE  EntryAt(s, id, t) = ToolAt(s, id)
<1> DEFINE I == {j \in 1..Len(s) : s[j].tool = id}
           J == {j \in 1..Len(s) : s[j].tool = id /\ s[j].turn = t}
<1>1. I = J
  OBVIOUS
<1>2. ToolAt(s, id) = IF I # {} THEN Min(I) ELSE 0
  BY DEF ToolAt, First, SelectInSeq
<1>3. EntryAt(s, id, t) = IF J # {} THEN Min(J) ELSE 0
  BY DEF EntryAt, First, SelectInSeq
<1> QED BY <1>1, <1>2, <1>3

\* What the renderer and the server make of a tool.
LEMMA ToolsAre ==
  ASSUME NamesOK, NEW n \in Nat, NEW th, ThreadOK(th, n), NEW u, NEW x \in ToolRecs,
         ToolsNow(th.tools, u, x),
         \A y \in ToSet(th.tools) : y.id = x.id => y.turn \in {None, x.turn}
  PROVE  /\ RendererTool(th, u, x.id, n + 1) = ToolDone(th, u, x, x.status, n + 1)
         /\ ServerTool(th, u, x.id, n + 1) = ToolDone(th, u, x, ServerStatus(th, x), n + 1)
<1>1. /\ th \in Threads /\ th.activity \in Seq(Entries)
      /\ HasTools(th.activity, ToSet(th.tools)) /\ th.tools \in Seq(ToolRecs)
  BY DEF ThreadOK, Threads
<1>2. /\ HasTools(th.activity, ToSet(u)) /\ x \in ToSet(u)
      /\ \A i \in DOMAIN th.activity : th.activity[i].tool = x.id => th.activity[i].turn = x.turn
  BY <1>1, ToolsOn
<1>3. u[IdAt(u, x.id)] = x
  BY DEF ToolsNow
<1>4. u[First(u, LAMBDA t : t.id = x.id)] = x
  BY <1>3 DEF IdAt
<1>5. EntryAt(th.activity, x.id, x.turn) = ToolAt(th.activity, x.id)
  BY <1>1, <1>2, ServerEntry
<1>6. RendererTool(th, u, x.id, n + 1) = [th EXCEPT !.tools = u,
        !.activity = IF x.turn = None THEN th.activity
           ELSE UpsertTool(th.activity, ToolAt(th.activity, x.id), x, x.status, n + 1)]
  BY <1>4 DEF RendererTool, ToolAt
<1>7. ServerTool(th, u, x.id, n + 1) = [th EXCEPT !.tools = u,
        !.activity = IF x.turn = None THEN th.activity
           ELSE UpsertTool(th.activity, ToolAt(th.activity, x.id), x, ServerStatus(th, x), n + 1)]
  <2>1. ServerTool(th, u, x.id, n + 1) = [th EXCEPT !.tools = u,
          !.activity = IF u[IdAt(u, x.id)].turn = None THEN @
             ELSE UpsertTool(@, EntryAt(th.activity, x.id, u[IdAt(u, x.id)].turn), u[IdAt(u, x.id)],
                             ServerStatus(th, u[IdAt(u, x.id)]), n + 1)]
    BY DEF ServerTool, EntryAt, IdAt
  <2> QED BY <1>3, <1>5, <2>1
<1> QED BY <1>6, <1>7 DEF ToolDone

\* How a turn ended is one of the ways, or not known.
LEMMA RecordType ==
  ASSUME NEW th, th.turns \in Seq(TurnRecs), NEW t
  PROVE  Record(th, t) \in Stops \cup {"none"}
<1>1. CASE NoneOfTurn(th.turns, t) /\ Record(th, t) = "none"
  BY <1>1
<1>2. CASE \E i : LastOfTurn(th.turns, t, i) /\ Record(th, t) = th.turns[i].stop
  <2>1. PICK i : LastOfTurn(th.turns, t, i) /\ Record(th, t) = th.turns[i].stop
    BY <1>2
  <2>2. th.turns[i] \in TurnRecs
    BY <2>1 DEF LastOfTurn
  <2> QED BY <2>1, <2>2 DEF TurnRecs
<1> QED BY <1>1, <1>2, RecordIs

\* A thread whose turn ended: its status and the records and entries of the turn.
HasEnded(th, nx, t, st) ==
  /\ th.active = t /\ nx.active = None /\ nx.messages = th.messages
  /\ nx.activity = FinishActivity(th.activity, t, st)
  /\ nx.tools = th.tools /\ nx.approvals = th.approvals
  /\ nx.checkpoints = th.checkpoints /\ nx.parts = th.parts
  /\ Len(nx.turns) = Len(th.turns)
  /\ \A k \in DOMAIN th.turns : nx.turns[k].turn = th.turns[k].turn
  /\ \A k \in DOMAIN th.turns : th.turns[k].turn # t => nx.turns[k] = th.turns[k]

\* A turn ends.
LEMMA EndThread ==
  ASSUME NEW n \in Nat, NEW th, ThreadOK(th, n), NEW e, e.type = "Ended",
         th.active = e.turn, e.turn \in Turns, e.stop \in {"end_turn", "error", "cancelled"},
         NEW nx, nx = Common(th, e, n + 1)
  PROVE  /\ ThreadOK(nx, n + 1) /\ HasEnded(th, nx, e.turn, EndStatus(e))
         /\ nx.phase \in {"idle", "failed"} /\ nx.phaseTurn = None
         /\ Only(th.activity, nx.activity, e.turn) /\ TurnsIn(nx.activity) = TurnsIn(th.activity)
<1>1. /\ th \in Threads /\ th.activity \in Seq(Entries) /\ ActivityOK(th.activity, n)
      /\ HasTools(th.activity, ToSet(th.tools)) /\ th.turns \in Seq(TurnRecs)
  BY DEF ThreadOK, Threads
<1>2. PICK w : w = FinishActivity(th.activity, e.turn, EndStatus(e))
  OBVIOUS
<1>3. EndStatus(e) \in Status
  BY DEF EndStatus, Status
<1>4. w \in Seq(Entries) /\ Only(th.activity, w, e.turn)
  BY <1>1, <1>2, <1>3, FinishActivityIs
<1>5. ActivityOK(w, n) /\ TurnsIn(w) = TurnsIn(th.activity) /\ HasTools(w, ToSet(th.tools))
  BY <1>1, <1>4, OnlyOK
<1>6. PICK i : i = RecordIn(th.turns, e.turn)
  OBVIOUS
<1>7. PICK r : r = IF i = 0 THEN th.turns ELSE [th.turns EXCEPT ![i].stop = e.stop]
  OBVIOUS
<1>8. /\ r \in Seq(TurnRecs) /\ Len(r) = Len(th.turns)
      /\ \A k \in DOMAIN th.turns : r[k].turn = th.turns[k].turn
      /\ \A k \in DOMAIN th.turns : th.turns[k].turn # e.turn => r[k] = th.turns[k]
  <2>1. CASE i = 0
    BY <1>1, <1>7, <2>1
  <2>2. CASE i # 0
    <3>1. i \in DOMAIN th.turns /\ th.turns[i].turn = e.turn
      <4>1. CASE NoneOfTurn(th.turns, e.turn)
        <5> DEFINE I == {k \in 1..Len(th.turns) : th.turns[k].turn = e.turn}
        <5>1. I = {}
          BY <1>1, <4>1 DEF NoneOfTurn
        <5>2. RecordIn(th.turns, e.turn) = IF I # {} THEN Max(I) ELSE 0
          BY DEF RecordIn, SelectLastInSeq
        <5> QED BY <1>6, <2>2, <5>1, <5>2
      <4>2. CASE ~NoneOfTurn(th.turns, e.turn)
        <5>1. PICK k : LastOfTurn(th.turns, e.turn, k) /\ RecordIn(th.turns, e.turn) = k
          BY <1>1, <4>2, RecordIs
        <5> QED BY <1>6, <5>1 DEF LastOfTurn
      <4> QED BY <4>1, <4>2
    <3>2. PICK x : x = [th.turns[i] EXCEPT !.stop = e.stop]
      OBVIOUS
    <3>3. th.turns[i] \in TurnRecs /\ i \in 1..Len(th.turns)
      BY <1>1, <3>1
    <3>4. x \in TurnRecs /\ x.turn = e.turn
      BY <3>1, <3>2, <3>3 DEF TurnRecs, Stops
    <3>5. r = [th.turns EXCEPT ![i] = x]
      BY <1>7, <2>2, <3>2
    <3>6. PICK y \in TurnRecs : y = x
      BY <3>4
    <3>7. /\ [th.turns EXCEPT ![i] = y] \in Seq(TurnRecs) /\ Len([th.turns EXCEPT ![i] = y]) = Len(th.turns)
          /\ \A k \in 1..Len(th.turns) : [th.turns EXCEPT ![i] = y][k] = IF k = i THEN y ELSE th.turns[k]
      BY <1>1, <3>3, ExceptSeq
    <3>8. /\ r \in Seq(TurnRecs) /\ Len(r) = Len(th.turns)
          /\ \A k \in 1..Len(th.turns) : r[k] = IF k = i THEN x ELSE th.turns[k]
      <4>1. r = [th.turns EXCEPT ![i] = y]
        BY <3>5, <3>6
      <4>2. PICK g : g = [th.turns EXCEPT ![i] = y]
        OBVIOUS
      <4>3. /\ g \in Seq(TurnRecs) /\ Len(g) = Len(th.turns)
            /\ \A k \in 1..Len(th.turns) : g[k] = IF k = i THEN y ELSE th.turns[k]
        BY <3>7, <4>2
      <4> QED BY <3>6, <4>1, <4>2, <4>3
    <3>9. PICK g \in Seq(TurnRecs) : g = th.turns
      BY <1>1
    <3>10. /\ \A k \in 1..Len(g) : r[k] = IF k = i THEN x ELSE g[k]
           /\ DOMAIN g = 1..Len(g) /\ g[i].turn = e.turn
      BY <3>1, <3>8, <3>9
    <3>11. ASSUME NEW k \in DOMAIN g PROVE r[k].turn = g[k].turn /\ (g[k].turn # e.turn => r[k] = g[k])
      BY <3>4, <3>10
    <3> QED BY <3>8, <3>9, <3>11
  <2> QED BY <2>1, <2>2
<1>9. nx = [th EXCEPT !.turns = r, !.activity = w, !.active = None, !.phaseTurn = None,
              !.phase = IF e.stop = "error" THEN "failed" ELSE "idle"]
  <2>1. nx = Ended(th, e, w)
    BY <1>2 DEF Common
  <2>2. i = SelectLastInSeq(th.turns, LAMBDA k : k.turn = e.turn)
    BY <1>6 DEF RecordIn
  <2> QED BY <1>7, <2>1, <2>2 DEF Ended
<1>10. /\ nx \in Threads /\ nx.active = None /\ nx.phase \in {"idle", "failed"}
       /\ nx.phaseTurn = None /\ nx.turns = r /\ nx.messages = th.messages
       /\ nx.activity = w /\ nx.tools = th.tools /\ nx.approvals = th.approvals
       /\ nx.checkpoints = th.checkpoints /\ nx.parts = th.parts
  <2>1. PICK ph \in {"idle", "failed"} : ph = IF e.stop = "error" THEN "failed" ELSE "idle"
    OBVIOUS
  <2>2. nx = [th EXCEPT !.turns = r, !.activity = w, !.active = None, !.phaseTurn = None, !.phase = ph]
    BY <1>9, <2>1
  <2>3. th \in Threads /\ r \in Seq(TurnRecs) /\ w \in Seq(Entries) /\ ph \in Phases
    BY <1>1, <1>4, <1>8 DEF Phases
  <2> QED BY <2>2, <2>3 DEF Threads
<1>11. ThreadOK(nx, n + 1)
  <2>1. ActivityOK(nx.activity, n + 1)
    <3>1. ASSUME NEW j \in DOMAIN w PROVE w[j].last <= n + 1
      <4>1. w[j] \in Entries
        BY <1>4
      <4>2. w[j].last \in Nat /\ w[j].last <= n
        BY <1>5, <4>1 DEF ActivityOK, Entries
      <4> QED BY <4>2
    <3> QED BY <1>5, <1>10, <3>1 DEF ActivityOK
  <2> QED BY <1>1, <1>5, <1>10, <2>1, NumbersOn DEF ThreadOK
<1> QED BY <1>2, <1>4, <1>5, <1>8, <1>10, <1>11 DEF HasEnded

-----------------------------------------------------------------------------
(* Views of turns that are new, and of a rebuild *)

\* Of a turn there is nothing.
LEMMA OfEmpty ==
  ASSUME NEW X, NEW s \in Seq(X), NEW t, t \notin TurnsIn(s)
  PROVE  Of(s, t) = <<>>
<1>1. Of(s, t) \in Seq(X) /\ ToSet(Of(s, t)) = {x \in ToSet(s) : x.turn = t}
  BY OfType
<1>2. ToSet(Of(s, t)) = {}
  BY <1>1 DEF TurnsIn
<1>3. DOMAIN Of(s, t) = {}
  BY <1>2 DEF ToSet
<1> QED BY <1>1, <1>3

\* A turn that was not started has no record.
LEMMA RecordNone ==
  ASSUME NEW th, th.turns \in Seq(TurnRecs), NEW t, t \notin TurnsIn(th.turns)
  PROVE  Record(th, t) = "none"
<1>1. \A i : ~LastOfTurn(th.turns, t, i)
  BY DEF LastOfTurn, TurnsIn, ToSet
<1> QED BY <1>1, RecordIs

\* When a turn can be reverted.
LEMMA CanRevertIs ==
  ASSUME NEW th, NEW t
  PROVE  CanRevert(th, t) <=>
           /\ t \in Reached(th, "before") /\ t \in Reached(th, "after")
           /\ t \notin Reached(th, "reverted") /\ t \notin th.parts
BY DEF CanRevert, Revertible, Marks

\* A turn that a step is not about is as it was.
LEMMA AlikeBut ==
  ASSUME NEW th, NEW nx, NEW t, Record(nx, t) = Record(th, t),
         Of(nx.messages, t) = Of(th.messages, t), Of(nx.activity, t) = Of(th.activity, t),
         {x \in ToSet(nx.tools) : x.turn = t} = {x \in ToSet(th.tools) : x.turn = t},
         Of(nx.approvals, t) = Of(th.approvals, t),
         nx.checkpoints = th.checkpoints, nx.parts = th.parts,
         nx.active = t <=> th.active = t, PhaseOf(nx, t) = PhaseOf(th, t)
  PROVE  Alike(th, nx, t)
<1>1. \A ph : Reached(nx, ph) = Reached(th, ph)
  BY DEF Reached
<1>2. CanRevert(nx, t) <=> CanRevert(th, t)
  BY <1>1, CanRevertIs
<1> QED BY <1>1, <1>2 DEF Alike

\* So are all turns when only these parts of the thread changed.
LEMMA AlikeStatus ==
  ASSUME NEW th, NEW nx, NEW t,
         nx.active = th.active, nx.phase = th.phase, nx.turns = th.turns,
         Of(nx.messages, t) = Of(th.messages, t), Of(nx.activity, t) = Of(th.activity, t),
         {x \in ToSet(nx.tools) : x.turn = t} = {x \in ToSet(th.tools) : x.turn = t},
         Of(nx.approvals, t) = Of(th.approvals, t),
         nx.checkpoints = th.checkpoints, nx.parts = th.parts
  PROVE  Alike(th, nx, t)
<1>1. Record(nx, t) = Record(th, t) /\ PhaseOf(nx, t) = PhaseOf(th, t)
  BY DEF Record, PhaseOf
<1> QED BY <1>1, AlikeBut

\* The view of a turn that nothing is known of but approvals and marks.
LEMMA BlankIs ==
  ASSUME NEW p, p.before \in SUBSET TurnIds, p.after \in SUBSET TurnIds,
         p.reverted \in SUBSET TurnIds, p.parts \in SUBSET TurnIds,
         NEW th \in Threads, NEW t \in TurnIds, NEW r \in Stops \cup {"none"},
         NEW v, v = BlankView(p, th, t, r)
  PROVE  /\ v \in ViewRecs /\ v.turn = t /\ v.record = r /\ v.messages = <<>>
         /\ v.activity = <<>> /\ v.tools = <<>> /\ v.approvals = Of(th.approvals, t)
         /\ v.checkpoint <=> t \in p.after
         /\ v.canRevert <=> Revertible(p, t)
         /\ v.running <=> th.active = t
         /\ v.phase = PhaseOf(th, t)
<1>1. PhaseOf(th, t) \in Phases
  BY DEF PhaseOf, Threads, Phases
<1>2. th.approvals \in Seq(ApprovalRecs)
  BY DEF Threads
<1>3. PICK a \in Seq(ApprovalRecs) : a = Of(th.approvals, t)
  BY <1>2, OfType
<1>4. PICK c \in BOOLEAN : c <=> t \in p.after
  OBVIOUS
<1>5. PICK d \in BOOLEAN : d <=> Revertible(p, t)
  OBVIOUS
<1>6. PICK g \in BOOLEAN : g <=> th.active = t
  OBVIOUS
<1>7. v = [turn |-> t, record |-> r, messages |-> <<>>, activity |-> <<>>, tools |-> <<>>,
           approvals |-> a, checkpoint |-> c, canRevert |-> d, running |-> g,
           phase |-> PhaseOf(th, t)]
  <2>1. v = [turn |-> t, record |-> r, messages |-> <<>>, activity |-> <<>>, tools |-> <<>>,
           approvals |-> Of(th.approvals, t), checkpoint |-> t \in p.after,
           canRevert |-> Revertible(p, t), running |-> th.active = t, phase |-> PhaseOf(th, t)]
    BY DEF BlankView
  <2>2. c = (t \in p.after) /\ d = Revertible(p, t) /\ g = (th.active = t)
    <3>1. Revertible(p, t) \in BOOLEAN
      BY DEF Revertible
    <3> QED BY <1>4, <1>5, <1>6, <3>1
  <2> QED BY <1>3, <2>1, <2>2
<1>8. v \in ViewRecs
  BY <1>1, <1>7 DEF ViewRecs
<1> QED BY <1>3, <1>4, <1>5, <1>6, <1>7, <1>8

\* A turn that was not shown gets its view.
LEMMA EnsureOK ==
  ASSUME NEW p, NEW th, NEW n, ThreadOK(th, n), NEW T, ShownFor(p, th, T), AllTurns(th) \subseteq T,
         NEW t \in TurnIds, NEW nx \in Threads, nx.active = th.active, nx.phase = th.phase,
         nx.approvals = th.approvals, NEW q, q = Ensure(p, nx, t)
  PROVE  /\ ShownFor(q, th, T \cup {t}) /\ q \in Projections
         /\ q.before = p.before /\ q.after = p.after /\ q.reverted = p.reverted
         /\ q.parts = p.parts /\ q.approvalTurn = p.approvalTurn
<1>1. th \in Threads /\ p \in Projections /\ p.views \in Seq(ViewRecs)
  BY DEF ThreadOK, ShownFor, Projections
<1>2. CASE t \in T
  <2>1. At(p, t) # 0 /\ T \cup {t} = T
    BY <1>2, AtShown
  <2> QED BY <1>1, <2>1 DEF Ensure
<1>3. CASE t \notin T
  <2>1. At(p, t) = 0
    BY <1>3, AtShown
  <2>2. PICK v : v = BlankView(p, nx, t, "none")
    OBVIOUS
  <2>3. q = [p EXCEPT !.views = Append(@, v)]
    BY <2>1, <2>2 DEF Ensure
  <2>4. /\ v \in ViewRecs /\ v.turn = t /\ v.record = "none" /\ v.messages = <<>>
        /\ v.activity = <<>> /\ v.tools = <<>> /\ v.approvals = Of(nx.approvals, t)
        /\ v.checkpoint <=> t \in p.after
        /\ v.canRevert <=> Revertible(p, t)
        /\ v.running <=> nx.active = t
        /\ v.phase = PhaseOf(nx, t)
    <3>1. /\ p.before \in SUBSET TurnIds /\ p.after \in SUBSET TurnIds
          /\ p.reverted \in SUBSET TurnIds /\ p.parts \in SUBSET TurnIds
      BY <1>1 DEF Projections
    <3>2. PICK r \in Stops \cup {"none"} : r = "none"
      OBVIOUS
    <3>3. v = BlankView(p, nx, t, r)
      BY <2>2, <3>2
    <3> QED BY <3>1, <3>2, <3>3, BlankIs
  <2>5. Append(p.views, v) \in Seq(ViewRecs)
    BY <1>1, <2>4
  <2>6. /\ q \in Projections /\ q.views = Append(p.views, v)
        /\ q.before = p.before /\ q.after = p.after /\ q.reverted = p.reverted
        /\ q.parts = p.parts /\ q.approvalTurn = p.approvalTurn
    BY <1>1, <2>3, <2>5 DEF Projections
  <2>7. MarksAre(q, th)
    BY <2>6 DEF ShownFor, MarksAre
  <2>8. Shows(v, th)
    <3>1. Record(th, t) = "none"
      <4>1. th.turns \in Seq(TurnRecs) /\ t \notin TurnsIn(th.turns)
        BY <1>1, <1>3 DEF Threads, AllTurns
      <4> QED BY <4>1, RecordNone
    <3>2. Of(th.messages, t) = <<>>
      <4>1. th.messages \in Seq(MessageRecs) /\ t \notin TurnsIn(th.messages)
        BY <1>1, <1>3 DEF Threads, AllTurns
      <4> QED BY <4>1, OfEmpty
    <3>3. Of(th.activity, t) = <<>>
      <4>1. th.activity \in Seq(Entries) /\ t \notin TurnsIn(th.activity)
        BY <1>1, <1>3 DEF Threads, AllTurns
      <4> QED BY <4>1, OfEmpty
    <3>4. {x \in ToSet(th.tools) : x.turn = t} = {} /\ ToSet(<<>>) = {} /\ UniqueIds(<<>>)
      <4>1. t \notin TurnsIn(th.tools)
        BY <1>3 DEF AllTurns
      <4> QED BY <4>1 DEF TurnsIn, ToSet, UniqueIds
    <3>5. PhaseOf(nx, t) = PhaseOf(th, t)
      BY DEF PhaseOf
    <3>6. /\ p.after = Reached(th, "after")
          /\ Revertible(p, t) <=> CanRevert(th, t)
      BY CanRevertIs DEF ShownFor, MarksAre, Revertible
    <3> QED BY <2>4, <3>1, <3>2, <3>3, <3>4, <3>5, <3>6 DEF Shows
  <2>9. \A s \in T : Alike(th, th, s)
    BY DEF Alike
  <2>10. ShownFor(q, th, T \cup {t})
    BY <1>3, <2>4, <2>6, <2>7, <2>8, <2>9, ViewAdded
  <2> QED BY <2>6, <2>10
<1> QED BY <1>2, <1>3

\* The elements of two sequences.
LEMMA SetOfBoth ==
  ASSUME NEW X, NEW s \in Seq(X), NEW u \in Seq(X)
  PROVE  s \o u \in Seq(X) /\ ToSet(s \o u) = ToSet(s) \cup ToSet(u)
<1>1. PICK w : w = s \o u
  OBVIOUS
<1>2. /\ w \in Seq(X) /\ Len(w) = Len(s) + Len(u) /\ Len(s) \in Nat /\ Len(u) \in Nat
      /\ \A i \in 1..Len(s) : w[i] = s[i]
      /\ \A i \in 1..Len(u) : w[Len(s) + i] = u[i]
  BY <1>1
<1>3. ASSUME NEW x \in ToSet(w) PROVE x \in ToSet(s) \cup ToSet(u)
  <2>1. PICK i \in 1..Len(s) + Len(u) : x = w[i]
    BY <1>2 DEF ToSet
  <2>2. CASE i <= Len(s)
    <3>1. i \in 1..Len(s) /\ i \in DOMAIN s
      BY <1>2, <2>2
    <3> QED BY <1>2, <2>1, <3>1 DEF ToSet
  <2>3. CASE ~(i <= Len(s))
    <3>1. PICK j \in 1..Len(u) : i = Len(s) + j
      <4>1. i - Len(s) \in 1..Len(u) /\ i = Len(s) + (i - Len(s))
        BY <1>2, <2>3
      <4> QED BY <4>1
    <3>2. j \in DOMAIN u
      OBVIOUS
    <3> QED BY <1>2, <2>1, <3>1, <3>2 DEF ToSet
  <2> QED BY <2>2, <2>3
<1>4. ASSUME NEW x \in ToSet(s) PROVE x \in ToSet(w)
  <2>1. PICK i \in 1..Len(s) : x = s[i]
    BY DEF ToSet
  <2>2. i \in DOMAIN w /\ w[i] = x
    BY <1>2, <2>1
  <2> QED BY <2>2 DEF ToSet
<1>5. ASSUME NEW x \in ToSet(u) PROVE x \in ToSet(w)
  <2>1. PICK i \in 1..Len(u) : x = u[i]
    BY DEF ToSet
  <2>2. Len(s) + i \in DOMAIN w /\ w[Len(s) + i] = x
    BY <1>2, <2>1
  <2> QED BY <2>2 DEF ToSet
<1> QED BY <1>1, <1>2, <1>3, <1>4, <1>5

\* The turns of a sequence, in its order.
LEMMA IdsAre ==
  ASSUME NEW X, NEW s \in Seq(X), NEW T, \A i \in DOMAIN s : s[i].turn \in T
  PROVE  ids(s) \in Seq(T) /\ ToSet(ids(s)) = TurnsIn(s)
<1>1. DOMAIN s = 1..Len(s) /\ Len(s) \in Nat
  OBVIOUS
<1>2. PICK u : u = [i \in 1..Len(s) |-> s[i].turn]
  OBVIOUS
<1>3. u = ids(s)
  BY <1>1, <1>2 DEF ids
<1>4. u \in Seq(T) /\ DOMAIN u = DOMAIN s
  BY <1>1, <1>2
<1>5. ToSet(u) = TurnsIn(s)
  BY <1>1, <1>2 DEF ToSet, TurnsIn
<1> QED BY <1>3, <1>4, <1>5

\* The turns of a thread in the order in which they are first met.
Order(th) ==
  ids(th.turns) \o ids(th.messages) \o ids(th.activity) \o Keep(ids(th.tools), TurnIds)
FirstMet(order) == {i \in DOMAIN order : \A j \in 1..i - 1 : order[j] # order[i]}
Firsts(order) == Keep([i \in DOMAIN order |-> i], FirstMet(order))

\* All turns are in it,
LEMMA OrderIs ==
  ASSUME NEW th \in Threads
  PROVE  Order(th) \in Seq(TurnIds) /\ ToSet(Order(th)) = AllTurns(th)
<1>1. /\ th.turns \in Seq(TurnRecs) /\ th.messages \in Seq(MessageRecs)
      /\ th.activity \in Seq(Entries) /\ th.tools \in Seq(ToolRecs)
  BY DEF Threads
<1>2. ids(th.turns) \in Seq(TurnIds) /\ ToSet(ids(th.turns)) = TurnsIn(th.turns)
  <2>1. \A x \in TurnRecs : x.turn \in TurnIds
    BY DEF TurnRecs, TurnIds
  <2>2. \A i \in DOMAIN th.turns : th.turns[i].turn \in TurnIds
    BY <1>1, <2>1
  <2> QED BY <1>1, <2>2, IdsAre
<1>3. ids(th.messages) \in Seq(TurnIds) /\ ToSet(ids(th.messages)) = TurnsIn(th.messages)
  <2>1. \A x \in MessageRecs : x.turn \in TurnIds
    BY DEF MessageRecs
  <2>2. \A i \in DOMAIN th.messages : th.messages[i].turn \in TurnIds
    BY <1>1, <2>1
  <2> QED BY <1>1, <2>2, IdsAre
<1>4. ids(th.activity) \in Seq(TurnIds) /\ ToSet(ids(th.activity)) = TurnsIn(th.activity)
  <2>1. \A x \in Entries : x.turn \in TurnIds
    BY DEF Entries
  <2>2. \A i \in DOMAIN th.activity : th.activity[i].turn \in TurnIds
    BY <1>1, <2>1
  <2> QED BY <1>1, <2>2, IdsAre
<1>5. PICK k : k = ids(th.tools)
  OBVIOUS
<1>6. k \in Seq(TurnIds \cup {None}) /\ ToSet(k) = TurnsIn(th.tools)
  <2>1. \A x \in ToolRecs : x.turn \in TurnIds \cup {None}
    BY DEF ToolRecs
  <2>2. \A i \in DOMAIN th.tools : th.tools[i].turn \in TurnIds \cup {None}
    BY <1>1, <2>1
  <2> QED BY <1>1, <1>5, <2>2, IdsAre
<1>7. Keep(k, TurnIds) \in Seq(TurnIds) /\ ToSet(Keep(k, TurnIds)) = TurnsIn(th.tools) \cap TurnIds
  <2>1. PICK w : w = Keep(k, TurnIds)
    OBVIOUS
  <2>2. w \in Seq(TurnIds \cup {None}) /\ ToSet(w) = ToSet(k) \cap TurnIds
    BY <1>6, <2>1, KeepType
  <2>3. \A i \in DOMAIN w : w[i] \in TurnIds
    BY <2>2 DEF ToSet
  <2>4. w \in Seq(TurnIds)
    BY <2>2, <2>3
  <2> QED BY <1>6, <2>1, <2>2, <2>4
<1>8. PICK a, b, c, d : a = ids(th.turns) /\ b = ids(th.messages) /\ c = ids(th.activity)
                        /\ d = Keep(k, TurnIds)
  OBVIOUS
<1>9. a \in Seq(TurnIds) /\ b \in Seq(TurnIds) /\ c \in Seq(TurnIds) /\ d \in Seq(TurnIds)
  BY <1>2, <1>3, <1>4, <1>7, <1>8
<1>10. a \o b \in Seq(TurnIds) /\ ToSet(a \o b) = ToSet(a) \cup ToSet(b)
  BY <1>9, SetOfBoth
<1>11. a \o b \o c \in Seq(TurnIds) /\ ToSet(a \o b \o c) = ToSet(a) \cup ToSet(b) \cup ToSet(c)
  <2>1. PICK z \in Seq(TurnIds) : z = a \o b
    BY <1>10
  <2>2. z \o c \in Seq(TurnIds) /\ ToSet(z \o c) = ToSet(z) \cup ToSet(c)
    BY <1>9, SetOfBoth
  <2> QED BY <1>10, <2>1, <2>2
<1>12. /\ a \o b \o c \o d \in Seq(TurnIds)
       /\ ToSet(a \o b \o c \o d) = ToSet(a) \cup ToSet(b) \cup ToSet(c) \cup ToSet(d)
  <2>1. PICK z \in Seq(TurnIds) : z = a \o b \o c
    BY <1>11
  <2>2. z \o d \in Seq(TurnIds) /\ ToSet(z \o d) = ToSet(z) \cup ToSet(d)
    BY <1>9, SetOfBoth
  <2> QED BY <1>11, <2>1, <2>2
<1>13. Order(th) = a \o b \o c \o d
  BY <1>5, <1>8 DEF Order
<1> QED BY <1>2, <1>3, <1>4, <1>7, <1>8, <1>12, <1>13 DEF AllTurns

\* and each is met first once.
LEMMA FirstsAre ==
  ASSUME NEW X, NEW o \in Seq(X), NEW f, f = Firsts(o)
  PROVE  /\ f \in Seq(1..Len(o))
         /\ \A k, l \in DOMAIN f : o[f[k]] = o[f[l]] => k = l
         /\ \A x : x \in ToSet(o) <=> \E k \in DOMAIN f : o[f[k]] = x
<1>1. Len(o) \in Nat /\ DOMAIN o = 1..Len(o)
  OBVIOUS
<1>2. PICK s : s = [i \in 1..Len(o) |-> i]
  OBVIOUS
<1>3. s \in Seq(1..Len(o)) /\ \A i \in DOMAIN s : s[i] = i /\ DOMAIN s = 1..Len(o)
  BY <1>1, <1>2
<1>4. ToSet(s) = 1..Len(o)
  BY <1>1, <1>2 DEF ToSet
<1>5. f = Keep(s, FirstMet(o))
  BY <1>1, <1>2 DEF Firsts
<1>6. FirstMet(o) \subseteq 1..Len(o)
  BY <1>1 DEF FirstMet
<1>7. f \in Seq(1..Len(o)) /\ ToSet(f) = FirstMet(o)
  <2>1. f \in Seq(1..Len(o)) /\ ToSet(f) = ToSet(s) \cap FirstMet(o)
    BY <1>3, <1>5, KeepType
  <2> QED BY <1>4, <1>6, <2>1
<1>8. \A k, l \in DOMAIN f : f[k] = f[l] => k = l
  <2>1. \A i, j \in DOMAIN s : s[i] = s[j] => i = j
    BY <1>3
  <2> QED BY <1>3, <1>5, <2>1, KeepDistinct
<1>9. \A k \in DOMAIN f : f[k] \in FirstMet(o)
  BY <1>7 DEF ToSet
<1>10. ASSUME NEW i \in FirstMet(o), NEW j \in FirstMet(o), o[i] = o[j] PROVE i = j
  <2>1. i \in 1..Len(o) /\ j \in 1..Len(o)
    BY <1>6
  <2>2. i \notin 1..j - 1 /\ j \notin 1..i - 1
    BY <1>10 DEF FirstMet
  <2> QED BY <2>1, <2>2
<1>11. \A k, l \in DOMAIN f : o[f[k]] = o[f[l]] => k = l
  BY <1>8, <1>9, <1>10
<1>12. ASSUME NEW x \in ToSet(o) PROVE \E k \in DOMAIN f : o[f[k]] = x
  <2> DEFINE I == {i \in 1..Len(o) : o[i] = x}
  <2>1. I # {} /\ I \in SUBSET Nat
    BY <1>1 DEF ToSet
  <2>2. PICK i \in I : \A m \in I : i <= m
    BY <2>1, Least
  <2>3. i \in 1..Len(o) /\ o[i] = x
    BY <2>2
  <2>4. \A j \in 1..i - 1 : j \in 1..Len(o) /\ ~(i <= j)
    BY <1>1, <2>3
  <2>5. \A j \in 1..i - 1 : o[j] # x
    BY <2>2, <2>4
  <2>6. i \in FirstMet(o)
    BY <1>1, <2>3, <2>5 DEF FirstMet
  <2>7. PICK k \in DOMAIN f : f[k] = i
    BY <1>7, <2>6 DEF ToSet
  <2> QED BY <2>3, <2>7
<1>13. ASSUME NEW k \in DOMAIN f PROVE o[f[k]] \in ToSet(o)
  <2>1. f[k] \in DOMAIN o
    BY <1>1, <1>6, <1>9
  <2> QED BY <2>1 DEF ToSet
<1> QED BY <1>7, <1>11, <1>12, <1>13

\* The view that a rebuild makes of a turn.
ViewOf(th, t) ==
  [BlankView(Marks(th), th, t, Record(th, t)) EXCEPT
     !.messages = Of(th.messages, t), !.activity = Of(th.activity, t), !.tools = Of(th.tools, t)]

\* What is of a turn is told apart as it was.
LEMMA UniqueOf ==
  ASSUME NEW s \in Seq(ToolRecs), UniqueIds(s), NEW t
  PROVE  UniqueIds(Of(s, t))
<1>1. PICK o : o = Of(s, t)
  OBVIOUS
<1>2. o \in Seq(ToolRecs) /\ ToSet(o) \subseteq ToSet(s)
  BY <1>1, OfType
<1>3. \A i, j \in DOMAIN o : o[i] = o[j] => i = j
  <2>1. \A i, j \in DOMAIN s : s[i] = s[j] => i = j
    BY DEF UniqueIds
  <2> DEFINE S == {x \in ToSet(s) : x.turn = t}
  <2>2. o = Keep(s, S)
    BY <1>1 DEF Of
  <2> HIDE DEF S
  <2> QED BY <2>1, <2>2, KeepDistinct
<1>4. \A x, y \in ToSet(s) : x.id = y.id => x = y
  BY DEF UniqueIds, ToSet
<1>5. \A i \in DOMAIN o : o[i] \in ToSet(s)
  BY <1>2 DEF ToSet
<1>6. UniqueIds(o)
  BY <1>3, <1>4, <1>5 DEF UniqueIds
<1> QED BY <1>1, <1>6

\* The marks of a thread.
LEMMA MarksType ==
  ASSUME NEW th \in Threads
  PROVE  /\ \A ph : Reached(th, ph) \in SUBSET TurnIds
         /\ th.parts \in SUBSET TurnIds
         /\ {a \in ToSet(th.approvals) : a.turn # None} \in SUBSET ApprovalRecs
<1>1. th.checkpoints \in Seq(CheckRecs) /\ th.approvals \in Seq(ApprovalRecs) /\ th.parts \in SUBSET TurnIds
  BY DEF Threads
<1>2. ToSet(th.checkpoints) \subseteq CheckRecs /\ ToSet(th.approvals) \subseteq ApprovalRecs
  BY <1>1 DEF ToSet
<1>3. \A c \in CheckRecs : c.turn \in TurnIds
  BY DEF CheckRecs
<1>4. \A ph : Reached(th, ph) \in SUBSET TurnIds
  BY <1>2, <1>3 DEF Reached
<1> QED BY <1>1, <1>2, <1>4

\* It shows the turn.
LEMMA ViewOfShows ==
  ASSUME NEW th \in Threads, UniqueIds(th.tools), NEW t \in TurnIds, NEW v, v = ViewOf(th, t)
  PROVE  v \in ViewRecs /\ v.turn = t /\ Shows(v, th) /\ v.tools = Of(th.tools, t)
<1>1. PICK p : p = Marks(th)
  OBVIOUS
<1>2. /\ p.before = Reached(th, "before") /\ p.after = Reached(th, "after")
      /\ p.reverted = Reached(th, "reverted") /\ p.parts = th.parts
  BY <1>1 DEF Marks
<1>3. PICK r \in Stops \cup {"none"} : r = Record(th, t)
  <2>1. th.turns \in Seq(TurnRecs)
    BY DEF Threads
  <2> QED BY <2>1, RecordType
<1>4. PICK b : b = BlankView(p, th, t, r)
  OBVIOUS
<1>5. /\ b \in ViewRecs /\ b.turn = t /\ b.record = r /\ b.messages = <<>>
      /\ b.activity = <<>> /\ b.tools = <<>> /\ b.approvals = Of(th.approvals, t)
      /\ b.checkpoint <=> t \in p.after
      /\ b.canRevert <=> Revertible(p, t)
      /\ b.running <=> th.active = t
      /\ b.phase = PhaseOf(th, t)
  <2>1. /\ p.before \in SUBSET TurnIds /\ p.after \in SUBSET TurnIds
        /\ p.reverted \in SUBSET TurnIds /\ p.parts \in SUBSET TurnIds
    BY <1>2, MarksType
  <2> QED BY <1>4, <2>1, BlankIs
<1>6. PICK m \in Seq(MessageRecs), a \in Seq(Entries), k \in Seq(ToolRecs) :
        m = Of(th.messages, t) /\ a = Of(th.activity, t) /\ k = Of(th.tools, t)
  <2>1. th.messages \in Seq(MessageRecs) /\ th.activity \in Seq(Entries) /\ th.tools \in Seq(ToolRecs)
    BY DEF Threads
  <2>2. Of(th.messages, t) \in Seq(MessageRecs)
    BY <2>1, OfType
  <2>3. Of(th.activity, t) \in Seq(Entries)
    BY <2>1, OfType
  <2>4. Of(th.tools, t) \in Seq(ToolRecs)
    BY <2>1, OfType
  <2> QED BY <2>2, <2>3, <2>4
<1>7. v = [b EXCEPT !.messages = m, !.activity = a, !.tools = k]
  BY <1>1, <1>3, <1>4, <1>6 DEF ViewOf
<1>8. /\ v \in ViewRecs /\ v.turn = t /\ v.record = r /\ v.messages = m
      /\ v.activity = a /\ v.tools = k /\ v.approvals = Of(th.approvals, t)
      /\ v.checkpoint <=> t \in p.after
      /\ v.canRevert <=> Revertible(p, t)
      /\ v.running <=> th.active = t
      /\ v.phase = PhaseOf(th, t)
  <2>1. v \in ViewRecs
    BY <1>5, <1>6, <1>7 DEF ViewRecs
  <2>2. \A f \in {"turn", "record", "approvals", "checkpoint", "canRevert", "running", "phase"} :
          v[f] = b[f]
    BY <1>5, <1>7 DEF ViewRecs
  <2>3. v.messages = m /\ v.activity = a /\ v.tools = k
    BY <1>5, <1>7 DEF ViewRecs
  <2> QED BY <1>5, <2>1, <2>2, <2>3
<1>9. ToSet(k) = {x \in ToSet(th.tools) : x.turn = t} /\ UniqueIds(k)
  <2>1. th.tools \in Seq(ToolRecs)
    BY DEF Threads
  <2> QED BY <1>6, <2>1, OfType, UniqueOf
<1>10. Revertible(p, t) <=> CanRevert(th, t)
  BY <1>1 DEF CanRevert
<1> QED BY <1>2, <1>3, <1>6, <1>8, <1>9, <1>10 DEF Shows

\* A rebuild shows every turn of the thread once, and makes of each its view.
LEMMA BuildIs ==
  ASSUME NEW th \in Threads, UniqueIds(th.tools)
  PROVE  /\ ShownFor(Build(th), th, AllTurns(th))
         /\ ToSet(Build(th).views) = {ViewOf(th, t) : t \in AllTurns(th)}
<1>1. PICK o : o = Order(th)
  OBVIOUS
<1>2. o \in Seq(TurnIds) /\ ToSet(o) = AllTurns(th)
  BY <1>1, OrderIs
<1>3. PICK f : f = Firsts(o)
  OBVIOUS
<1>4. /\ f \in Seq(1..Len(o))
      /\ \A k, l \in DOMAIN f : o[f[k]] = o[f[l]] => k = l
      /\ \A x : x \in ToSet(o) <=> \E k \in DOMAIN f : o[f[k]] = x
  BY <1>2, <1>3, FirstsAre
<1>5. PICK p : p = Build(th)
  OBVIOUS
<1>6. PICK s : s = [k \in DOMAIN f |-> ViewOf(th, o[f[k]])]
  OBVIOUS
<1>7. p = [views |-> s, before |-> Marks(th).before, after |-> Marks(th).after,
           reverted |-> Marks(th).reverted, parts |-> Marks(th).parts,
           approvalTurn |-> Marks(th).approvalTurn]
  <2>1. Build(th) =
          [views |-> [k \in DOMAIN Firsts(Order(th)) |->
                        ViewOf(th, Order(th)[Firsts(Order(th))[k]])],
           before |-> Marks(th).before, after |-> Marks(th).after,
           reverted |-> Marks(th).reverted, parts |-> Marks(th).parts,
           approvalTurn |-> Marks(th).approvalTurn]
    BY Zenon DEF Build, Order, Firsts, FirstMet, ViewOf
  <2> QED BY <1>1, <1>3, <1>5, <1>6, <2>1
<1>8. \A k \in DOMAIN f : o[f[k]] \in TurnIds
  BY <1>2, <1>4
<1>9. ASSUME NEW k \in DOMAIN f
      PROVE  s[k] \in ViewRecs /\ s[k].turn = o[f[k]] /\ Shows(s[k], th)
  <2>1. s[k] = ViewOf(th, o[f[k]]) /\ o[f[k]] \in TurnIds
    BY <1>6, <1>8
  <2> QED BY <2>1, ViewOfShows
<1>10. s \in Seq(ViewRecs) /\ DOMAIN s = DOMAIN f
  <2>1. DOMAIN f = 1..Len(f) /\ Len(f) \in Nat /\ DOMAIN s = DOMAIN f
    BY <1>4, <1>6
  <2> QED BY <1>6, <1>9, <2>1
<1>11. p.views = s /\ MarksAre(p, th)
  BY <1>7 DEF MarksAre, Marks
<1>12. p \in Projections
  <2>1. /\ Marks(th).before \in SUBSET TurnIds /\ Marks(th).after \in SUBSET TurnIds
        /\ Marks(th).reverted \in SUBSET TurnIds /\ Marks(th).parts \in SUBSET TurnIds
        /\ Marks(th).approvalTurn \in SUBSET ApprovalRecs
    BY MarksType DEF Marks
  <2> QED BY <1>7, <1>10, <2>1 DEF Projections
<1>13. ShownFor(p, th, AllTurns(th))
  <2>1. \A k, l \in DOMAIN s : s[k].turn = s[l].turn => k = l
    BY <1>4, <1>9, <1>10
  <2>2. \A t : t \in AllTurns(th) <=> \E k \in DOMAIN s : s[k].turn = t
    BY <1>2, <1>4, <1>9, <1>10
  <2> QED BY <1>9, <1>10, <1>11, <1>12, <2>1, <2>2 DEF ShownFor
<1>14. ToSet(s) = {ViewOf(th, t) : t \in AllTurns(th)}
  <2>1. ToSet(s) = {ViewOf(th, o[f[k]]) : k \in DOMAIN f}
    BY <1>6 DEF ToSet
  <2>2. {ViewOf(th, o[f[k]]) : k \in DOMAIN f} = {ViewOf(th, t) : t \in AllTurns(th)}
    BY <1>2, <1>4
  <2> QED BY <2>1, <2>2
<1> QED BY <1>5, <1>11, <1>13, <1>14

-----------------------------------------------------------------------------
(* Events keep the views right *)

ShownOK(p, th) == ShownFor(p, th, AllTurns(th))

\* What is shown are turns.
LEMMA ShownTurns ==
  ASSUME NEW p, NEW th, NEW T, ShownFor(p, th, T)
  PROVE  T \subseteq TurnIds
<1>1. p.views \in Seq(ViewRecs)
  BY DEF ShownFor, Projections
<1>2. \A v \in ViewRecs : v.turn \in TurnIds
  BY DEF ViewRecs
<1>3. \A i \in DOMAIN p.views : p.views[i].turn \in TurnIds
  BY <1>1, <1>2
<1> QED BY <1>3 DEF ShownFor

\* Views with one changed.
LEMMA ViewPut ==
  ASSUME NEW p \in Projections, NEW i \in DOMAIN p.views, NEW v \in ViewRecs
  PROVE  [p.views EXCEPT ![i] = v] \in Seq(ViewRecs)
<1>1. p.views \in Seq(ViewRecs) /\ i \in 1..Len(p.views)
  BY DEF Projections
<1> QED BY <1>1, ExceptSeq

\* Marks that stay.
LEMMA MarksOn ==
  ASSUME NEW p, NEW th, MarksAre(p, th), NEW q, NEW nx,
         q.before = p.before, q.after = p.after, q.reverted = p.reverted,
         q.parts = p.parts, q.approvalTurn = p.approvalTurn,
         nx.checkpoints = th.checkpoints, nx.parts = th.parts, nx.approvals = th.approvals
  PROVE  MarksAre(q, nx)
<1>1. \A ph : Reached(nx, ph) = Reached(th, ph)
  BY DEF Reached
<1> QED BY <1>1 DEF MarksAre

\* The phase of a turn.
LEMMA PhaseShown ==
  ASSUME NamesOK, NEW p, NEW th \in Threads, ShownOK(p, th), NEW e, e.turn \in Turns,
         th.active \in {None, e.turn},
         NEW nx \in Threads, nx.active = th.active, nx.turns = th.turns,
         nx.messages = th.messages, nx.activity = th.activity, nx.tools = th.tools,
         nx.approvals = th.approvals, nx.checkpoints = th.checkpoints, nx.parts = th.parts,
         NEW q, q = PhaseStep(p, nx, e)
  PROVE  ShownOK(q, nx)
<1> DEFINE T == AllTurns(th)  t == e.turn  i == At(p, t)
<1>1. AllTurns(nx) = T
  BY DEF AllTurns
<1>2. ShownFor(p, th, T) /\ T \subseteq TurnIds /\ t # None
  BY ShownTurns DEF ShownOK, NamesOK, TurnIds
<1>3. ASSUME NEW s \in T, s # t PROVE Alike(th, nx, s)
  <2>1. s # None
    BY <1>2 DEF NamesOK
  <2>2. PhaseOf(nx, s) = PhaseOf(th, s) /\ Record(nx, s) = Record(th, s)
    BY <1>3, <2>1 DEF PhaseOf, Record
  <2> QED BY <2>2, AlikeBut
<1>4. CASE t \notin T
  <2>1. i = 0
    BY <1>2, <1>4, AtShown
  <2>2. q = p /\ p \in Projections /\ MarksAre(p, th)
    BY <1>2, <2>1 DEF PhaseStep, ShownFor
  <2>3. MarksAre(p, nx)
    BY <2>2, MarksOn
  <2>4. \A s \in T : Alike(th, nx, s)
    BY <1>3, <1>4
  <2>5. ShownFor(q, nx, T)
    <3> HIDE DEF T, t, i
    <3> QED BY <1>2, <2>2, <2>3, <2>4, ViewsKept
  <2> QED BY <1>1, <2>5 DEF ShownOK
<1>5. CASE t \in T
  <2>1. /\ i # 0 /\ i \in DOMAIN p.views /\ p.views[i].turn = t /\ p.views[i] \in ViewRecs
        /\ Shows(p.views[i], th) /\ p \in Projections /\ MarksAre(p, th)
    BY <1>2, <1>5, AtShown DEF ShownFor
  <2>2. PICK b \in BOOLEAN : b = (nx.active = t)
    OBVIOUS
  <2>3. PICK v : v = [p.views[i] EXCEPT !.running = b, !.phase = PhaseOf(nx, t)]
    OBVIOUS
  <2>4. /\ v \in ViewRecs /\ v.running = b /\ v.phase = PhaseOf(nx, t)
        /\ \A f \in {"turn", "record", "messages", "activity", "tools", "approvals",
                     "checkpoint", "canRevert"} : v[f] = p.views[i][f]
    <3>1. PhaseOf(nx, t) \in Phases
      BY DEF PhaseOf, Threads, Phases
    <3> QED BY <2>1, <2>3, <3>1 DEF ViewRecs
  <2>5. q = [p EXCEPT !.views = [p.views EXCEPT ![i] = v]]
    BY <1>2, <2>1, <2>2, <2>3 DEF PhaseStep
  <2>6. /\ q \in Projections /\ q.views = [p.views EXCEPT ![i] = v]
        /\ q.before = p.before /\ q.after = p.after /\ q.reverted = p.reverted
        /\ q.parts = p.parts /\ q.approvalTurn = p.approvalTurn
    <3>1. p \in Projections /\ i \in DOMAIN p.views /\ v \in ViewRecs
      BY <2>1, <2>4
    <3> HIDE DEF T, t, i
    <3>2. [p.views EXCEPT ![i] = v] \in Seq(ViewRecs)
      BY <3>1, ViewPut
    <3> QED BY <2>5, <3>1, <3>2 DEF Projections
  <2>7. MarksAre(q, nx)
    BY <2>1, <2>6, MarksOn
  <2>8. v.turn = t /\ Shows(v, nx)
    <3>1. Record(nx, t) = Record(th, t)
      BY DEF Record
    <3>2. Reached(nx, "after") = Reached(th, "after") /\ (CanRevert(nx, t) <=> CanRevert(th, t))
      <4>1. \A ph : Reached(nx, ph) = Reached(th, ph)
        BY DEF Reached
      <4> QED BY <4>1, CanRevertIs
    <3>3. v.running <=> nx.active = t
      BY <2>2, <2>4
    <3> QED BY <2>1, <2>4, <3>1, <3>2, <3>3 DEF Shows
  <2>9. ShownFor(q, nx, T)
    <3> HIDE DEF T
    <3> QED BY <1>2, <1>3, <1>5, <2>4, <2>6, <2>7, <2>8, ViewChanged
  <2> QED BY <1>1, <2>9 DEF ShownOK
<1> QED BY <1>4, <1>5

\* A new turn has no part in the record of another one.
LEMMA RecordAppend ==
  ASSUME NEW rs \in Seq(TurnRecs), NEW r \in TurnRecs, NEW th, NEW nx,
         th.turns = rs, nx.turns = Append(rs, r), NEW s, s # r.turn
  PROVE  Record(nx, s) = Record(th, s)
<1>1. Append(rs, r) \in Seq(TurnRecs) /\ Len(Append(rs, r)) = Len(rs) + 1
  OBVIOUS
<1>2. \A k \in DOMAIN rs : Append(rs, r)[k] = rs[k]
  OBVIOUS
<1>3. \A k \in Len(rs) + 1..Len(Append(rs, r)) : Append(rs, r)[k].turn # s
  BY <1>1
<1>4. th.turns \in Seq(TurnRecs) /\ nx.turns \in Seq(TurnRecs) /\ Len(th.turns) <= Len(nx.turns)
  BY <1>1
<1>5. \A k \in DOMAIN th.turns : nx.turns[k].turn = th.turns[k].turn
  BY <1>2
<1>6. \A k \in DOMAIN th.turns : th.turns[k].turn = s => nx.turns[k] = th.turns[k]
  BY <1>2
<1>7. \A k \in Len(th.turns) + 1..Len(nx.turns) : nx.turns[k].turn # s
  BY <1>3
<1> QED BY <1>4, <1>5, <1>6, <1>7, RecordSame

\* A turn is started that is not shown yet.
LEMMA StartShown ==
  ASSUME NamesOK, NEW n \in Nat, NEW th, ThreadOK(th, n), NEW p, ShownOK(p, th),
         NEW e, e.type = "TurnStarted", e.turn \in Turns, th.active = None, At(p, e.turn) = 0,
         NEW r \in TurnRecs, NEW x \in MessageRecs,
         NEW nx, ThreadOK(nx, n + 1), Started(th, nx, e.turn, r, x),
         NEW q, q = StartStep(p, nx, e, th.active)
  PROVE  ShownOK(q, nx)
<1> DEFINE T == AllTurns(th)  t == e.turn
<1>1. r.turn = t /\ r.stop = None /\ x.turn = t
  BY DEF Started
<1>2. /\ ThreadOK(nx, n + 1) /\ r \in TurnRecs /\ x \in MessageRecs
      /\ nx.active = t /\ nx.phase = "running" /\ nx.turns = Append(th.turns, r)
      /\ nx.messages = Append(th.messages, x)
      /\ nx.activity = th.activity /\ nx.tools = th.tools /\ nx.approvals = th.approvals
      /\ nx.checkpoints = th.checkpoints /\ nx.parts = th.parts
  BY DEF Started
<1>3. /\ ShownFor(p, th, T) /\ T \subseteq TurnIds /\ t # None /\ t \in TurnIds
      /\ p \in Projections /\ MarksAre(p, th) /\ t \notin T
  <2>1. ShownFor(p, th, T)
    BY DEF ShownOK
  <2>2. t \notin T
    BY <2>1, AtShown
  <2> QED BY <2>1, <2>2, ShownTurns DEF NamesOK, TurnIds, ShownFor
<1>4. /\ th.turns \in Seq(TurnRecs) /\ th.messages \in Seq(MessageRecs)
      /\ th.activity \in Seq(Entries) /\ th.tools \in Seq(ToolRecs) /\ th \in Threads
      /\ nx \in Threads /\ nx.turns \in Seq(TurnRecs)
  BY <1>2 DEF ThreadOK, Threads
<1>5. PICK ms \in Seq(MessageRecs), rs \in Seq(TurnRecs) :
        /\ ms = th.messages /\ nx.messages = Append(ms, x) /\ x.turn = t
        /\ rs = th.turns /\ nx.turns = Append(rs, r) /\ r.turn = t
  BY <1>1, <1>2, <1>4
<1>6. AllTurns(nx) = T \cup {t}
  <2>1. TurnsIn(nx.turns) = TurnsIn(th.turns) \cup {t}
    <3>1. TurnsIn(Append(rs, r)) = TurnsIn(rs) \cup {r.turn}
      BY TurnsOfAppend
    <3> QED BY <1>5, <3>1
  <2>2. TurnsIn(nx.messages) = TurnsIn(th.messages) \cup {t}
    <3>1. TurnsIn(Append(ms, x)) = TurnsIn(ms) \cup {x.turn}
      BY TurnsOfAppend
    <3> QED BY <1>5, <3>1
  <2> QED BY <1>2, <2>1, <2>2 DEF AllTurns
<1>7. ASSUME NEW s \in T PROVE Alike(th, nx, s)
  <2>1. s # t /\ s # None
    BY <1>3 DEF NamesOK
  <2>2. PhaseOf(nx, s) = PhaseOf(th, s)
    BY <1>2, <2>1 DEF PhaseOf
  <2>3. Of(nx.messages, s) = Of(th.messages, s)
    <3>1. Of(Append(ms, x), s) = IF x.turn = s THEN Append(Of(ms, s), x) ELSE Of(ms, s)
      BY OfAppend
    <3> QED BY <1>5, <2>1, <3>1
  <2>4. Record(nx, s) = Record(th, s)
    <3>1. th.turns = rs /\ nx.turns = Append(rs, r) /\ s # r.turn
      BY <1>5, <2>1
    <3> HIDE DEF T, t
    <3> QED BY <3>1, RecordAppend
  <2> QED BY <1>2, <2>1, <2>2, <2>3, <2>4, AlikeBut
<1>8. PICK b : b = BlankView(p, nx, t, None)
  OBVIOUS
<1>9. /\ b \in ViewRecs /\ b.turn = t /\ b.record = None /\ b.messages = <<>>
      /\ b.activity = <<>> /\ b.tools = <<>> /\ b.approvals = Of(nx.approvals, t)
      /\ b.checkpoint <=> t \in p.after
      /\ b.canRevert <=> Revertible(p, t)
      /\ b.running <=> nx.active = t
      /\ b.phase = PhaseOf(nx, t)
  <2>1. /\ p.before \in SUBSET TurnIds /\ p.after \in SUBSET TurnIds
        /\ p.reverted \in SUBSET TurnIds /\ p.parts \in SUBSET TurnIds
    BY <1>3 DEF Projections
  <2>2. PICK stop \in Stops \cup {"none"} : stop = None
    BY DEF Stops
  <2>3. nx \in Threads /\ t \in TurnIds /\ b = BlankView(p, nx, t, stop)
    BY <1>3, <1>4, <1>8, <2>2
  <2> HIDE DEF T, t
  <2> QED BY <2>1, <2>2, <2>3, BlankIs
<1>10. PICK v : v = [b EXCEPT !.messages = <<x>>]
  OBVIOUS
<1>11. /\ v \in ViewRecs /\ v.messages = <<x>>
       /\ \A f \in {"turn", "record", "activity", "tools", "approvals", "checkpoint",
                    "canRevert", "running", "phase"} : v[f] = b[f]
  <2>1. <<x>> \in Seq(MessageRecs)
    BY <1>2
  <2> QED BY <1>9, <1>10, <2>1 DEF ViewRecs
<1>12. q = [p EXCEPT !.views = Append(p.views, v)]
  <2>1. Last(nx.messages) = x
    BY <1>2, <1>4 DEF Last
  <2> QED BY <1>8, <1>10, <2>1 DEF StartStep
<1>13. /\ q \in Projections /\ q.views = Append(p.views, v)
       /\ q.before = p.before /\ q.after = p.after /\ q.reverted = p.reverted
       /\ q.parts = p.parts /\ q.approvalTurn = p.approvalTurn
  <2>1. p.views \in Seq(ViewRecs)
    BY <1>3 DEF Projections
  <2>2. Append(p.views, v) \in Seq(ViewRecs)
    BY <1>11, <2>1
  <2> QED BY <1>3, <1>12, <2>2 DEF Projections
<1>14. MarksAre(q, nx)
  <2>1. nx.checkpoints = th.checkpoints /\ nx.parts = th.parts /\ nx.approvals = th.approvals
    BY <1>2
  <2>2. MarksAre(p, th)
    BY <1>3
  <2> QED BY <1>13, <2>1, <2>2, MarksOn
<1>15. Shows(v, nx) /\ v.turn = t
  <2>1. Record(nx, t) = None
    <3>1. LastOfTurn(nx.turns, t, Len(nx.turns)) /\ nx.turns[Len(nx.turns)].stop = None
      BY <1>1, <1>5 DEF LastOfTurn
    <3> QED BY <1>4, <3>1, RecordAt
  <2>2. t \notin TurnsIn(th.messages) /\ t \notin TurnsIn(th.activity) /\ t \notin TurnsIn(th.tools)
    BY <1>3 DEF AllTurns
  <2>3. Of(nx.messages, t) = <<x>>
    <3>1. Of(th.messages, t) = <<>>
      BY <1>5, <2>2, OfEmpty
    <3>2. Of(nx.messages, t) = Append(Of(th.messages, t), x)
      <4>1. Of(Append(ms, x), t) = IF x.turn = t THEN Append(Of(ms, t), x) ELSE Of(ms, t)
        BY OfAppend
      <4> QED BY <1>5, <4>1
    <3> QED BY <3>1, <3>2
  <2>4. Of(nx.activity, t) = <<>>
    BY <1>2, <1>4, <2>2, OfEmpty
  <2>5. ToSet(v.tools) = {y \in ToSet(nx.tools) : y.turn = t} /\ UniqueIds(v.tools)
    <3>1. v.tools = <<>>
      BY <1>9, <1>11
    <3>2. \A y \in ToSet(nx.tools) : y.turn # t
      BY <1>2, <2>2 DEF TurnsIn
    <3> QED BY <3>1, <3>2 DEF ToSet, UniqueIds
  <2>6. v.checkpoint <=> t \in Reached(nx, "after")
    BY <1>9, <1>11, <1>13, <1>14 DEF MarksAre
  <2>7. v.canRevert <=> CanRevert(nx, t)
    <3>1. v.canRevert <=> Revertible(p, t)
      BY <1>9, <1>11
    <3> QED BY <1>13, <1>14, <3>1, CanRevertIs DEF MarksAre, Revertible
  <2>8. v.running <=> nx.active = t
    BY <1>9, <1>11
  <2> QED BY <1>9, <1>11, <2>1, <2>3, <2>4, <2>5, <2>6, <2>7, <2>8 DEF Shows
<1>16. ShownFor(q, nx, T \cup {t})
  <2> HIDE DEF T, t
  <2> QED BY <1>3, <1>7, <1>11, <1>13, <1>14, <1>15, ViewAdded
<1> QED BY <1>6, <1>16 DEF ShownOK

\* A projection with the view of a turn replaced.
LEMMA ViewSet ==
  ASSUME NEW p, NEW th, NEW T, ShownFor(p, th, T), NEW t \in T, NEW v \in ViewRecs, v.turn = t,
         NEW i, i = At(p, t), NEW nx, Shows(v, nx),
         nx.checkpoints = th.checkpoints, nx.parts = th.parts, nx.approvals = th.approvals,
         \A s \in T : s # t => Alike(th, nx, s)
  PROVE  ShownFor([p EXCEPT !.views = [p.views EXCEPT ![i] = v]], nx, T)
<1>1. PICK q : q = [p EXCEPT !.views = [p.views EXCEPT ![i] = v]]
  OBVIOUS
<1>2. p \in Projections /\ MarksAre(p, th) /\ i \in DOMAIN p.views
  BY AtShown DEF ShownFor
<1>3. [p.views EXCEPT ![i] = v] \in Seq(ViewRecs)
  BY <1>2, ViewPut
<1>4. /\ q \in Projections /\ q.views = [p.views EXCEPT ![i] = v]
      /\ q.before = p.before /\ q.after = p.after /\ q.reverted = p.reverted
      /\ q.parts = p.parts /\ q.approvalTurn = p.approvalTurn
  BY <1>1, <1>2, <1>3 DEF Projections
<1>5. MarksAre(q, nx)
  BY <1>2, <1>4, MarksOn
<1>6. ShownFor(q, nx, T)
  BY <1>4, <1>5, ViewChanged
<1> QED BY <1>1, <1>6

\* What a turn shows but its messages, activity and tools.
LEMMA SteadyIs ==
  ASSUME NEW th, NEW nx, Steady(th, nx)
  PROVE  /\ nx.active = th.active
         /\ nx.checkpoints = th.checkpoints /\ nx.parts = th.parts /\ nx.approvals = th.approvals
         /\ \A t : Record(nx, t) = Record(th, t) /\ PhaseOf(nx, t) = PhaseOf(th, t)
         /\ \A ph : Reached(nx, ph) = Reached(th, ph)
         /\ \A t : CanRevert(nx, t) <=> CanRevert(th, t)
<1>1. \A t : Record(nx, t) = Record(th, t) /\ PhaseOf(nx, t) = PhaseOf(th, t)
  BY DEF Steady, Record, PhaseOf
<1>2. \A ph : Reached(nx, ph) = Reached(th, ph)
  BY DEF Steady, Reached
<1>3. \A t : CanRevert(nx, t) <=> CanRevert(th, t)
  BY <1>2, CanRevertIs DEF Steady
<1> QED BY <1>1, <1>2, <1>3 DEF Steady

\* A turn none of whose messages, activity and tools changed.
LEMMA SteadyAlike ==
  ASSUME NEW th, NEW nx, Steady(th, nx), NEW t,
         Of(nx.messages, t) = Of(th.messages, t), Of(nx.activity, t) = Of(th.activity, t),
         {y \in ToSet(nx.tools) : y.turn = t} = {y \in ToSet(th.tools) : y.turn = t}
  PROVE  Alike(th, nx, t)
<1>1. /\ nx.active = th.active /\ nx.phase = th.phase /\ nx.turns = th.turns
      /\ nx.checkpoints = th.checkpoints /\ nx.parts = th.parts
      /\ Of(nx.approvals, t) = Of(th.approvals, t)
  BY DEF Steady
<1> QED BY <1>1, AlikeStatus

\* A message, whole or in part.
LEMMA ChunkShown ==
  ASSUME NEW n \in Nat, NEW th, ThreadOK(th, n), NEW p, ShownOK(p, th),
         NEW e, e.turn \in TurnIds, e.role \in {"user", "assistant"}, NEW latest,
         NEW nx, ThreadOK(nx, n + 1), Chunked(th, nx, e, latest, n + 1)
  PROVE  ShownOK(MessageStep(p, nx, e), nx)
<1> DEFINE T == AllTurns(th)  t == e.turn
<1>1. /\ Steady(th, nx) /\ nx.activity = th.activity /\ nx.tools = th.tools
      /\ nx.messages = AppendMessage(th.messages, latest, e, n + 1)
      /\ th \in Threads /\ nx \in Threads
  BY DEF Chunked, ThreadOK
<1>2. PICK ms \in Seq(MessageRecs), us \in Seq(MessageRecs) :
        /\ ms = th.messages /\ us = nx.messages /\ us = AppendMessage(ms, latest, e, n + 1)
        /\ \A m \in ToSet(ms) : m.text # <<>> /\ Head(m.text) < n + 1
        /\ TextsOK(ms, n)
  <2>1. th.messages \in Seq(MessageRecs) /\ nx.messages \in Seq(MessageRecs)
    BY <1>1 DEF Threads
  <2>2. \A m \in ToSet(th.messages) : m.text # <<>> /\ Head(m.text) < n + 1
    <3>1. \A m \in ToSet(th.messages) : m \in MessageRecs
      BY <2>1 DEF ToSet
    <3>2. \A m \in MessageRecs : m.text # <<>> => Head(m.text) \in Nat
      BY DEF MessageRecs
    <3> QED BY <3>1, <3>2 DEF ThreadOK, TextsOK
  <2> QED BY <1>1, <2>1, <2>2 DEF ThreadOK
<1>3. TurnsIn(us) = TurnsIn(ms) \cup {t}
  BY <1>2, ChunkOK
<1>4. AllTurns(nx) = T \cup {t}
  BY <1>1, <1>2, <1>3 DEF AllTurns, Steady
<1>5. PICK q : q = Ensure(p, nx, t)
  OBVIOUS
<1>6. ShownFor(q, th, T \cup {t})
  <2>1. nx.active = th.active /\ nx.phase = th.phase /\ nx.approvals = th.approvals
    BY <1>1 DEF Steady
  <2>2. ShownFor(p, th, T) /\ AllTurns(th) \subseteq T
    BY DEF ShownOK
  <2> HIDE DEF T
  <2> QED BY <1>1, <1>5, <2>1, <2>2, EnsureOK
<1>7. PICK i : i = At(q, t)
  OBVIOUS
<1>8. PICK w \in ViewRecs : w = q.views[i] /\ w.turn = t /\ Shows(w, th)
  BY <1>6, <1>7, AtShown
<1>9. PICK m : m = Last(us)
  OBVIOUS
<1>10. PICK o \in Seq(MessageRecs) : o = Of(ms, t) /\ w.messages = o
  BY <1>2, <1>8 DEF Shows, ViewRecs
<1>11. PICK ws : ws = IF o # <<>> /\ Head(Last(o).text) = Head(m.text)
                      THEN ReplaceAt(o, Len(o), m) ELSE Append(o, m)
  OBVIOUS
<1>12. Of(us, t) = ws /\ \A s : s # t => Of(us, s) = Of(ms, s)
  <2>1. PICK k \in Nat : k = n + 1
    OBVIOUS
  <2>2. /\ us = AppendMessage(ms, latest, e, k) /\ o = Of(ms, e.turn)
        /\ \A m1 \in ToSet(ms) : m1.text # <<>> /\ Head(m1.text) < k
    BY <1>2, <1>10, <2>1
  <2>3. /\ Of(us, e.turn) = IF o # <<>> /\ Head(Last(o).text) = Head(Last(us).text)
                            THEN ReplaceAt(o, Len(o), Last(us)) ELSE Append(o, Last(us))
        /\ \A s : s # e.turn => Of(us, s) = Of(ms, s)
    BY <2>2, MessageOf
  <2> QED BY <1>9, <1>11, <2>3
<1>13. ws \in Seq(MessageRecs)
  <2>1. us \in Seq(MessageRecs) => Of(us, t) \in Seq(MessageRecs)
    BY OfType
  <2> QED BY <1>2, <1>12, <2>1
<1>14. PICK v : v = [w EXCEPT !.messages = ws]
  OBVIOUS
<1>15. /\ v \in ViewRecs /\ v.messages = ws
       /\ \A f \in {"turn", "record", "activity", "tools", "approvals", "checkpoint",
                    "canRevert", "running", "phase"} : v[f] = w[f]
  BY <1>13, <1>14 DEF ViewRecs
<1>16. MessageStep(p, nx, e) = [q EXCEPT !.views = [q.views EXCEPT ![i] = v]]
  <2>1. e.role # "thought"
    OBVIOUS
  <2> QED BY <1>2, <1>5, <1>7, <1>8, <1>9, <1>10, <1>11, <1>14, <2>1 DEF MessageStep
<1>17. Shows(v, nx) /\ v.turn = t
  BY <1>1, <1>2, <1>8, <1>12, <1>15, SteadyIs DEF Shows
<1>18. \A s \in T \cup {t} : s # t => Alike(th, nx, s)
  BY <1>1, <1>2, <1>12, SteadyAlike
<1>19. PICK U : U = T \cup {t}
  OBVIOUS
<1>20. ShownFor(MessageStep(p, nx, e), nx, U)
  <2>1. nx.checkpoints = th.checkpoints /\ nx.parts = th.parts /\ nx.approvals = th.approvals
    BY <1>1 DEF Steady
  <2>2. t \in U /\ ShownFor(q, th, U) /\ \A s \in U : s # t => Alike(th, nx, s)
    BY <1>6, <1>18, <1>19
  <2> HIDE DEF T, t
  <2>3. ShownFor([q EXCEPT !.views = [q.views EXCEPT ![i] = v]], nx, U)
    BY <1>7, <1>15, <1>17, <2>1, <2>2, ViewSet
  <2> QED BY <1>16, <2>3
<1> QED BY <1>4, <1>20, <1>19 DEF ShownOK

\* An entry of a turn is not before one of a lower number.
LEMMA OfIncreases ==
  ASSUME NEW t
  PROVE  \A s \in Seq(Entries) : (\A i, j \in DOMAIN s : i < j => s[i].seq < s[j].seq) =>
           \A i, j \in DOMAIN Of(s, t) : i < j => Of(s, t)[i].seq < Of(s, t)[j].seq
<1> DEFINE Up(s) == \A i, j \in DOMAIN s : i < j => s[i].seq < s[j].seq
           P == {s \in Seq(Entries) : Up(s) => Up(Of(s, t))}
<1>1. <<>> \in P
  BY OfNone
<1>2. ASSUME NEW s \in P, NEW x \in Entries PROVE Append(s, x) \in P
  <2>1. s \in Seq(Entries) /\ (Up(s) => Up(Of(s, t))) /\ Append(s, x) \in Seq(Entries)
    OBVIOUS
  <2>2. ASSUME Up(Append(s, x)) PROVE Up(Of(Append(s, x), t))
    <3>1. Up(s) /\ \A i \in DOMAIN s : s[i].seq < x.seq
      <4>1. \A i \in DOMAIN s : i \in DOMAIN Append(s, x) /\ Append(s, x)[i] = s[i]
        BY <2>1
      <4>2. /\ Len(s) + 1 \in DOMAIN Append(s, x) /\ Append(s, x)[Len(s) + 1] = x
            /\ \A i \in DOMAIN s : i < Len(s) + 1
        BY <2>1
      <4> QED BY <2>2, <4>1, <4>2
    <3>2. Up(Of(s, t))
      BY <2>1, <3>1
    <3>3. CASE x.turn # t
      <4>1. Of(Append(s, x), t) = Of(s, t)
        BY <2>1, <3>3, OfAppend
      <4> HIDE DEF P
      <4> QED BY <3>2, <4>1
    <3>4. CASE x.turn = t
      <4>1. PICK o \in Seq(Entries) : o = Of(s, t) /\ ToSet(o) = {y \in ToSet(s) : y.turn = t}
        BY <2>1, OfType
      <4>2. Of(Append(s, x), t) = Append(o, x)
        BY <2>1, <3>4, <4>1, OfAppend
      <4>3. ASSUME NEW i \in DOMAIN o PROVE o[i].seq < x.seq
        <5>1. o[i] \in ToSet(s)
          <6>1. o[i] \in ToSet(o)
            BY DEF ToSet
          <6> QED BY <4>1, <6>1
        <5>2. PICK k \in DOMAIN s : s[k] = o[i]
          BY <5>1 DEF ToSet
        <5> QED BY <3>1, <5>2
      <4>4. Up(o)
        BY <3>2, <4>1
      <4>5. Up(Append(o, x))
        <5>1. SUFFICES ASSUME NEW i \in DOMAIN Append(o, x), NEW j \in DOMAIN Append(o, x), i < j
                       PROVE  Append(o, x)[i].seq < Append(o, x)[j].seq
          OBVIOUS
        <5>2. /\ i \in DOMAIN o /\ Append(o, x)[i] = o[i]
              /\ j \in DOMAIN o => Append(o, x)[j] = o[j]
              /\ j \notin DOMAIN o => Append(o, x)[j] = x
          BY <5>1
        <5> QED BY <4>3, <4>4, <5>1, <5>2
      <4> HIDE DEF P
      <4> QED BY <4>2, <4>5
    <3> QED BY <3>3, <3>4
  <2> QED BY <2>1, <2>2
<1>3. P \in SUBSET Seq(Entries)
  OBVIOUS
<1>4. P = Seq(Entries)
  <2> HIDE DEF P
  <2> QED BY <1>1, <1>2, <1>3, AllSequences
<1> QED BY <1>4

\* The entries of a turn are in order and not of later.
LEMMA OfOK ==
  ASSUME NEW s \in Seq(Entries), NEW n, ActivityOK(s, n), NEW t
  PROVE  ActivityOK(Of(s, t), n)
<1>1. \A i, j \in DOMAIN Of(s, t) : i < j => Of(s, t)[i].seq < Of(s, t)[j].seq
  BY OfIncreases DEF ActivityOK
<1>2. ToSet(Of(s, t)) \subseteq ToSet(s)
  BY OfType
<1>3. ASSUME NEW i \in DOMAIN Of(s, t)
      PROVE  Of(s, t)[i].seq <= Of(s, t)[i].last /\ Of(s, t)[i].last <= n
  <2>1. Of(s, t)[i] \in ToSet(s)
    BY <1>2 DEF ToSet
  <2>2. PICK k \in DOMAIN s : s[k] = Of(s, t)[i]
    BY <2>1 DEF ToSet
  <2> QED BY <2>2 DEF ActivityOK
<1> QED BY <1>1, <1>3 DEF ActivityOK

\* The entry of a thought, found by the number it began with.
ThoughtAt(s, k) == First(s, LAMBDA a : a.tool = None /\ a.seq = k)

\* Where a thought is found.
LEMMA ThoughtAtIs ==
  ASSUME NEW s \in Seq(Entries), NEW k
  PROVE  /\ ThoughtAt(s, k) # 0 =>
              /\ ThoughtAt(s, k) \in DOMAIN s /\ s[ThoughtAt(s, k)].tool = None
              /\ s[ThoughtAt(s, k)].seq = k
         /\ ThoughtAt(s, k) = 0 => \A j \in DOMAIN s : ~(s[j].tool = None /\ s[j].seq = k)
<1> DEFINE I == {j \in 1..Len(s) : s[j].tool = None /\ s[j].seq = k}
<1>1. ThoughtAt(s, k) = IF I # {} THEN Min(I) ELSE 0
  BY DEF ThoughtAt, First, SelectInSeq
<1>2. CASE I = {}
  BY <1>1, <1>2
<1>3. CASE I # {}
  <2>1. I \in SUBSET Nat /\ Len(s) \in Nat
    OBVIOUS
  <2>2. PICK i \in I : i = Min(I) /\ \A m \in I : i <= m
    <3> HIDE DEF I
    <3> QED BY <1>3, <2>1, FirstOf
  <2>3. i \in 1..Len(s) /\ s[i].tool = None /\ s[i].seq = k
    BY <2>2
  <2> QED BY <1>1, <1>3, <2>2, <2>3
<1> QED BY <1>2, <1>3

\* What replaces an entry of a turn, or is put behind its last thought.
EntryPut(o, i, x) == IF i # 0 THEN ReplaceAt(o, i, x) ELSE Append(FinishThought(o, x.turn), x)

\* A part of a thought enters the activity of its turn as it does the thread's.
LEMMA ThoughtPut ==
  ASSUME NEW s \in Seq(Entries), NEW n \in Nat, ActivityOK(s, n), NEW t \in TurnIds,
         NEW st \in Status, NEW u, u = AppendThought(s, t, st, n + 1),
         NEW o, o = Of(s, t)
  PROVE  Of(u, t) = EntryPut(o, ThoughtAt(o, Last(u).seq), Last(u))
<1>1. o \in Seq(Entries) /\ ActivityOK(o, n)
  BY OfType, OfOK
<1>2. n + 1 \in Nat
  OBVIOUS
<1>3. /\ Extends(s, t) =>
           /\ Len(s) \in DOMAIN s /\ Thinks(s[Len(s)], t)
           /\ AppendThought(s, t, st, n + 1) = [s EXCEPT ![Len(s)] = Later(s[Len(s)], n + 1)]
      /\ ~Extends(s, t) =>
           AppendThought(s, t, st, n + 1) = Append(FinishThought(s, t), Thought(t, st, n + 1))
      /\ Thought(t, st, n + 1) \in Entries
  <2>1. ASSUME NEW k \in Nat
        PROVE  /\ AppendThought(s, t, st, k) \in Seq(Entries)
               /\ Extends(s, t) =>
                    /\ Len(s) \in DOMAIN s /\ Thinks(s[Len(s)], t)
                    /\ AppendThought(s, t, st, k) = [s EXCEPT ![Len(s)] = Later(s[Len(s)], k)]
               /\ ~Extends(s, t) =>
                    AppendThought(s, t, st, k) = Append(FinishThought(s, t), Thought(t, st, k))
               /\ Thought(t, st, k) \in Entries
    BY AppendThoughtIs
  <2> QED BY <1>2, <2>1
<1>4. CASE Extends(s, t)
  <2>1. /\ Len(s) \in DOMAIN s /\ Thinks(s[Len(s)], t)
        /\ u = [s EXCEPT ![Len(s)] = Later(s[Len(s)], n + 1)]
    BY <1>4, <1>3
  <2>2. /\ Len(o) \in DOMAIN o /\ o[Len(o)] = s[Len(s)]
        /\ Of(u, t) = [o EXCEPT ![Len(o)] = Later(o[Len(o)], n + 1)]
    <3>1. PICK m \in Nat : m = n + 1
      BY <1>2
    <3>2. /\ Len(o) \in DOMAIN o /\ o[Len(o)] = s[Len(s)]
          /\ Of(AppendThought(s, t, st, m), t) = [o EXCEPT ![Len(o)] = Later(o[Len(o)], m)]
      BY <1>4, ThoughtOf
    <3> QED BY <3>1, <3>2
  <2>3. PICK a \in Entries : a = s[Len(s)] /\ a.tool = None
    BY <2>1 DEF Thinks
  <2>4. PICK x \in Entries : x = Later(a, n + 1) /\ x.seq = a.seq
    BY <1>2, LaterIs
  <2>5. Last(u) = x
    BY <2>1, <2>3, <2>4 DEF Last
  <2>6. ThoughtAt(o, x.seq) = Len(o) /\ Len(o) # 0
    <3>1. o[Len(o)].tool = None /\ o[Len(o)].seq = x.seq
      BY <2>2, <2>3, <2>4
    <3>2. ThoughtAt(o, x.seq) # 0
      BY <1>1, <2>2, <3>1, ThoughtAtIs
    <3>3. /\ ThoughtAt(o, x.seq) \in DOMAIN o /\ o[ThoughtAt(o, x.seq)].seq = x.seq
      BY <1>1, <3>2, ThoughtAtIs
    <3>4. PICK k \in DOMAIN o : k = ThoughtAt(o, x.seq) /\ o[k].seq = x.seq
      BY <3>3
    <3>5. ~(k < Len(o))
      <4>1. k < Len(o) => o[k].seq < o[Len(o)].seq
        BY <1>1, <2>2 DEF ActivityOK
      <4>2. o[k].seq \in Nat /\ o[Len(o)].seq = o[k].seq
        BY <1>1, <3>1, <3>4 DEF Entries
      <4> QED BY <4>1, <4>2
    <3> QED BY <1>1, <3>2, <3>4, <3>5
  <2> QED BY <2>2, <2>3, <2>4, <2>5, <2>6 DEF EntryPut, ReplaceAt
<1>5. CASE ~Extends(s, t)
  <2>1. PICK x \in Entries : x = Thought(t, st, n + 1)
    BY <1>3
  <2>2. u = Append(FinishThought(s, t), x)
    BY <1>5, <1>3, <2>1
  <2>3. Of(u, t) = Append(FinishThought(o, t), x)
    BY <1>2, <1>5, <2>1, ThoughtOf
  <2>4. x.turn = t /\ x.seq = n + 1
    BY <2>1 DEF Thought
  <2>5. Last(u) = x
    <3>1. FinishThought(s, t) \in Seq(Entries)
      BY FinishThoughtIs
    <3> QED BY <2>2, <3>1 DEF Last
  <2>6. ThoughtAt(o, x.seq) = 0
    <3>1. \A j \in DOMAIN o : o[j].seq # n + 1
      <4>1. \A j \in DOMAIN o : o[j].seq <= o[j].last /\ o[j].last <= n
        BY <1>1 DEF ActivityOK
      <4>2. \A j \in DOMAIN o : o[j].seq \in Nat /\ o[j].last \in Nat
        <5>1. \A j \in DOMAIN o : o[j] \in Entries
          BY <1>1
        <5>2. \A y \in Entries : y.seq \in Nat /\ y.last \in Nat
          BY DEF Entries
        <5> QED BY <5>1, <5>2
      <4> QED BY <4>1, <4>2
    <3> QED BY <1>1, <2>4, <3>1, ThoughtAtIs
  <2> QED BY <2>3, <2>4, <2>5, <2>6 DEF EntryPut
<1> QED BY <1>4, <1>5

ThoughtIn(q, i, x) ==
  [q EXCEPT !.views[i].activity = EntryPut(@, ThoughtAt(@, x.seq), x)]

\* The step of a thought.
LEMMA ThoughtEntered ==
  ASSUME NEW p, NEW th, NEW e, e.role = "thought"
  PROVE  MessageStep(p, th, e)
           = ThoughtIn(Ensure(p, th, e.turn), At(Ensure(p, th, e.turn), e.turn), Last(th.activity))
BY DEF MessageStep, Entered, EntryPut, ThoughtAt, ThoughtIn

\* A thought, or a part of one.
LEMMA ThoughtShown ==
  ASSUME NEW n \in Nat, NEW th, ThreadOK(th, n), NEW p, ShownOK(p, th),
         NEW e, e.turn \in TurnIds, e.role = "thought", NEW st \in Status,
         NEW nx, ThreadOK(nx, n + 1), Thinking(th, nx, e.turn, st, n + 1)
  PROVE  ShownOK(MessageStep(p, nx, e), nx)
<1> DEFINE T == AllTurns(th)  t == e.turn
<1>1. /\ Steady(th, nx) /\ nx.messages = th.messages /\ nx.tools = th.tools
      /\ nx.activity = AppendThought(th.activity, t, st, n + 1)
      /\ th \in Threads /\ nx \in Threads
  BY DEF Thinking, ThreadOK
<1>2. PICK s \in Seq(Entries) : s = th.activity /\ ActivityOK(s, n)
  BY <1>1 DEF Threads, ThreadOK
<1>3. PICK u \in Seq(Entries) : u = nx.activity /\ u = AppendThought(s, t, st, n + 1)
  BY <1>1, <1>2 DEF Threads
<1>4. /\ Goes(s, u, t, n + 1) /\ Len(u) \in DOMAIN u
  BY <1>2, <1>3, ThoughtGoes
<1>5. AllTurns(nx) = T \cup {t}
  <2>1. TurnsIn(u) = TurnsIn(s) \cup {t}
    BY <1>4 DEF Goes
  <2> QED BY <1>1, <1>2, <1>3, <2>1 DEF AllTurns, Steady
<1>6. PICK q : q = Ensure(p, nx, t)
  OBVIOUS
<1>7. ShownFor(q, th, T \cup {t})
  <2>1. nx.active = th.active /\ nx.phase = th.phase /\ nx.approvals = th.approvals
    BY <1>1 DEF Steady
  <2>2. ShownFor(p, th, T) /\ AllTurns(th) \subseteq T
    BY DEF ShownOK
  <2> HIDE DEF T
  <2> QED BY <1>1, <1>6, <2>1, <2>2, EnsureOK
<1>8. PICK i : i = At(q, t)
  OBVIOUS
<1>9. PICK w \in ViewRecs : w = q.views[i] /\ w.turn = t /\ Shows(w, th)
  BY <1>7, <1>8, AtShown
<1>10. PICK x : x = Last(u)
  OBVIOUS
<1>11. PICK o \in Seq(Entries) : o = Of(s, t) /\ w.activity = o
  BY <1>2, <1>9 DEF Shows, ViewRecs
<1>12. PICK z : z = EntryPut(o, ThoughtAt(o, x.seq), x)
  OBVIOUS
<1>13. Of(u, t) = z
  <2>1. Of(u, t) = EntryPut(o, ThoughtAt(o, Last(u).seq), Last(u))
    BY <1>2, <1>3, <1>11, ThoughtPut
  <2> QED BY <1>10, <1>12, <2>1
<1>14. z \in Seq(Entries)
  BY <1>13, OfType
<1>15. PICK v : v = [w EXCEPT !.activity = z]
  OBVIOUS
<1>16. /\ v \in ViewRecs /\ v.activity = z
       /\ \A f \in {"turn", "record", "messages", "tools", "approvals", "checkpoint",
                    "canRevert", "running", "phase"} : v[f] = w[f]
  BY <1>14, <1>15 DEF ViewRecs
<1>17. MessageStep(p, nx, e) = [q EXCEPT !.views = [q.views EXCEPT ![i] = v]]
  <2>1. MessageStep(p, nx, e) = ThoughtIn(q, i, x)
    BY <1>3, <1>6, <1>8, <1>10, ThoughtEntered
  <2> QED BY <1>9, <1>11, <1>12, <1>15, <2>1 DEF ThoughtIn
<1>18. Shows(v, nx) /\ v.turn = t
  BY <1>1, <1>3, <1>9, <1>13, <1>16, SteadyIs DEF Shows
<1>19. \A r \in T \cup {t} : r # t => Alike(th, nx, r)
  <2>1. \A r : r # t => Of(u, r) = Of(s, r)
    BY <1>4 DEF Goes
  <2> QED BY <1>1, <1>2, <1>3, <2>1, SteadyAlike
<1>20. PICK U : U = T \cup {t}
  OBVIOUS
<1>21. ShownFor(MessageStep(p, nx, e), nx, U)
  <2>1. nx.checkpoints = th.checkpoints /\ nx.parts = th.parts /\ nx.approvals = th.approvals
    BY <1>1 DEF Steady
  <2>2. t \in U /\ ShownFor(q, th, U) /\ \A r \in U : r # t => Alike(th, nx, r)
    BY <1>7, <1>19, <1>20
  <2> HIDE DEF T, t
  <2>3. ShownFor([q EXCEPT !.views = [q.views EXCEPT ![i] = v]], nx, U)
    BY <1>8, <1>16, <1>18, <2>1, <2>2, ViewSet
  <2> QED BY <1>17, <2>3
<1> QED BY <1>5, <1>20, <1>21 DEF ShownOK

\* A tool among those of its turn, and its entry in the turn's activity.
ToolPut(s, x) ==
  IF IdAt(s, x.id) = 0 THEN Append(s, x) ELSE ReplaceAt(s, IdAt(s, x.id), x)
ToolIn(q, i, x, id, entry) ==
  [q EXCEPT !.views[i].tools = IF IdAt(q.views[i].tools, x.id) = 0 THEN Append(@, x)
                               ELSE ReplaceAt(@, IdAt(q.views[i].tools, x.id), x),
            !.views[i].activity = EntryPut(@, ToolAt(@, id), entry)]
ToolFrom(p, th, x, id, entry) ==
  ToolIn(Ensure(p, th, x.turn), At(Ensure(p, th, x.turn), x.turn), x, id, entry)

\* The step of a tool.
LEMMA ToolEntered ==
  ASSUME NEW p, NEW th, NEW e
  PROVE  ToolStep(p, th, e)
           = ToolFrom(p, th, th.tools[IdAt(th.tools, e.tool)], e.tool,
                      th.activity[ToolAt(th.activity, e.tool)])
BY Zenon DEF ToolStep, Entered, EntryPut, ToolAt, IdAt, ToolIn, ToolFrom

\* A tool is put among those of its turn.
LEMMA ToolPutIs ==
  ASSUME NEW s \in Seq(ToolRecs), UniqueIds(s), NEW x \in ToolRecs
  PROVE  ToolsNow(s, ToolPut(s, x), x)
<1>1. CASE IdAt(s, x.id) = 0
  <2>1. \A j \in DOMAIN s : s[j].id # x.id
    BY <1>1, IdAtIs
  <2>2. ToolsNow(s, Append(s, x), x)
    BY <2>1, ToolAdded
  <2> QED BY <1>1, <2>2 DEF ToolPut
<1>2. CASE IdAt(s, x.id) # 0
  <2>1. PICK i \in DOMAIN s : i = IdAt(s, x.id) /\ s[i].id = x.id
    BY <1>2, IdAtIs
  <2>2. ToolsNow(s, [s EXCEPT ![i] = x], x)
    BY <2>1, ToolReplaced
  <2> QED BY <1>2, <2>1, <2>2 DEF ToolPut, ReplaceAt
<1> QED BY <1>1, <1>2

\* A tool's entry enters the activity of its turn as it does the thread's.
LEMMA EntryIsPut ==
  ASSUME NEW s \in Seq(Entries), NEW x \in ToolRecs, x.turn # None, NEW n \in Nat,
         NEW st \in Status, \A i \in DOMAIN s : s[i].tool = x.id => s[i].turn = x.turn,
         NEW o, NEW u
  PROVE  o = Of(s, x.turn) /\ u = UpsertTool(s, ToolAt(s, x.id), x, st, n) =>
           Of(u, x.turn) = EntryPut(o, ToolAt(o, x.id), u[ToolAt(u, x.id)])
<1>1. SUFFICES ASSUME o = Of(s, x.turn), u = UpsertTool(s, ToolAt(s, x.id), x, st, n)
               PROVE  Of(u, x.turn) = EntryPut(o, ToolAt(o, x.id), u[ToolAt(u, x.id)])
  OBVIOUS
<1>2. o \in Seq(Entries)
  BY <1>1, OfType
<1>3. /\ Of(u, x.turn) = UpsertTool(o, ToolAt(o, x.id), x, st, n)
      /\ ToolAt(o, x.id) = 0 => u[ToolAt(u, x.id)] = ToolEntry(x, st, n)
      /\ ToolAt(o, x.id) # 0 => u[ToolAt(u, x.id)] = Renewed(o[ToolAt(o, x.id)], st, n)
  <2>1. Upserted(s, o, u, x, st, n)
    BY <1>1, UpsertOf
  <2> QED BY <2>1 DEF Upserted
<1>4. PICK i : i = ToolAt(o, x.id)
  OBVIOUS
<1>5. /\ i \in DOMAIN o =>
           /\ UpsertTool(o, i, x, st, n) = [o EXCEPT ![i] = Renewed(o[i], st, n)]
           /\ UpsertTool(o, i, x, st, n) \in Seq(Entries)
      /\ i = 0 =>
           /\ UpsertTool(o, i, x, st, n) = Append(FinishThought(o, x.turn), ToolEntry(x, st, n))
           /\ UpsertTool(o, i, x, st, n) \in Seq(Entries)
      /\ ToolEntry(x, st, n) \in Entries
  BY <1>2, UpsertIs
<1>6. i # 0 => i \in DOMAIN o
  BY <1>2, <1>4, ToolAtIs
<1>7. ToolEntry(x, st, n).turn = x.turn
  BY DEF ToolEntry
<1>8. CASE i = 0
  BY <1>3, <1>4, <1>5, <1>7, <1>8 DEF EntryPut
<1>9. CASE i # 0
  BY <1>3, <1>4, <1>5, <1>6, <1>9 DEF EntryPut, ReplaceAt
<1> QED BY <1>8, <1>9

\* A thread with a tool made or changed: u is what it has then, x the tool.
ToolMoved(th, nx, u, x, st, n) ==
  /\ Steady(th, nx) /\ nx.messages = th.messages
  /\ nx.tools = u /\ ToolsNow(th.tools, u, x)
  /\ \A y \in ToSet(th.tools) : y.id = x.id => y.turn \in {None, x.turn}
  /\ \A i \in DOMAIN th.activity : th.activity[i].tool = x.id => th.activity[i].turn = x.turn
  /\ nx.activity = UpsertTool(th.activity, ToolAt(th.activity, x.id), x, st, n)
  /\ Goes(th.activity, nx.activity, x.turn, n)

\* A tool of a turn.
LEMMA ToolShown ==
  ASSUME NamesOK, NEW n \in Nat, NEW th, ThreadOK(th, n), NEW p, ShownOK(p, th),
         NEW u, NEW x \in ToolRecs, x.turn # None, NEW st \in Status, NEW e, e.tool = x.id,
         NEW nx, ThreadOK(nx, n + 1), ToolMoved(th, nx, u, x, st, n + 1)
  PROVE  ShownOK(ToolStep(p, nx, e), nx)
<1> DEFINE T == AllTurns(th)
<1>1. PICK t \in TurnIds : t = x.turn
  BY DEF ToolRecs
<1>2. /\ Steady(th, nx) /\ nx.messages = th.messages /\ nx.tools = u
      /\ th \in Threads /\ nx \in Threads /\ UniqueIds(th.tools)
      /\ u \in Seq(ToolRecs) /\ UniqueIds(u) /\ th.tools \in Seq(ToolRecs)
      /\ ToSet(u) = {y \in ToSet(th.tools) : y.id # x.id} \cup {x}
      /\ IdAt(u, x.id) \in DOMAIN u /\ u[IdAt(u, x.id)] = x
  BY DEF ToolMoved, ToolsNow, ThreadOK, Threads
<1>3. PICK s \in Seq(Entries) : s = th.activity /\ ActivityOK(s, n)
  BY <1>2 DEF Threads, ThreadOK
<1>4. PICK a \in Seq(Entries) : a = nx.activity
  BY <1>2 DEF Threads
<1>5. a = UpsertTool(s, ToolAt(s, x.id), x, st, n + 1) /\ Goes(s, a, t, n + 1)
  BY <1>1, <1>3, <1>4 DEF ToolMoved
<1>6. ASSUME NEW r \in TurnIds
      PROVE  {y \in ToSet(u) : y.turn = r} =
               {y \in ToSet(th.tools) : y.turn = r /\ y.id # x.id} \cup (IF r = t THEN {x} ELSE {})
  BY <1>1, <1>2
<1>7. ASSUME NEW r \in TurnIds, r # t
      PROVE  {y \in ToSet(u) : y.turn = r} = {y \in ToSet(th.tools) : y.turn = r}
  <2>1. \A y \in ToSet(th.tools) : y.turn = r => y.id # x.id
    BY <1>1, <1>7 DEF ToolMoved, NamesOK
  <2> QED BY <1>6, <1>7, <2>1
<1>8. AllTurns(nx) = T \cup {t}
  <2>1. TurnsIn(a) = TurnsIn(s) \cup {t}
    BY <1>5 DEF Goes
  <2>2. TurnsIn(u) \cap TurnIds = (TurnsIn(th.tools) \cap TurnIds) \cup {t}
    <3>1. ASSUME NEW r \in TurnIds, r # t PROVE r \in TurnsIn(u) <=> r \in TurnsIn(th.tools)
      BY <1>7, <3>1 DEF TurnsIn
    <3>2. t \in TurnsIn(u)
      BY <1>1, <1>2 DEF TurnsIn
    <3> QED BY <3>1, <3>2
  <2>3. nx.turns = th.turns
    BY <1>2 DEF Steady
  <2> QED BY <1>2, <1>3, <1>4, <2>1, <2>2, <2>3 DEF AllTurns
<1>9. PICK q : q = Ensure(p, nx, t)
  OBVIOUS
<1>10. PICK U : U = T \cup {t}
  OBVIOUS
<1>11. ShownFor(q, th, U)
  <2>1. nx.active = th.active /\ nx.phase = th.phase /\ nx.approvals = th.approvals
    BY <1>2 DEF Steady
  <2>2. ShownFor(p, th, T) /\ AllTurns(th) \subseteq T
    BY DEF ShownOK
  <2> HIDE DEF T
  <2>3. ShownFor(q, th, T \cup {t})
    BY <1>2, <1>9, <2>1, <2>2, EnsureOK
  <2> QED BY <1>10, <2>3
<1>12. PICK i : i = At(q, t)
  OBVIOUS
<1>13. PICK w \in ViewRecs : w = q.views[i] /\ w.turn = t /\ Shows(w, th)
  BY <1>10, <1>11, <1>12, AtShown
<1>14. i \in DOMAIN q.views
  BY <1>10, <1>11, <1>12, AtShown
<1>15. PICK o \in Seq(Entries) : o = Of(s, t) /\ w.activity = o
  BY <1>3, <1>13 DEF Shows, ViewRecs
<1>16. PICK z : z = EntryPut(o, ToolAt(o, x.id), a[ToolAt(a, x.id)])
  OBVIOUS
<1>17. Of(a, t) = z
  <2>1. \A j \in DOMAIN s : s[j].tool = x.id => s[j].turn = x.turn
    BY <1>3 DEF ToolMoved
  <2>2. n + 1 \in Nat
    OBVIOUS
  <2>3. o = Of(s, x.turn)
    BY <1>1, <1>15
  <2>4. Of(a, x.turn) = EntryPut(o, ToolAt(o, x.id), a[ToolAt(a, x.id)])
    BY <1>5, <2>1, <2>2, <2>3, EntryIsPut
  <2> QED BY <1>1, <1>16, <2>4
<1>18. z \in Seq(Entries)
  BY <1>17, OfType
<1>19. PICK k \in Seq(ToolRecs) : k = w.tools
  BY <1>13 DEF ViewRecs
<1>20. PICK l : l = ToolPut(k, x)
  OBVIOUS
<1>21. /\ l \in Seq(ToolRecs) /\ UniqueIds(l)
       /\ ToSet(l) = {y \in ToSet(k) : y.id # x.id} \cup {x}
  <2>1. UniqueIds(k)
    BY <1>13, <1>19 DEF Shows
  <2>2. ToolsNow(k, l, x)
    BY <1>20, <2>1, ToolPutIs
  <2> QED BY <2>2 DEF ToolsNow
<1>22. ToSet(l) = {y \in ToSet(u) : y.turn = t}
  <2>1. ToSet(k) = {y \in ToSet(th.tools) : y.turn = t}
    BY <1>13, <1>19 DEF Shows
  <2>2. {y \in ToSet(u) : y.turn = t} =
          {y \in ToSet(th.tools) : y.turn = t /\ y.id # x.id} \cup {x}
    BY <1>6
  <2> QED BY <1>21, <2>1, <2>2
<1>23. PICK v : v = [w EXCEPT !.tools = l, !.activity = z]
  OBVIOUS
<1>24. /\ v \in ViewRecs /\ v.activity = z /\ v.tools = l
       /\ \A f \in {"turn", "record", "messages", "approvals", "checkpoint",
                    "canRevert", "running", "phase"} : v[f] = w[f]
  BY <1>18, <1>21, <1>23 DEF ViewRecs
<1>25. ToolStep(p, nx, e) = [q EXCEPT !.views = [q.views EXCEPT ![i] = v]]
  <2>1. ToolStep(p, nx, e) = ToolFrom(p, nx, nx.tools[IdAt(nx.tools, e.tool)], e.tool,
                                      nx.activity[ToolAt(nx.activity, e.tool)])
    BY ToolEntered
  <2>2. nx.tools[IdAt(nx.tools, e.tool)] = x /\ e.tool = x.id
    BY <1>2
  <2>3. ToolStep(p, nx, e) = ToolIn(q, i, x, x.id, a[ToolAt(a, x.id)])
    BY <1>1, <1>4, <1>9, <1>12, <2>1, <2>2 DEF ToolFrom
  <2>4. l = IF IdAt(k, x.id) = 0 THEN Append(k, x) ELSE ReplaceAt(k, IdAt(k, x.id), x)
    BY <1>20 DEF ToolPut
  <2>5. q.views[i].tools = k /\ q.views[i].activity = o /\ w = q.views[i]
    BY <1>13, <1>15, <1>19
  <2>6. ToolIn(q, i, x, x.id, a[ToolAt(a, x.id)])
          = [q EXCEPT !.views[i] = [@ EXCEPT !.tools = l, !.activity = z]]
    BY <1>14, <1>16, <2>4, <2>5 DEF ToolIn
  <2> QED BY <1>23, <2>3, <2>5, <2>6
<1>26. Shows(v, nx) /\ v.turn = t
  BY <1>2, <1>4, <1>13, <1>17, <1>21, <1>22, <1>24, SteadyIs DEF Shows
<1>27. \A r \in U : r # t => Alike(th, nx, r)
  <2>1. \A r : r # t => Of(a, r) = Of(s, r)
    BY <1>5 DEF Goes
  <2>2. U \subseteq TurnIds
    BY <1>11, ShownTurns
  <2> QED BY <1>2, <1>3, <1>4, <1>7, <2>1, <2>2, SteadyAlike
<1>28. ShownFor(ToolStep(p, nx, e), nx, U)
  <2>1. nx.checkpoints = th.checkpoints /\ nx.parts = th.parts /\ nx.approvals = th.approvals
    BY <1>2 DEF Steady
  <2>2. t \in U
    BY <1>10
  <2> HIDE DEF T
  <2>3. ShownFor([q EXCEPT !.views = [q.views EXCEPT ![i] = v]], nx, U)
    BY <1>11, <1>12, <1>24, <1>26, <1>27, <2>1, <2>2, ViewSet
  <2> QED BY <1>25, <2>3
<1> QED BY <1>8, <1>10, <1>28 DEF ShownOK

\* A projection with its marks and one of its views renewed.
LEMMA MarkedSet ==
  ASSUME NEW p, NEW th, NEW T, ShownFor(p, th, T), NEW q \in Projections, q.views = p.views,
         NEW t \in T, NEW v \in ViewRecs, v.turn = t, NEW i, i = At(p, t),
         NEW nx, Shows(v, nx), MarksAre(q, nx), \A s \in T : s # t => Alike(th, nx, s)
  PROVE  ShownFor([q EXCEPT !.views = [q.views EXCEPT ![i] = v]], nx, T)
<1>1. PICK r : r = [q EXCEPT !.views = [q.views EXCEPT ![i] = v]]
  OBVIOUS
<1>2. i \in DOMAIN q.views
  BY AtShown
<1>3. [q.views EXCEPT ![i] = v] \in Seq(ViewRecs)
  BY <1>2, ViewPut
<1>4. /\ r \in Projections /\ r.views = [p.views EXCEPT ![i] = v]
      /\ r.before = q.before /\ r.after = q.after /\ r.reverted = q.reverted
      /\ r.parts = q.parts /\ r.approvalTurn = q.approvalTurn
  BY <1>1, <1>3 DEF Projections
<1>5. MarksAre(r, nx)
  BY <1>4 DEF MarksAre
<1>6. ShownFor(r, nx, T)
  BY <1>4, <1>5, ViewChanged
<1> QED BY <1>1, <1>6

\* A thread with other approvals.
Waiting(th, nx) ==
  /\ nx.active = th.active /\ nx.phase = th.phase /\ nx.turns = th.turns
  /\ nx.messages = th.messages /\ nx.activity = th.activity /\ nx.tools = th.tools
  /\ nx.checkpoints = th.checkpoints /\ nx.parts = th.parts

\* What a turn shows but its approvals.
LEMMA WaitingIs ==
  ASSUME NEW th, NEW nx, Waiting(th, nx)
  PROVE  /\ AllTurns(nx) = AllTurns(th)
         /\ nx.active = th.active /\ nx.messages = th.messages
         /\ nx.activity = th.activity /\ nx.tools = th.tools /\ nx.parts = th.parts
         /\ \A t : Record(nx, t) = Record(th, t) /\ PhaseOf(nx, t) = PhaseOf(th, t)
         /\ \A ph : Reached(nx, ph) = Reached(th, ph)
         /\ \A t : CanRevert(nx, t) <=> CanRevert(th, t)
         /\ \A t : Of(nx.approvals, t) = Of(th.approvals, t) => Alike(th, nx, t)
<1>1. \A t : Record(nx, t) = Record(th, t) /\ PhaseOf(nx, t) = PhaseOf(th, t)
  BY DEF Waiting, Record, PhaseOf
<1>2. \A ph : Reached(nx, ph) = Reached(th, ph)
  BY DEF Waiting, Reached
<1>3. \A t : CanRevert(nx, t) <=> CanRevert(th, t)
  BY <1>2, CanRevertIs DEF Waiting
<1>4. AllTurns(nx) = AllTurns(th)
  BY DEF Waiting, AllTurns
<1>5. /\ nx.active = th.active /\ nx.messages = th.messages
      /\ nx.activity = th.activity /\ nx.tools = th.tools /\ nx.parts = th.parts
  BY DEF Waiting
<1>6. \A t : Of(nx.approvals, t) = Of(th.approvals, t) => Alike(th, nx, t)
  BY <1>1, <1>2, <1>3, <1>5 DEF Alike
<1> QED BY <1>1, <1>2, <1>3, <1>4, <1>5, <1>6

\* A permission is asked for.
LEMMA AskShown ==
  ASSUME NamesOK, NEW th, th \in Threads, NEW p, ShownOK(p, th),
         NEW e, NEW a \in ApprovalRecs, a.id = e.id, a.turn = th.active,
         NEW nx, nx \in Threads, Waiting(th, nx), nx.approvals = Append(th.approvals, a)
  PROVE  ShownOK(ApprovalStep(p, nx, e), nx)
<1>1. PICK T : T = AllTurns(th)
  OBVIOUS
<1>2. PICK as \in Seq(ApprovalRecs) : as = th.approvals /\ nx.approvals = Append(as, a)
  BY DEF Threads
<1>3. PICK t : t = nx.active /\ t = th.active /\ a.turn = t
  BY WaitingIs
<1>4. a = [id |-> e.id, turn |-> t]
  BY <1>3 DEF ApprovalRecs
<1>5. ShownFor(p, th, T) /\ T \subseteq TurnIds /\ p \in Projections /\ MarksAre(p, th)
  BY <1>1, ShownTurns DEF ShownOK, ShownFor
<1>6. \A s : Of(nx.approvals, s) = IF s = t THEN Append(Of(as, s), a) ELSE Of(as, s)
  <2>1. \A s : Of(Append(as, a), s) = IF a.turn = s THEN Append(Of(as, s), a) ELSE Of(as, s)
    BY OfAppend
  <2> QED BY <1>2, <1>3, <2>1
<1>7. ToSet(nx.approvals) = ToSet(as) \cup {a}
  BY <1>2, SetOfAppend
<1>8. \A s \in T : s # t => Alike(th, nx, s)
  BY <1>2, <1>6, WaitingIs
<1>9. CASE t = None
  <2>1. ApprovalStep(p, nx, e) = p
    BY <1>3, <1>9 DEF ApprovalStep
  <2>2. MarksAre(p, nx)
    BY <1>2, <1>3, <1>5, <1>7, <1>9, WaitingIs DEF MarksAre
  <2>3. \A s \in T : Alike(th, nx, s)
    BY <1>5, <1>8, <1>9 DEF NamesOK
  <2>4. ShownFor(p, nx, T)
    BY <1>5, <2>2, <2>3, ViewsKept
  <2> QED BY <1>1, <2>1, <2>4, WaitingIs DEF ShownOK
<1>10. CASE t # None
  <2>1. PICK q : q = [p EXCEPT !.approvalTurn = p.approvalTurn \cup {a}]
    OBVIOUS
  <2>2. /\ q \in Projections /\ q.views = p.views /\ q.before = p.before /\ q.after = p.after
        /\ q.reverted = p.reverted /\ q.parts = p.parts
        /\ q.approvalTurn = p.approvalTurn \cup {a}
    BY <1>5, <2>1 DEF Projections
  <2>3. MarksAre(q, nx)
    <3>1. /\ q.before = Reached(nx, "before") /\ q.after = Reached(nx, "after")
          /\ q.reverted = Reached(nx, "reverted") /\ q.parts = nx.parts
      BY <1>5, <2>2, WaitingIs DEF MarksAre
    <3>2. q.approvalTurn = {b \in ToSet(nx.approvals) : b.turn # None}
      BY <1>2, <1>3, <1>5, <1>7, <1>10, <2>2 DEF MarksAre
    <3> QED BY <3>1, <3>2 DEF MarksAre
  <2>4. PICK i : i = At(p, t)
    OBVIOUS
  <2>5. ApprovalStep(p, nx, e) = IF i = 0 THEN q
                                 ELSE [q EXCEPT !.views[i].approvals = Append(@, a)]
    BY <1>3, <1>4, <1>10, <2>1, <2>4 DEF ApprovalStep
  <2>6. CASE t \notin T
    <3>1. i = 0
      BY <1>5, <2>4, <2>6, AtShown
    <3>2. \A s \in T : Alike(th, nx, s)
      BY <1>8, <2>6
    <3>3. ShownFor(q, nx, T)
      BY <1>5, <2>2, <2>3, <3>2, ViewsKept
    <3> QED BY <1>1, <2>5, <3>1, <3>3, WaitingIs DEF ShownOK
  <2>7. CASE t \in T
    <3>1. i # 0 /\ i \in DOMAIN p.views
      BY <1>5, <2>4, <2>7, AtShown
    <3>2. PICK w \in ViewRecs : w = q.views[i] /\ w.turn = t /\ Shows(w, th)
      BY <1>5, <2>2, <2>4, <2>7, AtShown
    <3>3. PICK l \in Seq(ApprovalRecs) : l = Append(w.approvals, a)
      <4>1. PICK k \in Seq(ApprovalRecs) : k = w.approvals
        BY <3>2 DEF ViewRecs
      <4>2. Append(k, a) \in Seq(ApprovalRecs)
        OBVIOUS
      <4> QED BY <4>1, <4>2
    <3>4. PICK v : v = [w EXCEPT !.approvals = l]
      OBVIOUS
    <3>5. /\ v \in ViewRecs /\ v.approvals = l
          /\ \A f \in {"turn", "record", "messages", "activity", "tools", "checkpoint",
                       "canRevert", "running", "phase"} : v[f] = w[f]
      BY <3>2, <3>4 DEF ViewRecs
    <3>6. [q EXCEPT !.views[i].approvals = Append(@, a)]
            = [q EXCEPT !.views = [q.views EXCEPT ![i] = v]]
      BY <2>2, <3>1, <3>2, <3>3, <3>4
    <3>7. l = Of(nx.approvals, t)
      BY <1>2, <1>6, <3>2, <3>3 DEF Shows
    <3>8. Shows(v, nx) /\ v.turn = t
      BY <3>2, <3>5, <3>7, WaitingIs DEF Shows
    <3>9. ShownFor([q EXCEPT !.views = [q.views EXCEPT ![i] = v]], nx, T)
      BY <1>5, <1>8, <2>2, <2>3, <2>4, <2>7, <3>5, <3>8, MarkedSet
    <3> QED BY <1>1, <2>5, <3>1, <3>6, <3>9, WaitingIs DEF ShownOK
  <2> QED BY <2>6, <2>7
<1> QED BY <1>9, <1>10

\* A permission is answered, or withdrawn.
LEMMA AnswerShown ==
  ASSUME NEW th, th \in Threads, ApprovalsOK(th.approvals), NEW p, ShownOK(p, th),
         NEW e, \E a \in p.approvalTurn : a.id = e.id,
         NEW nx, nx \in Threads, Waiting(th, nx), nx.approvals = Without(th.approvals, e.id)
  PROVE  ShownOK(ResolveStep(p, e), nx)
<1>1. PICK T : T = AllTurns(th)
  OBVIOUS
<1>2. PICK as \in Seq(ApprovalRecs) : as = th.approvals /\ nx.approvals = Without(as, e.id)
  BY DEF Threads
<1>3. ShownFor(p, th, T) /\ p \in Projections /\ MarksAre(p, th)
  BY <1>1 DEF ShownOK, ShownFor
<1>4. PICK mine : mine = {a \in p.approvalTurn : a.id = e.id}
  OBVIOUS
<1>5. PICK b \in ApprovalRecs : b \in ToSet(as) /\ b.id = e.id /\ mine = {b}
  <2>1. PICK c \in p.approvalTurn : c.id = e.id
    OBVIOUS
  <2>2. p.approvalTurn = {a \in ToSet(as) : a.turn # None}
    BY <1>2, <1>3 DEF MarksAre
  <2>3. \A a \in ToSet(as) : a.id = c.id => a = c
    BY <1>2, <2>1, <2>2 DEF ApprovalsOK
  <2>4. p.approvalTurn \subseteq ApprovalRecs
    BY <1>3 DEF Projections
  <2>5. mine = {c}
    BY <1>4, <2>1, <2>2, <2>3
  <2>6. c \in ApprovalRecs /\ c \in ToSet(as)
    BY <2>2, <2>4
  <2> QED BY <2>1, <2>5, <2>6
<1>6. PICK t : t = b.turn
  OBVIOUS
<1>7. (CHOOSE a \in mine : TRUE).turn = t
  BY <1>5, <1>6
<1>8. /\ ToSet(nx.approvals) = {a \in ToSet(as) : a.id # e.id}
      /\ \A s : Of(nx.approvals, s) = Without(Of(as, s), e.id)
      /\ \A s : s # t => Of(nx.approvals, s) = Of(as, s)
  <2>1. /\ Without(as, e.id) \in Seq(ApprovalRecs)
        /\ ToSet(Without(as, e.id)) = {a \in ToSet(as) : a.id # e.id}
        /\ \A s : Of(Without(as, e.id), s) = Without(Of(as, s), e.id)
        /\ \A s : (\A a \in ToSet(as) : a.id = e.id => a.turn # s)
                    => Of(Without(as, e.id), s) = Of(as, s)
    BY WithoutIs
  <2>2. \A a \in ToSet(as) : a.id = e.id => a.turn = t
    BY <1>2, <1>5, <1>6 DEF ApprovalsOK
  <2> QED BY <1>2, <2>1, <2>2
<1>9. \A s \in T : s # t => Alike(th, nx, s)
  BY <1>2, <1>8, WaitingIs
<1>10. PICK q : q = [p EXCEPT !.approvalTurn = p.approvalTurn \ mine]
  OBVIOUS
<1>11. /\ q \in Projections /\ q.views = p.views /\ q.before = p.before /\ q.after = p.after
       /\ q.reverted = p.reverted /\ q.parts = p.parts
       /\ q.approvalTurn = p.approvalTurn \ mine
  BY <1>3, <1>10 DEF Projections
<1>12. MarksAre(q, nx)
  <2>1. /\ q.before = Reached(nx, "before") /\ q.after = Reached(nx, "after")
        /\ q.reverted = Reached(nx, "reverted") /\ q.parts = nx.parts
    BY <1>3, <1>11, WaitingIs DEF MarksAre
  <2>2. q.approvalTurn = {a \in ToSet(nx.approvals) : a.turn # None}
    BY <1>2, <1>3, <1>4, <1>8, <1>11 DEF MarksAre
  <2> QED BY <2>1, <2>2 DEF MarksAre
<1>13. PICK i : i = At(p, t)
  OBVIOUS
<1>14. ResolveStep(p, e) = IF i = 0 THEN q
                           ELSE [q EXCEPT !.views[i].approvals = Without(@, e.id)]
  BY <1>4, <1>7, <1>10, <1>13 DEF ResolveStep
<1>15. CASE t \notin T
  <2>1. i = 0
    BY <1>3, <1>13, <1>15, AtShown
  <2>2. \A s \in T : Alike(th, nx, s)
    BY <1>9, <1>15
  <2>3. ShownFor(q, nx, T)
    BY <1>3, <1>11, <1>12, <2>2, ViewsKept
  <2> QED BY <1>1, <1>14, <2>1, <2>3, WaitingIs DEF ShownOK
<1>16. CASE t \in T
  <2>1. i # 0 /\ i \in DOMAIN p.views
    BY <1>3, <1>13, <1>16, AtShown
  <2>2. PICK w \in ViewRecs : w = q.views[i] /\ w.turn = t /\ Shows(w, th)
    BY <1>3, <1>11, <1>13, <1>16, AtShown
  <2>3. PICK l \in Seq(ApprovalRecs) : l = Without(w.approvals, e.id)
    <3>1. w.approvals \in Seq(ApprovalRecs)
      BY <2>2 DEF ViewRecs
    <3> QED BY <3>1, WithoutIs
  <2>4. PICK v : v = [w EXCEPT !.approvals = l]
    OBVIOUS
  <2>5. /\ v \in ViewRecs /\ v.approvals = l
        /\ \A f \in {"turn", "record", "messages", "activity", "tools", "checkpoint",
                     "canRevert", "running", "phase"} : v[f] = w[f]
    BY <2>2, <2>4 DEF ViewRecs
  <2>6. [q EXCEPT !.views[i].approvals = Without(@, e.id)]
          = [q EXCEPT !.views = [q.views EXCEPT ![i] = v]]
    BY <1>11, <2>1, <2>2, <2>3, <2>4
  <2>7. l = Of(nx.approvals, t)
    BY <1>2, <1>8, <2>2, <2>3 DEF Shows
  <2>8. Shows(v, nx) /\ v.turn = t
    BY <2>2, <2>5, <2>7, WaitingIs DEF Shows
  <2>9. ShownFor([q EXCEPT !.views = [q.views EXCEPT ![i] = v]], nx, T)
    BY <1>3, <1>9, <1>11, <1>12, <1>13, <1>16, <2>5, <2>8, MarkedSet
  <2> QED BY <1>1, <1>14, <2>1, <2>6, <2>9, WaitingIs DEF ShownOK
<1> QED BY <1>15, <1>16

\* What others than that turn show.
LEMMA EndAlike ==
  ASSUME NEW th, th \in Threads, NEW t, NEW st \in Status,
         NEW nx, nx \in Threads, HasEnded(th, nx, t, st), NEW s, s # t, s # None
  PROVE  Alike(th, nx, s)
<1>1. PhaseOf(nx, s) = PhaseOf(th, s) /\ (nx.active = s <=> th.active = s)
  BY DEF HasEnded, PhaseOf
<1>2. Of(nx.activity, s) = Of(th.activity, s)
  <2>1. PICK a \in Seq(Entries) : a = th.activity
    BY DEF Threads
  <2>2. FinishActivity(a, t, st) \in Seq(Entries) /\ Only(a, FinishActivity(a, t, st), t)
    BY FinishActivityIs
  <2>3. Of(FinishActivity(a, t, st), s) = Of(a, s)
    BY <2>2, OnlyOthers
  <2> QED BY <2>1, <2>3 DEF HasEnded
<1>3. Record(nx, s) = Record(th, s)
  <2>1. th.turns \in Seq(TurnRecs) /\ nx.turns \in Seq(TurnRecs) /\ Len(th.turns) <= Len(nx.turns)
    BY DEF Threads, HasEnded
  <2>2. \A k \in DOMAIN th.turns : nx.turns[k].turn = th.turns[k].turn
    BY DEF HasEnded
  <2>3. \A k \in DOMAIN th.turns : th.turns[k].turn = s => nx.turns[k] = th.turns[k]
    BY DEF HasEnded
  <2>4. \A k \in Len(th.turns) + 1..Len(nx.turns) : nx.turns[k].turn # s
    BY <2>1 DEF HasEnded
  <2> QED BY <2>1, <2>2, <2>3, <2>4, RecordSame
<1>4. /\ nx.messages = th.messages /\ nx.tools = th.tools /\ nx.approvals = th.approvals
      /\ nx.checkpoints = th.checkpoints /\ nx.parts = th.parts
  BY DEF HasEnded
<1> QED BY <1>1, <1>2, <1>3, <1>4, AlikeBut

EndsInPlace(p, i, w, r, z, b, ph) ==
  [p EXCEPT !.views[i].record = r, !.views[i].activity = z,
            !.views[i].running = b, !.views[i].phase = ph]
    = [p EXCEPT !.views = [p.views EXCEPT ![i] =
        [w EXCEPT !.record = r, !.activity = z, !.running = b, !.phase = ph]]]

\* A view whose record, activity and status are set.
LEMMA ViewEnded ==
  ASSUME NEW p \in Projections, NEW i \in DOMAIN p.views, NEW w \in ViewRecs, w = p.views[i],
         NEW r, NEW z, NEW b, NEW ph
  PROVE  EndsInPlace(p, i, w, r, z, b, ph)
<1> DEFINE In(x) == [p EXCEPT !.views = [p.views EXCEPT ![i] = x]]
<1>1. p.views \in Seq(ViewRecs)
  BY DEF Projections
<1>2. PICK w1 : w1 = [w EXCEPT !.record = r]
  OBVIOUS
<1>3. PICK w2 : w2 = [w1 EXCEPT !.activity = z]
  OBVIOUS
<1>4. PICK w3 : w3 = [w2 EXCEPT !.running = b]
  OBVIOUS
<1>5. PICK q1 : q1 = [p EXCEPT !.views[i].record = r]
  OBVIOUS
<1>6. PICK q2 : q2 = [q1 EXCEPT !.views[i].activity = z]
  OBVIOUS
<1>7. PICK q3 : q3 = [q2 EXCEPT !.views[i].running = b]
  OBVIOUS
<1>8. PICK q4 : q4 = [q3 EXCEPT !.views[i].phase = ph]
  OBVIOUS
<1>9. q4 = [p EXCEPT !.views[i].record = r, !.views[i].activity = z,
                     !.views[i].running = b, !.views[i].phase = ph]
  BY <1>5, <1>6, <1>7, <1>8, Zenon
<1>10. ASSUME NEW q, NEW x, q = In(x)
       PROVE  /\ q.views[i] = x
              /\ \A y : [q EXCEPT !.views = [q.views EXCEPT ![i] = y]] = In(y)
  BY <1>1, <1>10 DEF Projections
<1>11. q1 = In(w1)
  BY <1>1, <1>2, <1>5
<1> HIDE DEF In
<1>12. q2 = In(w2)
  BY <1>3, <1>6, <1>10, <1>11
<1>13. q3 = In(w3)
  BY <1>4, <1>7, <1>10, <1>12
<1>14. q4 = In([w3 EXCEPT !.phase = ph])
  BY <1>8, <1>10, <1>13
<1> QED BY <1>2, <1>3, <1>4, <1>9, <1>14 DEF In, EndsInPlace

\* A turn ends.
LEMMA EndShown ==
  ASSUME NEW th, th \in Threads, NEW p, ShownOK(p, th), NEW e, e.turn \in Turns,
         None \notin TurnIds, NEW st \in Status, st = EndStatus(e),
         NEW nx, nx \in Threads, HasEnded(th, nx, e.turn, st)
  PROVE  ShownOK(EndStep(p, nx, e), nx)
<1>1. PICK T, t : T = AllTurns(th) /\ t = e.turn
  OBVIOUS
<1>2. /\ ShownFor(p, th, T) /\ T \subseteq TurnIds /\ p \in Projections /\ MarksAre(p, th)
      /\ t \in TurnIds
  BY <1>1, ShownTurns DEF ShownOK, ShownFor, TurnIds
<1>3. PICK a \in Seq(Entries) : a = th.activity
  BY DEF Threads
<1>4. /\ FinishActivity(a, t, st) \in Seq(Entries) /\ Only(a, FinishActivity(a, t, st), t)
      /\ nx.activity = FinishActivity(a, t, st)
  BY <1>1, <1>3, FinishActivityIs DEF HasEnded
<1>5. AllTurns(nx) = T
  <2>1. TurnsIn(nx.activity) = TurnsIn(a)
    <3>1. Len(FinishActivity(a, t, st)) = Len(a)
          /\ \A k \in DOMAIN a : FinishActivity(a, t, st)[k].turn = a[k].turn
      BY <1>4 DEF Only
    <3>2. DOMAIN FinishActivity(a, t, st) = DOMAIN a
      BY <1>4, <3>1
    <3> QED BY <1>4, <3>1, <3>2 DEF TurnsIn, ToSet
  <2>2. TurnsIn(nx.turns) = TurnsIn(th.turns)
    <3>1. DOMAIN nx.turns = DOMAIN th.turns
      <4>1. th.turns \in Seq(TurnRecs) /\ nx.turns \in Seq(TurnRecs) /\ Len(nx.turns) = Len(th.turns)
        BY DEF Threads, HasEnded
      <4> QED BY <4>1
    <3>2. \A k \in DOMAIN th.turns : nx.turns[k].turn = th.turns[k].turn
      BY DEF HasEnded
    <3> QED BY <3>1, <3>2 DEF TurnsIn, ToSet
  <2>3. nx.messages = th.messages /\ nx.tools = th.tools
    BY DEF HasEnded
  <2> QED BY <1>1, <1>3, <2>1, <2>2, <2>3 DEF AllTurns
<1>6. \A s \in T : s # t => Alike(th, nx, s)
  <2>1. \A s \in T : s # None
    BY <1>2
  <2> QED BY <1>1, <2>1, EndAlike
<1>7. PICK i : i = At(p, t)
  OBVIOUS
<1>8. MarksAre(p, nx)
  BY <1>2, MarksOn DEF HasEnded
<1>9. CASE t \notin T
  <2>1. i = 0
    BY <1>2, <1>7, <1>9, AtShown
  <2>2. EndStep(p, nx, e) = p
    BY <1>1, <1>7, <2>1 DEF EndStep
  <2>3. \A s \in T : Alike(th, nx, s)
    BY <1>6, <1>9
  <2>4. ShownFor(p, nx, T)
    BY <1>2, <1>8, <2>3, ViewsKept
  <2> QED BY <1>5, <2>2, <2>4 DEF ShownOK
<1>10. CASE t \in T
  <2>1. i # 0 /\ i \in DOMAIN p.views
    BY <1>2, <1>7, <1>10, AtShown
  <2>2. PICK w \in ViewRecs : w = p.views[i] /\ w.turn = t /\ Shows(w, th)
    BY <1>2, <1>7, <1>10, AtShown
  <2>3. PICK o \in Seq(Entries) : o = Of(a, t) /\ w.activity = o
    BY <1>3, <2>2 DEF Shows, ViewRecs
  <2>4. PICK z \in Seq(Entries) : z = FinishActivity(o, t, st)
    BY FinishActivityIs
  <2>5. Of(nx.activity, t) = z
    BY <1>4, <2>3, <2>4, FinishActivityOf
  <2>6. PICK b \in BOOLEAN : b = (nx.active = t)
    OBVIOUS
  <2>7. PICK ph \in Phases : ph = PhaseOf(nx, t)
    BY DEF PhaseOf, Threads, Phases
  <2>8. PICK r \in Stops \cup {"none"} : r = Record(nx, t)
    BY RecordType DEF Threads
  <2>9. PICK v : v = [w EXCEPT !.record = r, !.activity = z, !.running = b, !.phase = ph]
    OBVIOUS
  <2>10. /\ v \in ViewRecs /\ v.record = r /\ v.activity = z /\ v.running = b /\ v.phase = ph
         /\ \A f \in {"turn", "messages", "tools", "approvals", "checkpoint", "canRevert"} :
              v[f] = w[f]
    BY <2>9 DEF ViewRecs
  <2>11. EndStep(p, nx, e) = [p EXCEPT !.views = [p.views EXCEPT ![i] = v]]
    <3>1. EndStep(p, nx, e) = [p EXCEPT !.views[i].record = Record(nx, t),
            !.views[i].activity = FinishActivity(@, t, st),
            !.views[i].running = nx.active = t, !.views[i].phase = PhaseOf(nx, t)]
      BY <1>1, <1>7, <2>1 DEF EndStep
    <3>2. FinishActivity(p.views[i].activity, t, st) = z
      BY <2>2, <2>3, <2>4
    <3>3. EndStep(p, nx, e) = [p EXCEPT !.views[i].record = r, !.views[i].activity = z,
            !.views[i].running = b, !.views[i].phase = ph]
      BY <2>1, <2>6, <2>7, <2>8, <3>1, <3>2
    <3>4. p \in Projections /\ i \in DOMAIN p.views /\ w = p.views[i]
      BY <1>2, <2>1, <2>2
    <3>5. EndsInPlace(p, i, w, r, z, b, ph)
      BY <3>4, ViewEnded
    <3> QED BY <2>9, <3>3, <3>5 DEF EndsInPlace
  <2>12. Shows(v, nx) /\ v.turn = t
    <3>1. Reached(nx, "after") = Reached(th, "after") /\ (CanRevert(nx, t) <=> CanRevert(th, t))
      <4>1. \A q : Reached(nx, q) = Reached(th, q)
        BY DEF Reached, HasEnded
      <4> QED BY <4>1, CanRevertIs DEF HasEnded
    <3>2. nx.messages = th.messages /\ nx.tools = th.tools /\ nx.approvals = th.approvals
      BY DEF HasEnded
    <3> QED BY <2>2, <2>5, <2>6, <2>7, <2>8, <2>10, <3>1, <3>2 DEF Shows
  <2>13. ShownFor([p EXCEPT !.views = [p.views EXCEPT ![i] = v]], nx, T)
    <3>1. nx.checkpoints = th.checkpoints /\ nx.parts = th.parts /\ nx.approvals = th.approvals
      BY DEF HasEnded
    <3> QED BY <1>2, <1>6, <1>7, <1>10, <2>10, <2>12, <3>1, ViewSet
  <2> QED BY <1>5, <2>11, <2>13 DEF ShownOK
<1> QED BY <1>9, <1>10

\* What it marks.
LEMMA SnappedIs ==
  ASSUME NEW th, th \in Threads, NEW nx, NEW c \in CheckRecs, NEW part, Snapped(th, nx, c, part)
  PROVE  /\ AllTurns(nx) = AllTurns(th)
         /\ \A ph : Reached(nx, ph) = Reached(th, ph) \cup (IF c.phase = ph THEN {c.turn} ELSE {})
         /\ nx.parts = th.parts \cup (IF part THEN {c.turn} ELSE {})
         /\ nx.active = th.active /\ nx.messages = th.messages /\ nx.activity = th.activity
         /\ nx.tools = th.tools /\ nx.approvals = th.approvals
         /\ \A t : Record(nx, t) = Record(th, t) /\ PhaseOf(nx, t) = PhaseOf(th, t)
         /\ \A t : t # c.turn => Alike(th, nx, t)
<1>1. PICK cs \in Seq(CheckRecs) : cs = th.checkpoints
  BY DEF Threads
<1>2. ToSet(Append(cs, c)) = ToSet(cs) \cup {c}
  BY SetOfAppend
<1>3. ToSet(nx.checkpoints) = ToSet(th.checkpoints) \cup {c}
  BY <1>1, <1>2 DEF Snapped
<1>4. \A ph : Reached(nx, ph) = Reached(th, ph) \cup (IF c.phase = ph THEN {c.turn} ELSE {})
  BY <1>3 DEF Reached
<1>5. \A t : Record(nx, t) = Record(th, t) /\ PhaseOf(nx, t) = PhaseOf(th, t)
  BY DEF Snapped, Record, PhaseOf
<1>6. AllTurns(nx) = AllTurns(th)
  BY DEF Snapped, AllTurns
<1>7. /\ nx.parts = th.parts \cup (IF part THEN {c.turn} ELSE {})
      /\ nx.active = th.active /\ nx.messages = th.messages /\ nx.activity = th.activity
      /\ nx.tools = th.tools /\ nx.approvals = th.approvals
  BY DEF Snapped
<1>8. ASSUME NEW t, t # c.turn PROVE Alike(th, nx, t)
  <2>1. \A ph : t \in Reached(nx, ph) <=> t \in Reached(th, ph)
    BY <1>4, <1>8
  <2>2. t \in nx.parts <=> t \in th.parts
    BY <1>7, <1>8
  <2>3. CanRevert(nx, t) <=> CanRevert(th, t)
    BY <2>1, <2>2, CanRevertIs
  <2> QED BY <1>5, <1>7, <2>1, <2>3 DEF Alike
<1> QED BY <1>4, <1>5, <1>6, <1>7, <1>8

Remarked(p, e) ==
  [p EXCEPT !.before = IF e.phase = "before" THEN @ \cup {e.turn} ELSE @,
            !.after = IF e.phase = "after" THEN @ \cup {e.turn} ELSE @,
            !.reverted = IF e.phase = "reverted" THEN @ \cup {e.turn} ELSE @,
            !.parts = IF e.type = "CheckpointPartReverted" THEN @ \cup {e.turn} ELSE @]
CheckIn(q, i, e) ==
  IF i = 0 THEN q
  ELSE [q EXCEPT !.views[i].checkpoint = @ \/ e.phase = "after",
                 !.views[i].canRevert = Revertible(q, e.turn)]

\* The step of a checkpoint.
LEMMA CheckpointIs ==
  ASSUME NEW p, NEW e
  PROVE  CheckpointStep(p, e) = CheckIn(Remarked(p, e), At(Remarked(p, e), e.turn), e)
BY Zenon DEF CheckpointStep, CheckIn, Remarked

\* A view with its marks set.
MarkedInPlace(q, i, w, b, c) ==
  [q EXCEPT !.views[i].checkpoint = b, !.views[i].canRevert = c]
    = [q EXCEPT !.views = [q.views EXCEPT ![i] = [w EXCEPT !.checkpoint = b, !.canRevert = c]]]

\* A snapshot of a turn, or a revert of one.
LEMMA CheckpointShown ==
  ASSUME NEW th, th \in Threads, NEW p, ShownOK(p, th), NEW e, NEW c \in CheckRecs,
         c.turn = e.turn, c.phase = e.phase,
         NEW nx, nx \in Threads, Snapped(th, nx, c, e.type = "CheckpointPartReverted")
  PROVE  ShownOK(CheckpointStep(p, e), nx)
<1>1. PICK T : T = AllTurns(th)
  OBVIOUS
<1>2. PICK t \in TurnIds : t = e.turn /\ t = c.turn
  BY DEF CheckRecs
<1>3. PICK part \in BOOLEAN : part = (e.type = "CheckpointPartReverted")
  OBVIOUS
<1>4. Snapped(th, nx, c, part)
  BY <1>3
<1>5. ShownFor(p, th, T) /\ p \in Projections /\ MarksAre(p, th)
  BY <1>1 DEF ShownOK, ShownFor
<1>6. PICK q : q = [p EXCEPT
              !.before = IF e.phase = "before" THEN @ \cup {t} ELSE @,
              !.after = IF e.phase = "after" THEN @ \cup {t} ELSE @,
              !.reverted = IF e.phase = "reverted" THEN @ \cup {t} ELSE @,
              !.parts = IF part THEN @ \cup {t} ELSE @]
  OBVIOUS
<1>7. /\ q \in Projections /\ q.views = p.views /\ q.approvalTurn = p.approvalTurn
      /\ q.before = p.before \cup (IF e.phase = "before" THEN {t} ELSE {})
      /\ q.after = p.after \cup (IF e.phase = "after" THEN {t} ELSE {})
      /\ q.reverted = p.reverted \cup (IF e.phase = "reverted" THEN {t} ELSE {})
      /\ q.parts = p.parts \cup (IF part THEN {t} ELSE {})
  BY <1>5, <1>6 DEF Projections
<1>8. MarksAre(q, nx)
  <2>1. /\ \A ph : Reached(nx, ph) = Reached(th, ph) \cup (IF c.phase = ph THEN {c.turn} ELSE {})
        /\ nx.parts = th.parts \cup (IF part THEN {c.turn} ELSE {})
        /\ nx.approvals = th.approvals
    BY <1>4, SnappedIs
  <2>2. /\ p.before = Reached(th, "before") /\ p.after = Reached(th, "after")
        /\ p.reverted = Reached(th, "reverted") /\ p.parts = th.parts
        /\ p.approvalTurn = {a \in ToSet(th.approvals) : a.turn # None}
    BY <1>5 DEF MarksAre
  <2>3. e.phase = c.phase /\ t = c.turn
    BY <1>2
  <2>4. /\ q.before = Reached(nx, "before") /\ q.after = Reached(nx, "after")
        /\ q.reverted = Reached(nx, "reverted") /\ q.parts = nx.parts
    BY <1>7, <2>1, <2>2, <2>3
  <2>5. q.approvalTurn = {a \in ToSet(nx.approvals) : a.turn # None}
    BY <1>7, <2>1, <2>2
  <2> QED BY <2>4, <2>5 DEF MarksAre
<1>9. \A s \in T : s # t => Alike(th, nx, s)
  BY <1>2, <1>4, SnappedIs
<1>10. AllTurns(nx) = T
  BY <1>1, <1>4, SnappedIs
<1>11. PICK i : i = At(q, t) /\ i = At(p, t)
  BY <1>7 DEF At
<1>12. PICK r \in BOOLEAN : r = Revertible(q, t)
  BY DEF Revertible
<1>13. CheckpointStep(p, e) = IF i = 0 THEN q
         ELSE [q EXCEPT !.views[i].checkpoint = @ \/ e.phase = "after",
                        !.views[i].canRevert = Revertible(q, t)]
  <2>1. q = Remarked(p, e)
    BY <1>2, <1>3, <1>6 DEF Remarked
  <2>2. CheckpointStep(p, e) = CheckIn(q, i, e)
    BY <1>2, <1>11, <2>1, CheckpointIs
  <2> QED BY <1>2, <2>2 DEF CheckIn
<1>14. CASE t \notin T
  <2>1. i = 0
    BY <1>5, <1>11, <1>14, AtShown
  <2>2. \A s \in T : Alike(th, nx, s)
    BY <1>9, <1>14
  <2>3. ShownFor(q, nx, T)
    BY <1>5, <1>7, <1>8, <2>2, ViewsKept
  <2> QED BY <1>10, <1>13, <2>1, <2>3 DEF ShownOK
<1>15. CASE t \in T
  <2>1. i # 0 /\ i \in DOMAIN p.views /\ i \in DOMAIN q.views
    BY <1>5, <1>7, <1>11, <1>15, AtShown
  <2>2. PICK w \in ViewRecs : w = q.views[i] /\ w.turn = t /\ Shows(w, th)
    BY <1>5, <1>7, <1>11, <1>15, AtShown
  <2>3. PICK b \in BOOLEAN : b = (w.checkpoint \/ e.phase = "after")
    OBVIOUS
  <2>4. PICK v : v = [w EXCEPT !.checkpoint = b, !.canRevert = r]
    OBVIOUS
  <2>5. /\ v \in ViewRecs /\ v.checkpoint = b /\ v.canRevert = r
        /\ \A f \in {"turn", "record", "messages", "activity", "tools", "approvals",
                     "running", "phase"} : v[f] = w[f]
    BY <2>2, <2>4 DEF ViewRecs
  <2>6. CheckpointStep(p, e) = [q EXCEPT !.views = [q.views EXCEPT ![i] = v]]
    <3>1. CheckpointStep(p, e) = [q EXCEPT !.views[i].checkpoint = b, !.views[i].canRevert = r]
      BY <1>12, <1>13, <2>1, <2>2, <2>3
    <3>2. MarkedInPlace(q, i, w, b, r)
      BY <1>7, <2>1, <2>2 DEF MarkedInPlace, Projections
    <3> QED BY <2>4, <3>1, <3>2 DEF MarkedInPlace
  <2>7. Shows(v, nx) /\ v.turn = t
    <3>1. v.checkpoint <=> t \in Reached(nx, "after")
      <4>1. w.checkpoint <=> t \in Reached(th, "after")
        BY <2>2 DEF Shows
      <4>2. Reached(nx, "after") = Reached(th, "after") \cup (IF c.phase = "after" THEN {t} ELSE {})
        BY <1>2, <1>4, SnappedIs
      <4> QED BY <2>3, <2>5, <4>1, <4>2
    <3>2. v.canRevert <=> CanRevert(nx, t)
      <4>1. v.canRevert <=> Revertible(q, t)
        BY <1>12, <2>5
      <4> QED BY <1>8, <4>1, CanRevertIs DEF MarksAre, Revertible
    <3>3. /\ nx.active = th.active /\ nx.messages = th.messages /\ nx.activity = th.activity
          /\ nx.tools = th.tools /\ nx.approvals = th.approvals
          /\ Record(nx, t) = Record(th, t) /\ PhaseOf(nx, t) = PhaseOf(th, t)
      <4>1. /\ nx.active = th.active /\ nx.messages = th.messages /\ nx.activity = th.activity
            /\ nx.tools = th.tools /\ nx.approvals = th.approvals
        BY <1>4 DEF Snapped
      <4>2. Record(nx, t) = Record(th, t) /\ PhaseOf(nx, t) = PhaseOf(th, t)
        BY <1>4 DEF Snapped, Record, PhaseOf
      <4> QED BY <4>1, <4>2
    <3> QED BY <2>2, <2>5, <3>1, <3>2, <3>3 DEF Shows
  <2>8. ShownFor([q EXCEPT !.views = [q.views EXCEPT ![i] = v]], nx, T)
    BY <1>5, <1>7, <1>8, <1>9, <1>11, <1>15, <2>5, <2>7, MarkedSet
  <2> QED BY <1>10, <2>6, <2>8 DEF ShownOK
<1> QED BY <1>14, <1>15

-----------------------------------------------------------------------------
(* The two activities of a thread *)

HasTool(s, k) == \E i \in DOMAIN s : s[i].tool = k
AsLate(a, b) == \A t \in TurnIds : LatestActivity(a, t) = LatestActivity(b, t)
SameTools(a, b) == \A k \in Tools : HasTool(a, k) <=> HasTool(b, k)
SameEnd(a, b) ==
  /\ a = <<>> <=> b = <<>>
  /\ a # <<>> => a[Len(a)].turn = b[Len(b)].turn

LastsOf(s, t) == {x.last : x \in {y \in ToSet(s) : y.turn = t}}

\* The last activity of a turn is the latest of its entries.
LEMMA LatestIs ==
  ASSUME NEW s \in Seq(Entries), NEW t
  PROVE  LatestActivity(s, t) = Latest(LastsOf(s, t))
<1>1. {s[i].last : i \in {j \in DOMAIN s : s[j].turn = t}} = LastsOf(s, t)
  BY DEF LastsOf, ToSet
<1> QED BY <1>1 DEF LatestActivity

\* It can be read from the turn's own entries.
LEMMA LatestOf ==
  ASSUME NEW s \in Seq(Entries), NEW t
  PROVE  LatestActivity(Of(s, t), t) = LatestActivity(s, t)
<1>1. PICK o \in Seq(Entries) : o = Of(s, t) /\ ToSet(o) = {x \in ToSet(s) : x.turn = t}
  BY OfType
<1>2. LastsOf(o, t) = LastsOf(s, t)
  BY <1>1 DEF LastsOf
<1>3. LatestActivity(o, t) = Latest(LastsOf(o, t)) /\ LatestActivity(s, t) = Latest(LastsOf(s, t))
  BY LatestIs
<1> QED BY <1>1, <1>2, <1>3

\* A turn without any entry has none.
LEMMA LatestNone ==
  ASSUME NEW s \in Seq(Entries), NEW t, t \notin TurnsIn(s)
  PROVE  LatestActivity(s, t) = -1
<1>1. LastsOf(s, t) = {}
  BY DEF LastsOf, TurnsIn
<1>2. Latest({}) = -1
  BY DEF Latest
<1> QED BY <1>1, <1>2, LatestIs

\* A turn with an entry of now has it now.
LEMMA LatestNow ==
  ASSUME NEW s \in Seq(Entries), NEW n \in Nat, ActivityOK(s, n), NEW i \in DOMAIN s,
         NEW t, s[i].turn = t, s[i].last = n
  PROVE  LatestActivity(s, t) = n
<1>1. n \in LastsOf(s, t)
  BY DEF LastsOf, ToSet
<1>2. \A k \in LastsOf(s, t) : k \in Nat /\ k <= n
  <2>1. SUFFICES ASSUME NEW x \in ToSet(s) PROVE x.last \in Nat /\ x.last <= n
    BY DEF LastsOf
  <2>2. PICK j \in DOMAIN s : s[j] = x
    BY DEF ToSet
  <2>3. x \in Entries
    BY <2>2
  <2> QED BY <2>2, <2>3 DEF ActivityOK, Entries
<1>3. PICK S : S = LastsOf(s, t)
  OBVIOUS
<1>4. Latest(S) = n
  <2>1. n \in S \cup {-1} /\ \A k \in S : k <= n
    BY <1>1, <1>2, <1>3
  <2>2. Latest(S) \in S \cup {-1} /\ \A k \in S : k <= Latest(S)
    BY <2>1 DEF Latest
  <2>3. n <= Latest(S)
    BY <1>1, <1>3, <2>2
  <2>4. Latest(S) \in Nat \/ Latest(S) = -1
    BY <1>2, <1>3, <2>2
  <2>5. Latest(S) = -1 \/ Latest(S) <= n
    BY <1>2, <1>3, <2>2
  <2> QED BY <2>3, <2>4, <2>5
<1> QED BY <1>3, <1>4, LatestIs

\* Status is no part of it.
LEMMA LatestOnly ==
  ASSUME NEW s \in Seq(Entries), NEW u \in Seq(Entries), NEW t, Only(s, u, t), NEW v
  PROVE  LatestActivity(u, v) = LatestActivity(s, v)
<1>1. DOMAIN u = DOMAIN s /\ \A k \in DOMAIN s : u[k].turn = s[k].turn /\ u[k].last = s[k].last
  BY DEF Only
<1>2. {u[i].last : i \in {j \in DOMAIN u : u[j].turn = v}}
        = {s[i].last : i \in {j \in DOMAIN s : s[j].turn = v}}
  BY <1>1
<1> QED BY <1>2 DEF LatestActivity

\* Two activities that go on alike.
LEMMA LateOn ==
  ASSUME NEW a \in Seq(Entries), NEW b \in Seq(Entries), AsLate(a, b),
         NEW c, NEW d, NEW t, NEW n \in Nat, Goes(a, c, t, n), Goes(b, d, t, n)
  PROVE  AsLate(c, d)
<1>1. SUFFICES ASSUME NEW v \in TurnIds PROVE LatestActivity(c, v) = LatestActivity(d, v)
  BY DEF AsLate
<1>2. /\ c \in Seq(Entries) /\ ActivityOK(c, n) /\ d \in Seq(Entries) /\ ActivityOK(d, n)
      /\ \A r : r # t => Of(c, r) = Of(a, r) /\ Of(d, r) = Of(b, r)
      /\ \E i \in DOMAIN c : c[i].turn = t /\ c[i].last = n
      /\ \E i \in DOMAIN d : d[i].turn = t /\ d[i].last = n
  BY DEF Goes
<1>3. CASE v = t
  <2>1. LatestActivity(c, t) = n
    BY <1>2, LatestNow
  <2>2. LatestActivity(d, t) = n
    BY <1>2, LatestNow
  <2> QED BY <1>3, <2>1, <2>2
<1>4. CASE v # t
  <2>1. LatestActivity(Of(c, v), v) = LatestActivity(c, v)
    BY <1>2, LatestOf
  <2>2. LatestActivity(Of(d, v), v) = LatestActivity(d, v)
    BY <1>2, LatestOf
  <2>3. LatestActivity(Of(a, v), v) = LatestActivity(a, v)
    BY LatestOf
  <2>4. LatestActivity(Of(b, v), v) = LatestActivity(b, v)
    BY LatestOf
  <2>5. LatestActivity(a, v) = LatestActivity(b, v)
    BY DEF AsLate
  <2> QED BY <1>2, <1>4, <2>1, <2>2, <2>3, <2>4, <2>5
<1> QED BY <1>3, <1>4

\* Entries whose status changed are of the tools they were of.
LEMMA OnlyTools ==
  ASSUME NEW s \in Seq(Entries), NEW u \in Seq(Entries), NEW t, Only(s, u, t), NEW k
  PROVE  HasTool(u, k) <=> HasTool(s, k)
<1>1. DOMAIN u = DOMAIN s /\ \A i \in DOMAIN s : u[i].tool = s[i].tool
  BY DEF Only
<1> QED BY <1>1 DEF HasTool

\* The tools of an activity with another entry.
LEMMA ToolsOfAppend ==
  ASSUME NEW s \in Seq(Entries), NEW x \in Entries, NEW k
  PROVE  HasTool(Append(s, x), k) <=> HasTool(s, k) \/ x.tool = k
<1>1. /\ \A i \in DOMAIN s : i \in DOMAIN Append(s, x) /\ Append(s, x)[i] = s[i]
      /\ Len(s) + 1 \in DOMAIN Append(s, x) /\ Append(s, x)[Len(s) + 1] = x
      /\ \A i \in DOMAIN Append(s, x) : i \in DOMAIN s \/ i = Len(s) + 1
  OBVIOUS
<1> QED BY <1>1 DEF HasTool

\* The tools of an activity with an entry replaced by one of the same tool.
LEMMA ToolsOfReplaced ==
  ASSUME NEW s \in Seq(Entries), NEW i \in DOMAIN s, NEW x \in Entries, x.tool = s[i].tool, NEW k
  PROVE  HasTool([s EXCEPT ![i] = x], k) <=> HasTool(s, k)
<1>1. DOMAIN [s EXCEPT ![i] = x] = DOMAIN s
  OBVIOUS
<1>2. \A j \in DOMAIN s : [s EXCEPT ![i] = x][j].tool = s[j].tool
  OBVIOUS
<1> QED BY <1>1, <1>2 DEF HasTool

\* A thought is of no tool.
LEMMA ThoughtTools ==
  ASSUME None \notin Tools, NEW s \in Seq(Entries), NEW t \in TurnIds, NEW st \in Status,
         NEW n \in Nat, NEW k \in Tools
  PROVE  HasTool(AppendThought(s, t, st, n), k) <=> HasTool(s, k)
<1>1. /\ AppendThought(s, t, st, n) \in Seq(Entries)
      /\ Extends(s, t) =>
           /\ Len(s) \in DOMAIN s /\ Thinks(s[Len(s)], t)
           /\ AppendThought(s, t, st, n) = [s EXCEPT ![Len(s)] = Later(s[Len(s)], n)]
      /\ ~Extends(s, t) =>
           AppendThought(s, t, st, n) = Append(FinishThought(s, t), Thought(t, st, n))
      /\ Thought(t, st, n) \in Entries
  BY AppendThoughtIs
<1>2. CASE Extends(s, t)
  <2>1. PICK i \in DOMAIN s : i = Len(s)
    BY <1>1, <1>2
  <2>2. PICK a \in Entries : a = s[i]
    OBVIOUS
  <2>3. PICK x \in Entries : x = Later(a, n) /\ x.tool = a.tool
    BY LaterIs
  <2>4. HasTool([s EXCEPT ![i] = x], k) <=> HasTool(s, k)
    BY <2>2, <2>3, ToolsOfReplaced
  <2> QED BY <1>1, <1>2, <2>1, <2>2, <2>3, <2>4
<1>3. CASE ~Extends(s, t)
  <2>1. PICK f \in Seq(Entries) : f = FinishThought(s, t) /\ Only(s, f, t)
    BY FinishThoughtIs
  <2>2. PICK x \in Entries : x = Thought(t, st, n) /\ x.tool = None
    BY <1>1 DEF Thought
  <2>3. HasTool(Append(f, x), k) <=> HasTool(f, k) \/ x.tool = k
    BY ToolsOfAppend
  <2>4. HasTool(f, k) <=> HasTool(s, k)
    BY <2>1, OnlyTools
  <2> QED BY <1>1, <1>3, <2>1, <2>2, <2>3, <2>4
<1> QED BY <1>2, <1>3

\* A tool's entry is of that tool.
LEMMA UpsertTools ==
  ASSUME NEW s \in Seq(Entries), NEW x \in ToolRecs, x.turn # None, NEW st \in Status,
         NEW n \in Nat, NEW k
  PROVE  HasTool(UpsertTool(s, ToolAt(s, x.id), x, st, n), k) <=> HasTool(s, k) \/ k = x.id
<1>1. PICK i : i = ToolAt(s, x.id)
  OBVIOUS
<1>2. /\ i # 0 => i \in DOMAIN s /\ s[i].tool = x.id
      /\ i = 0 => ~HasTool(s, x.id)
  BY <1>1, ToolAtIs DEF HasTool
<1>3. /\ i \in DOMAIN s =>
           /\ UpsertTool(s, i, x, st, n) = [s EXCEPT ![i] = Renewed(s[i], st, n)]
           /\ UpsertTool(s, i, x, st, n) \in Seq(Entries)
      /\ i = 0 =>
           /\ UpsertTool(s, i, x, st, n) = Append(FinishThought(s, x.turn), ToolEntry(x, st, n))
           /\ UpsertTool(s, i, x, st, n) \in Seq(Entries)
      /\ ToolEntry(x, st, n) \in Entries
  BY UpsertIs
<1>4. CASE i # 0
  <2>1. PICK a \in Entries : a = s[i]
    BY <1>2, <1>4
  <2>2. PICK y \in Entries : y = Renewed(a, st, n) /\ y.tool = a.tool
    BY RenewedIs
  <2>3. HasTool([s EXCEPT ![i] = y], k) <=> HasTool(s, k)
    BY <1>2, <1>4, <2>1, <2>2, ToolsOfReplaced
  <2>4. HasTool(s, x.id)
    BY <1>2, <1>4 DEF HasTool
  <2> QED BY <1>1, <1>2, <1>3, <1>4, <2>1, <2>2, <2>3, <2>4
<1>5. CASE i = 0
  <2>1. PICK f \in Seq(Entries) : f = FinishThought(s, x.turn) /\ Only(s, f, x.turn)
    BY FinishThoughtIs
  <2>2. PICK y \in Entries : y = ToolEntry(x, st, n) /\ y.tool = x.id
    BY <1>3 DEF ToolEntry
  <2>3. HasTool(Append(f, y), k) <=> HasTool(f, k) \/ y.tool = k
    BY ToolsOfAppend
  <2>4. HasTool(f, k) <=> HasTool(s, k)
    BY <2>1, OnlyTools
  <2> QED BY <1>1, <1>3, <1>5, <2>1, <2>2, <2>3, <2>4
<1> QED BY <1>4, <1>5

-----------------------------------------------------------------------------
(* The server's activity a and the renderer's b of one thread, whose active *)
(* turn is v                                                                *)

Together(a, b, v) ==
  /\ AsLate(a, b) /\ SameEnd(a, b) /\ SameTools(a, b)
  /\ Of(b, v) = Of(a, v)

\* A turn that did something last has the last entry among its own.
LEMMA EndOf ==
  ASSUME NEW s \in Seq(Entries), s # <<>>, NEW t, s[Len(s)].turn = t
  PROVE  Of(s, t) # <<>> /\ Of(s, t)[Len(Of(s, t))] = s[Len(s)]
<1>1. PICK i \in DOMAIN s : i = Len(s)
  OBVIOUS
<1>2. PICK j : Placed(Entries, s, t, i, j)
  BY <1>1, PlaceOf
<1>3. PICK o \in Seq(Entries) : o = Of(s, t)
  BY OfType
<1>4. j \in DOMAIN o /\ o[j] = s[i] /\ \A l \in j + 1..Len(o) : \E k \in i + 1..Len(s) : o[l] = s[k]
  BY <1>2, <1>3 DEF Placed
<1>5. j = Len(o)
  <2>1. SUFFICES ASSUME j # Len(o) PROVE FALSE
    OBVIOUS
  <2>2. Len(o) \in j + 1..Len(o)
    BY <1>4, <2>1
  <2>3. PICK k \in i + 1..Len(s) : o[Len(o)] = s[k]
    BY <1>4, <2>2
  <2> QED BY <1>1, <2>3
<1> QED BY <1>1, <1>3, <1>4, <1>5

\* Activities that end alike extend the active turn's thought alike.
LEMMA ExtendAlike ==
  ASSUME NEW a \in Seq(Entries), NEW b \in Seq(Entries), NEW v, Together(a, b, v)
  PROVE  Extends(a, v) <=> Extends(b, v)
<1>1. (a = <<>> <=> b = <<>>) /\ (a # <<>> => a[Len(a)].turn = b[Len(b)].turn) /\ Of(b, v) = Of(a, v)
  BY DEF Together, SameEnd
<1>2. CASE a = <<>> \/ a[Len(a)].turn # v
  BY <1>1, <1>2 DEF Extends
<1>3. CASE a # <<>> /\ a[Len(a)].turn = v
  <2>1. Of(a, v)[Len(Of(a, v))] = a[Len(a)]
    BY <1>3, EndOf
  <2>2. Of(b, v)[Len(Of(b, v))] = b[Len(b)]
    BY <1>1, <1>3, EndOf
  <2>3. a[Len(a)] = b[Len(b)] /\ b # <<>>
    BY <1>1, <1>3, <2>1, <2>2
  <2> QED BY <1>3, <2>3 DEF Extends
<1> QED BY <1>2, <1>3

\* A thought keeps the two together: in the active turn both say it is in
\* progress, in another one only the server knows that the turn has ended.
LEMMA ThoughtTogether ==
  ASSUME None \notin Tools, NEW n \in Nat, NEW a \in Seq(Entries), NEW b \in Seq(Entries),
         ActivityOK(a, n), ActivityOK(b, n), NEW v, Together(a, b, v),
         NEW t \in TurnIds, NEW st \in Status, t = v => st = "in_progress",
         NEW c, NEW d, c = AppendThought(a, t, st, n + 1),
         d = AppendThought(b, t, "in_progress", n + 1)
  PROVE  Together(c, d, v)
<1>1. PICK m \in Nat : m = n + 1
  OBVIOUS
<1>2. PICK ip \in Status : ip = "in_progress"
  BY DEF Status
<1>3. Goes(a, c, t, n + 1) /\ Len(c) \in DOMAIN c /\ c[Len(c)].turn = t
  BY ThoughtGoes
<1>4. Goes(b, d, t, n + 1) /\ Len(d) \in DOMAIN d /\ d[Len(d)].turn = t
  BY <1>2, ThoughtGoes
<1>5. AsLate(a, b) /\ SameEnd(a, b) /\ SameTools(a, b) /\ Of(b, v) = Of(a, v)
  BY DEF Together
<1>6. AsLate(c, d)
  BY <1>1, <1>3, <1>4, <1>5, LateOn
<1>7. SameEnd(c, d)
  BY <1>3, <1>4 DEF SameEnd
<1>8. SameTools(c, d)
  <2>1. SUFFICES ASSUME NEW k \in Tools PROVE HasTool(c, k) <=> HasTool(d, k)
    BY DEF SameTools
  <2>2. HasTool(AppendThought(a, t, st, m), k) <=> HasTool(a, k)
    BY ThoughtTools
  <2>3. HasTool(AppendThought(b, t, ip, m), k) <=> HasTool(b, k)
    BY ThoughtTools
  <2> QED BY <1>1, <1>2, <1>5, <2>2, <2>3 DEF SameTools
<1>9. Of(d, v) = Of(c, v)
  <2>1. PICK o : o = Of(a, t)
    OBVIOUS
  <2>2. PICK u : u = Of(b, t)
    OBVIOUS
  <2>3. /\ Extends(a, t) =>
             Of(AppendThought(a, t, st, m), t) = [o EXCEPT ![Len(o)] = Later(o[Len(o)], m)]
        /\ ~Extends(a, t) =>
             Of(AppendThought(a, t, st, m), t) = Append(FinishThought(o, t), Thought(t, st, m))
        /\ \A w : w # t => Of(AppendThought(a, t, st, m), w) = Of(a, w)
    BY <2>1, ThoughtOf
  <2>4. /\ Extends(b, t) =>
             Of(AppendThought(b, t, ip, m), t) = [u EXCEPT ![Len(u)] = Later(u[Len(u)], m)]
        /\ ~Extends(b, t) =>
             Of(AppendThought(b, t, ip, m), t) = Append(FinishThought(u, t), Thought(t, ip, m))
        /\ \A w : w # t => Of(AppendThought(b, t, ip, m), w) = Of(b, w)
    BY <2>2, ThoughtOf
  <2>5. CASE v = t
    <3>1. (Extends(a, t) <=> Extends(b, t)) /\ o = u /\ st = ip
      BY <1>2, <1>5, <2>1, <2>2, <2>5, ExtendAlike
    <3> QED BY <1>1, <1>2, <2>3, <2>4, <2>5, <3>1
  <2>6. CASE v # t
    BY <1>1, <1>2, <1>5, <2>3, <2>4, <2>6
  <2> QED BY <2>5, <2>6
<1> QED BY <1>6, <1>7, <1>8, <1>9 DEF Together

\* A tool keeps the two together: they differ in its status only after its turn.
LEMMA ToolTogether ==
  ASSUME NEW n \in Nat, NEW a \in Seq(Entries), NEW b \in Seq(Entries),
         ActivityOK(a, n), ActivityOK(b, n), NEW v, Together(a, b, v),
         NEW x \in ToolRecs, x.turn # None, NEW st \in Status, x.turn = v => st = x.status,
         \A i \in DOMAIN a : a[i].tool = x.id => a[i].turn = x.turn,
         \A i \in DOMAIN b : b[i].tool = x.id => b[i].turn = x.turn,
         NEW c, NEW d, c = UpsertTool(a, ToolAt(a, x.id), x, st, n + 1),
         d = UpsertTool(b, ToolAt(b, x.id), x, x.status, n + 1)
  PROVE  Together(c, d, v)
<1>1. PICK m \in Nat : m = n + 1
  OBVIOUS
<1>2. PICK sx \in Status : sx = x.status
  BY DEF ToolRecs
<1>3. /\ Goes(a, c, x.turn, n + 1)
      /\ ToolAt(a, x.id) = 0 => Len(c) \in DOMAIN c /\ c[Len(c)].turn = x.turn
      /\ ToolAt(a, x.id) # 0 => /\ Len(c) = Len(a) /\ a # <<>>
                                /\ c[Len(c)].turn = a[Len(a)].turn
  BY ToolGoes
<1>4. /\ Goes(b, d, x.turn, n + 1)
      /\ ToolAt(b, x.id) = 0 => Len(d) \in DOMAIN d /\ d[Len(d)].turn = x.turn
      /\ ToolAt(b, x.id) # 0 => /\ Len(d) = Len(b) /\ b # <<>>
                                /\ d[Len(d)].turn = b[Len(b)].turn
  BY <1>2, ToolGoes
<1>5. AsLate(a, b) /\ SameEnd(a, b) /\ SameTools(a, b) /\ Of(b, v) = Of(a, v)
  BY DEF Together
<1>6. AsLate(c, d)
  BY <1>1, <1>3, <1>4, <1>5, LateOn
<1>7. SameEnd(c, d)
  <2>1. c # <<>> /\ d # <<>>
    BY <1>3, <1>4 DEF Goes
  <2>2. x.id \in Tools
    BY DEF ToolRecs
  <2>3. (ToolAt(a, x.id) = 0 <=> ~HasTool(a, x.id)) /\ (ToolAt(b, x.id) = 0 <=> ~HasTool(b, x.id))
    BY ToolAtIs DEF HasTool
  <2>4. ToolAt(a, x.id) = 0 <=> ToolAt(b, x.id) = 0
    BY <1>5, <2>2, <2>3 DEF SameTools
  <2>5. ToolAt(b, x.id) # 0 => a[Len(a)].turn = b[Len(b)].turn
    BY <1>3, <1>5, <2>4 DEF SameEnd
  <2>6. c[Len(c)].turn = d[Len(d)].turn
    BY <1>3, <1>4, <2>4, <2>5
  <2> QED BY <2>1, <2>6 DEF SameEnd
<1>8. SameTools(c, d)
  <2>1. SUFFICES ASSUME NEW k \in Tools PROVE HasTool(c, k) <=> HasTool(d, k)
    BY DEF SameTools
  <2>2. HasTool(UpsertTool(a, ToolAt(a, x.id), x, st, m), k) <=> HasTool(a, k) \/ k = x.id
    BY UpsertTools
  <2>3. HasTool(UpsertTool(b, ToolAt(b, x.id), x, sx, m), k) <=> HasTool(b, k) \/ k = x.id
    BY UpsertTools
  <2>4. HasTool(c, k) <=> HasTool(a, k) \/ k = x.id
    BY <1>1, <2>2
  <2>5. HasTool(d, k) <=> HasTool(b, k) \/ k = x.id
    BY <1>1, <1>2, <2>3
  <2> QED BY <1>5, <2>4, <2>5 DEF SameTools
<1>9. Of(d, v) = Of(c, v)
  <2>1. PICK o : o = Of(a, x.turn)
    OBVIOUS
  <2>2. PICK u : u = Of(b, x.turn)
    OBVIOUS
  <2>3. Upserted(a, o, c, x, st, m)
    BY <1>1, <2>1, UpsertOf
  <2>4. Upserted(b, u, d, x, sx, m)
    BY <1>1, <1>2, <2>2, UpsertOf
  <2>5. /\ Of(c, x.turn) = UpsertTool(o, ToolAt(o, x.id), x, st, m)
        /\ \A w : w # x.turn => Of(c, w) = Of(a, w)
    BY <2>3 DEF Upserted
  <2>6. /\ Of(d, x.turn) = UpsertTool(u, ToolAt(u, x.id), x, sx, m)
        /\ \A w : w # x.turn => Of(d, w) = Of(b, w)
    BY <2>4 DEF Upserted
  <2>7. CASE v = x.turn
    <3>1. o = u /\ st = sx
      BY <1>2, <1>5, <2>1, <2>2, <2>7
    <3> QED BY <2>5, <2>6, <2>7, <3>1
  <2>8. CASE v # x.turn
    BY <1>5, <2>5, <2>6, <2>8
  <2> QED BY <2>7, <2>8
<1> QED BY <1>6, <1>7, <1>8, <1>9 DEF Together

\* No activity is of no turn.
LEMMA NoTurnOf ==
  ASSUME None \notin TurnIds, NEW s \in Seq(Entries)
  PROVE  Of(s, None) = <<>>
<1>1. None \notin TurnsIn(s)
  <2>1. SUFFICES ASSUME NEW x \in ToSet(s) PROVE x.turn # None
    BY DEF TurnsIn
  <2>2. x \in Entries
    BY DEF ToSet
  <2> QED BY <2>2 DEF Entries
<1> QED BY <1>1, OfEmpty

\* Entries whose status changed in both keep the two together after the turn.
LEMMA EndTogether ==
  ASSUME None \notin TurnIds, NEW a \in Seq(Entries), NEW b \in Seq(Entries),
         NEW v, Together(a, b, v), NEW t,
         NEW c \in Seq(Entries), NEW d \in Seq(Entries), Only(a, c, t), Only(b, d, t)
  PROVE  Together(c, d, None)
<1>1. AsLate(a, b) /\ SameEnd(a, b) /\ SameTools(a, b)
  BY DEF Together
<1>2. AsLate(c, d)
  <2>1. \A w : LatestActivity(c, w) = LatestActivity(a, w)
    BY LatestOnly
  <2>2. \A w : LatestActivity(d, w) = LatestActivity(b, w)
    BY LatestOnly
  <2> QED BY <1>1, <2>1, <2>2 DEF AsLate
<1>3. SameEnd(c, d)
  <2>1. /\ Len(c) = Len(a) /\ \A k \in DOMAIN a : c[k].turn = a[k].turn
        /\ Len(d) = Len(b) /\ \A k \in DOMAIN b : d[k].turn = b[k].turn
    BY DEF Only
  <2>2. (c = <<>> <=> a = <<>>) /\ (d = <<>> <=> b = <<>>)
    BY <2>1
  <2>3. a # <<>> => c[Len(c)].turn = a[Len(a)].turn
    BY <2>1
  <2>4. b # <<>> => d[Len(d)].turn = b[Len(b)].turn
    BY <2>1
  <2> QED BY <1>1, <2>2, <2>3, <2>4 DEF SameEnd
<1>4. SameTools(c, d)
  <2>1. SUFFICES ASSUME NEW k \in Tools PROVE HasTool(c, k) <=> HasTool(d, k)
    BY DEF SameTools
  <2>2. HasTool(c, k) <=> HasTool(a, k)
    BY OnlyTools
  <2>3. HasTool(d, k) <=> HasTool(b, k)
    BY OnlyTools
  <2> QED BY <1>1, <2>2, <2>3 DEF SameTools
<1>5. Of(d, None) = Of(c, None)
  BY NoTurnOf
<1> QED BY <1>2, <1>3, <1>4, <1>5 DEF Together

\* A turn that starts has done nothing.
LEMMA StartTogether ==
  ASSUME NEW a \in Seq(Entries), NEW b \in Seq(Entries), NEW v, Together(a, b, v),
         NEW t, t \notin TurnsIn(a), t \notin TurnsIn(b)
  PROVE  Together(a, b, t)
<1>1. Of(a, t) = <<>> /\ Of(b, t) = <<>>
  BY OfEmpty
<1> QED BY <1>1 DEF Together

-----------------------------------------------------------------------------
(* The server's thread s, the renderer's thread r and its turns p           *)

SameStatus(s, r) ==
  /\ r.active = s.active /\ r.phase = s.phase /\ r.phaseTurn = s.phaseTurn
  /\ r.turns = s.turns /\ r.messages = s.messages /\ r.tools = s.tools
  /\ r.approvals = s.approvals /\ r.checkpoints = s.checkpoints /\ r.parts = s.parts

\* A turn is prepared before it starts and works after it has.
Ordered(s) ==
  /\ s.active # None => s.active \in TurnsIn(s.turns)
  /\ s.phase = "preparing" => s.phaseTurn \notin TurnsIn(s.turns)
  /\ TurnsIn(s.tools) \subseteq TurnsIn(s.turns) \cup {None}

KnownTurns(s, activity) == TurnsIn(activity) \subseteq Replays \cup TurnsIn(s.turns)

Pair(s, r, n) ==
  /\ n \in Nat /\ ThreadOK(s, n) /\ ThreadOK(r, n)
  /\ SameStatus(s, r) /\ Ordered(s)
  /\ KnownTurns(s, s.activity) /\ KnownTurns(s, r.activity)
  /\ Together(s.activity, r.activity, s.active)

Good(s, r, p, n) == Pair(s, r, n) /\ ShownOK(p, r)

\* Event e, the next one, where l is what the renderer has as the latest activity.
Stepped(s, r, p, n, e, l, s1, r1, p1) ==
  /\ s1 = Apply(s, e, n + 1) /\ r1 = Mutate(r, e, n + 1, l)
  /\ p1 = Project(p, r1, e, r.active)

\* What a step leaves to a rebuild, with the tool by its index.
LEMMA RebuildsIs ==
  ASSUME NEW p, NEW th, NEW e
  PROVE  Rebuilds(p, th, e) <=>
           \/ e.type = "TurnStarted" /\ At(p, e.turn) # 0
           \/ /\ e.type \in {"ToolCallCreated", "ToolCallPatched"}
              /\ th.tools[IdAt(th.tools, e.tool)].turn = None
           \/ e.type = "ApprovalResolved" /\ \A a \in p.approvalTurn : a.id # e.id
           \/ /\ e.type = "Ended" /\ At(p, e.turn) # 0
              /\ Record(th, e.turn) = "none"
<1> QED BY Zenon DEF Rebuilds, IdAt

\* The step of each event.
LEMMA ProjectIs ==
  ASSUME NEW p, NEW th, NEW e, NEW previous
  PROVE  /\ Rebuilds(p, th, e) => Project(p, th, e, previous) = Build(th)
         /\ ~Rebuilds(p, th, e) =>
              /\ e.type = "TurnPhaseChanged" => Project(p, th, e, previous) = PhaseStep(p, th, e)
              /\ e.type = "TurnStarted" =>
                   Project(p, th, e, previous) = StartStep(p, th, e, previous)
              /\ e.type \in {"MessageAppended", "MessageDelta"} =>
                   Project(p, th, e, previous) = MessageStep(p, th, e)
              /\ e.type \in {"ToolCallCreated", "ToolCallPatched"} =>
                   Project(p, th, e, previous) = ToolStep(p, th, e)
              /\ e.type = "ApprovalRequested" =>
                   Project(p, th, e, previous) = ApprovalStep(p, th, e)
              /\ e.type = "ApprovalResolved" => Project(p, th, e, previous) = ResolveStep(p, e)
              /\ e.type = "Ended" => Project(p, th, e, previous) = EndStep(p, th, e)
              /\ e.type \in {"CheckpointCaptured", "CheckpointReverted",
                             "CheckpointPartReverted"} =>
                   Project(p, th, e, previous) = CheckpointStep(p, e)
<1> QED BY DEF Project

\* A rebuild shows the thread.
LEMMA RebuildShown ==
  ASSUME NEW th, NEW n, ThreadOK(th, n)
  PROVE  ShownOK(Build(th), th)
<1> QED BY BuildIs DEF ThreadOK, ShownOK

Carried(th, nx) ==
  nx.active = th.active /\ nx.turns = th.turns /\ nx.tools = th.tools /\ nx.activity = th.activity

\* A step that leaves turns, tools and activity alone keeps the pair.
LEMMA PairOn ==
  ASSUME NEW s, NEW r, NEW n, Pair(s, r, n), NEW s1, NEW r1,
         ThreadOK(s1, n + 1), ThreadOK(r1, n + 1), SameStatus(s1, r1),
         Carried(s, s1), Carried(r, r1),
         s1.phase = "preparing" => s1.phaseTurn \notin TurnsIn(s1.turns)
  PROVE  Pair(s1, r1, n + 1)
<1>1. n + 1 \in Nat
  BY DEF Pair
<1>2. Ordered(s1)
  BY DEF Ordered, Pair, Carried
<1>3. /\ KnownTurns(s1, s1.activity) /\ KnownTurns(s1, r1.activity)
      /\ Together(s1.activity, r1.activity, s1.active)
  BY DEF KnownTurns, Pair, Carried
<1> QED BY <1>1, <1>2, <1>3 DEF Pair

PhaseMoved(th, nx, e) ==
  /\ Carried(th, nx) /\ nx.messages = th.messages /\ nx.approvals = th.approvals
  /\ nx.checkpoints = th.checkpoints /\ nx.parts = th.parts
  /\ nx.phase = IF PhaseGoes(th, e) THEN e.phase ELSE th.phase
  /\ nx.phaseTurn = IF PhaseGoes(th, e) THEN e.turn ELSE th.phaseTurn

\* A phase changes the phase, or nothing.
LEMMA PhaseOn ==
  ASSUME NEW n \in Nat, NEW th, ThreadOK(th, n), NEW e, e.phase \in Phases, e.turn \in Turns,
         NEW nx, nx = IF PhaseGoes(th, e) THEN WithPhase(th, e) ELSE th
  PROVE  ThreadOK(nx, n + 1) /\ PhaseMoved(th, nx, e)
<1>1. CASE PhaseGoes(th, e)
  <2>1. nx = WithPhase(th, e)
    BY <1>1
  <2>2. /\ ThreadOK(nx, n + 1) /\ nx.active = th.active /\ nx.phase = e.phase
        /\ nx.phaseTurn = e.turn /\ nx.turns = th.turns /\ nx.messages = th.messages
        /\ nx.activity = th.activity /\ nx.tools = th.tools /\ nx.approvals = th.approvals
        /\ nx.checkpoints = th.checkpoints /\ nx.parts = th.parts
    BY <2>1, PhaseThread
  <2> QED BY <1>1, <2>2 DEF PhaseMoved, Carried
<1>2. CASE ~PhaseGoes(th, e)
  <2>1. nx = th
    BY <1>2
  <2>2. ThreadOK(th, n + 1)
    BY NumbersOn DEF ThreadOK
  <2>3. PhaseMoved(th, th, e)
    BY <1>2 DEF PhaseMoved, Carried
  <2> QED BY <2>1, <2>2, <2>3
<1> QED BY <1>1, <1>2

\* TurnPhaseChanged.
LEMMA PhaseGood ==
  ASSUME NamesOK, NEW s, NEW r, NEW p, NEW n, Good(s, r, p, n),
         NEW e, e.type = "TurnPhaseChanged", e.turn \in Turns, e.phase \in Phases,
         s.active \in {None, e.turn}, e.phase = "preparing" => e.turn \notin TurnsIn(s.turns),
         NEW l, NEW s1, NEW r1, NEW p1, Stepped(s, r, p, n, e, l, s1, r1, p1)
  PROVE  Good(s1, r1, p1, n + 1)
<1>1. /\ n \in Nat /\ ThreadOK(s, n) /\ ThreadOK(r, n) /\ SameStatus(s, r) /\ Ordered(s)
      /\ Pair(s, r, n) /\ ShownOK(p, r)
  BY DEF Good, Pair
<1>2. e.turn # None
  BY DEF NamesOK, TurnIds
<1>3. s1 = IF PhaseGoes(s, e) THEN WithPhase(s, e) ELSE s
  BY <1>2, PhaseIs DEF Stepped
<1>4. r1 = IF PhaseGoes(r, e) THEN WithPhase(r, e) ELSE r
  BY <1>2, PhaseIs DEF Stepped
<1>5. ThreadOK(s1, n + 1) /\ PhaseMoved(s, s1, e)
  BY <1>1, <1>3, PhaseOn
<1>6. ThreadOK(r1, n + 1) /\ PhaseMoved(r, r1, e)
  BY <1>1, <1>4, PhaseOn
<1>7. PhaseGoes(s, e) <=> PhaseGoes(r, e)
  BY <1>1 DEF SameStatus, PhaseGoes
<1>8. SameStatus(s1, r1)
  BY <1>1, <1>5, <1>6, <1>7 DEF SameStatus, PhaseMoved, Carried
<1>9. s1.phase = "preparing" => s1.phaseTurn \notin TurnsIn(s1.turns)
  BY <1>1, <1>5 DEF PhaseMoved, Carried, Ordered
<1>10. Pair(s1, r1, n + 1)
  BY <1>1, <1>5, <1>6, <1>8, <1>9, PairOn DEF PhaseMoved
<1>11. p1 = PhaseStep(p, r1, e)
  <2>1. ~Rebuilds(p, r1, e)
    BY RebuildsIs
  <2> QED BY <2>1, ProjectIs DEF Stepped
<1>12. ShownOK(p1, r1)
  <2>1. r1 \in Threads /\ r \in Threads /\ r.active \in {None, e.turn}
    BY <1>1, <1>6 DEF ThreadOK, SameStatus
  <2>2. /\ r1.active = r.active /\ r1.turns = r.turns
        /\ r1.messages = r.messages /\ r1.activity = r.activity /\ r1.tools = r.tools
        /\ r1.approvals = r.approvals /\ r1.checkpoints = r.checkpoints /\ r1.parts = r.parts
    BY <1>6 DEF PhaseMoved, Carried
  <2> QED BY <1>1, <1>11, <2>1, <2>2, PhaseShown
<1> QED BY <1>10, <1>12 DEF Good

-----------------------------------------------------------------------------
(* The events in which both do the same                                     *)

Asked(th, nx, a) ==
  /\ Carried(th, nx) /\ nx.phase = th.phase /\ nx.phaseTurn = th.phaseTurn
  /\ nx.messages = th.messages /\ nx.approvals = Append(th.approvals, a)
  /\ nx.checkpoints = th.checkpoints /\ nx.parts = th.parts

\* A request is kept with the turn it is of.
LEMMA AskOn ==
  ASSUME NEW n \in Nat, NEW th, ThreadOK(th, n), NEW e, e.type = "ApprovalRequested",
         e.id \in Approvals, \A a \in ToSet(th.approvals) : a.id # e.id,
         NEW nx, nx = Common(th, e, n + 1), NEW a, a = [id |-> e.id, turn |-> th.active]
  PROVE  ThreadOK(nx, n + 1) /\ a \in ApprovalRecs /\ Asked(th, nx, a)
<1>1. /\ ThreadOK(nx, n + 1) /\ a \in ApprovalRecs /\ nx.active = th.active /\ nx.phase = th.phase
      /\ nx.phaseTurn = th.phaseTurn /\ nx.turns = th.turns /\ nx.messages = th.messages
      /\ nx.activity = th.activity /\ nx.tools = th.tools
      /\ nx.approvals = Append(th.approvals, a)
      /\ nx.checkpoints = th.checkpoints /\ nx.parts = th.parts
  BY AskThread
<1> QED BY <1>1 DEF Asked, Carried

\* ApprovalRequested.
LEMMA AskGood ==
  ASSUME NamesOK, NEW s, NEW r, NEW p, NEW n, Good(s, r, p, n),
         NEW e, e.type = "ApprovalRequested", e.id \in Approvals,
         \A a \in ToSet(s.approvals) : a.id # e.id,
         NEW l, NEW s1, NEW r1, NEW p1, Stepped(s, r, p, n, e, l, s1, r1, p1)
  PROVE  Good(s1, r1, p1, n + 1)
<1>1. /\ n \in Nat /\ ThreadOK(s, n) /\ ThreadOK(r, n) /\ SameStatus(s, r) /\ Ordered(s)
      /\ Pair(s, r, n) /\ ShownOK(p, r)
  BY DEF Good, Pair
<1>2. s1 = Common(s, e, n + 1) /\ r1 = Common(r, e, n + 1)
  <2>1. s1 = Apply(s, e, n + 1) /\ r1 = Mutate(r, e, n + 1, l)
    BY DEF Stepped
  <2>2. Apply(s, e, n + 1) = Common(s, e, n + 1) /\ Mutate(r, e, n + 1, l) = Common(r, e, n + 1)
    BY CommonIs
  <2> QED BY <2>1, <2>2
<1>3. r.approvals = s.approvals /\ r.active = s.active
  BY <1>1 DEF SameStatus
<1>4. PICK a : a = [id |-> e.id, turn |-> s.active]
  OBVIOUS
<1>5. ThreadOK(s1, n + 1) /\ a \in ApprovalRecs /\ Asked(s, s1, a)
  BY <1>1, <1>2, <1>4, AskOn
<1>6. ThreadOK(r1, n + 1) /\ Asked(r, r1, a)
  <2>1. a = [id |-> e.id, turn |-> r.active] /\ \A b \in ToSet(r.approvals) : b.id # e.id
    BY <1>3, <1>4
  <2> QED BY <1>1, <1>2, <2>1, AskOn
<1>7. SameStatus(s1, r1)
  BY <1>1, <1>5, <1>6 DEF SameStatus, Asked, Carried
<1>8. Pair(s1, r1, n + 1)
  <2>1. s1.phase = "preparing" => s1.phaseTurn \notin TurnsIn(s1.turns)
    BY <1>1, <1>5 DEF Asked, Carried, Ordered
  <2> QED BY <1>1, <1>5, <1>6, <1>7, <2>1, PairOn DEF Asked
<1>9. p1 = ApprovalStep(p, r1, e)
  <2>1. ~Rebuilds(p, r1, e)
    BY RebuildsIs
  <2> QED BY <2>1, ProjectIs DEF Stepped
<1>10. ShownOK(ApprovalStep(p, r1, e), r1)
  <2>1. r1 \in Threads /\ r \in Threads /\ a.id = e.id /\ a.turn = r.active
    BY <1>1, <1>3, <1>4, <1>6 DEF ThreadOK
  <2>2. Waiting(r, r1) /\ r1.approvals = Append(r.approvals, a)
    BY <1>6 DEF Asked, Carried, Waiting
  <2> QED BY <1>1, <1>5, <2>1, <2>2, AskShown
<1> QED BY <1>8, <1>9, <1>10 DEF Good

Answered(th, nx, id) ==
  /\ Carried(th, nx) /\ nx.phase = th.phase /\ nx.phaseTurn = th.phaseTurn
  /\ nx.messages = th.messages /\ nx.approvals = Without(th.approvals, id)
  /\ nx.checkpoints = th.checkpoints /\ nx.parts = th.parts

\* A request that is answered is dropped.
LEMMA AnswerOn ==
  ASSUME NEW n \in Nat, NEW th, ThreadOK(th, n), NEW e, e.type = "ApprovalResolved",
         NEW nx, nx = Common(th, e, n + 1)
  PROVE  ThreadOK(nx, n + 1) /\ Answered(th, nx, e.id)
<1>1. /\ ThreadOK(nx, n + 1) /\ nx.active = th.active /\ nx.phase = th.phase
      /\ nx.phaseTurn = th.phaseTurn /\ nx.turns = th.turns /\ nx.messages = th.messages
      /\ nx.activity = th.activity /\ nx.tools = th.tools
      /\ nx.approvals = Without(th.approvals, e.id)
      /\ nx.checkpoints = th.checkpoints /\ nx.parts = th.parts
  BY AnswerThread
<1> QED BY <1>1 DEF Answered, Carried

\* ApprovalResolved: an answer to what the renderer does not know rebuilds.
LEMMA AnswerGood ==
  ASSUME NamesOK, NEW s, NEW r, NEW p, NEW n, Good(s, r, p, n),
         NEW e, e.type = "ApprovalResolved",
         NEW l, NEW s1, NEW r1, NEW p1, Stepped(s, r, p, n, e, l, s1, r1, p1)
  PROVE  Good(s1, r1, p1, n + 1)
<1>1. /\ n \in Nat /\ ThreadOK(s, n) /\ ThreadOK(r, n) /\ SameStatus(s, r) /\ Ordered(s)
      /\ Pair(s, r, n) /\ ShownOK(p, r)
  BY DEF Good, Pair
<1>2. s1 = Common(s, e, n + 1) /\ r1 = Common(r, e, n + 1)
  <2>1. s1 = Apply(s, e, n + 1) /\ r1 = Mutate(r, e, n + 1, l)
    BY DEF Stepped
  <2>2. Apply(s, e, n + 1) = Common(s, e, n + 1) /\ Mutate(r, e, n + 1, l) = Common(r, e, n + 1)
    BY CommonIs
  <2> QED BY <2>1, <2>2
<1>3. ThreadOK(s1, n + 1) /\ Answered(s, s1, e.id)
  BY <1>1, <1>2, AnswerOn
<1>4. ThreadOK(r1, n + 1) /\ Answered(r, r1, e.id)
  BY <1>1, <1>2, AnswerOn
<1>5. SameStatus(s1, r1)
  BY <1>1, <1>3, <1>4 DEF SameStatus, Answered, Carried
<1>6. Pair(s1, r1, n + 1)
  <2>1. s1.phase = "preparing" => s1.phaseTurn \notin TurnsIn(s1.turns)
    BY <1>1, <1>3 DEF Answered, Carried, Ordered
  <2> QED BY <1>1, <1>3, <1>4, <1>5, <2>1, PairOn DEF Answered
<1>7. ShownOK(p1, r1)
  <2>1. CASE Rebuilds(p, r1, e)
    <3>1. p1 = Build(r1)
      BY <2>1, ProjectIs DEF Stepped
    <3> QED BY <1>4, <3>1, RebuildShown
  <2>2. CASE ~Rebuilds(p, r1, e)
    <3>1. p1 = ResolveStep(p, e)
      BY <2>2, ProjectIs DEF Stepped
    <3>2. \E a \in p.approvalTurn : a.id = e.id
      BY <2>2, RebuildsIs
    <3>3. r1 \in Threads /\ r \in Threads /\ ApprovalsOK(r.approvals)
      BY <1>1, <1>4 DEF ThreadOK
    <3>4. Waiting(r, r1) /\ r1.approvals = Without(r.approvals, e.id)
      BY <1>4 DEF Answered, Carried, Waiting
    <3> QED BY <1>1, <3>1, <3>2, <3>3, <3>4, AnswerShown
  <2> QED BY <2>1, <2>2
<1> QED BY <1>6, <1>7 DEF Good

\* CheckpointCaptured, CheckpointReverted, CheckpointPartReverted.
LEMMA CheckpointGood ==
  ASSUME NamesOK, NEW s, NEW r, NEW p, NEW n, Good(s, r, p, n), NEW e,
         e.type \in {"CheckpointCaptured", "CheckpointReverted", "CheckpointPartReverted"},
         e.turn \in TurnIds, e.phase \in {"before", "after", "reverted"},
         NEW l, NEW s1, NEW r1, NEW p1, Stepped(s, r, p, n, e, l, s1, r1, p1)
  PROVE  Good(s1, r1, p1, n + 1)
<1>1. /\ n \in Nat /\ ThreadOK(s, n) /\ ThreadOK(r, n) /\ SameStatus(s, r) /\ Ordered(s)
      /\ Pair(s, r, n) /\ ShownOK(p, r)
  BY DEF Good, Pair
<1>2. s1 = Common(s, e, n + 1) /\ r1 = Common(r, e, n + 1)
  <2>1. s1 = Apply(s, e, n + 1) /\ r1 = Mutate(r, e, n + 1, l)
    BY DEF Stepped
  <2>2. Apply(s, e, n + 1) = Common(s, e, n + 1) /\ Mutate(r, e, n + 1, l) = Common(r, e, n + 1)
    BY CommonIs
  <2> QED BY <2>1, <2>2
<1>3. PICK c : c = [turn |-> e.turn, phase |-> e.phase]
  OBVIOUS
<1>4. ThreadOK(s1, n + 1) /\ c \in CheckRecs /\ Marked(s, s1, c, e.type = "CheckpointPartReverted")
  BY <1>1, <1>2, <1>3, CheckpointThread
<1>5. ThreadOK(r1, n + 1) /\ Marked(r, r1, c, e.type = "CheckpointPartReverted")
  BY <1>1, <1>2, <1>3, CheckpointThread
<1>6. SameStatus(s1, r1)
  BY <1>1, <1>4, <1>5 DEF SameStatus, Marked, Snapped
<1>7. Carried(s, s1) /\ Carried(r, r1)
  BY <1>4, <1>5 DEF Carried, Marked, Snapped
<1>8. Pair(s1, r1, n + 1)
  <2>1. s1.phase = "preparing" => s1.phaseTurn \notin TurnsIn(s1.turns)
    BY <1>1, <1>4 DEF Marked, Snapped, Ordered
  <2> QED BY <1>1, <1>4, <1>5, <1>6, <1>7, <2>1, PairOn
<1>9. p1 = CheckpointStep(p, e)
  <2>1. ~Rebuilds(p, r1, e)
    BY RebuildsIs
  <2> QED BY <2>1, ProjectIs DEF Stepped
<1>10. ShownOK(CheckpointStep(p, e), r1)
  <2>1. r1 \in Threads /\ r \in Threads /\ c.turn = e.turn /\ c.phase = e.phase
    BY <1>1, <1>3, <1>5 DEF ThreadOK
  <2>2. Snapped(r, r1, c, e.type = "CheckpointPartReverted")
    BY <1>5 DEF Marked
  <2> QED BY <1>1, <1>4, <2>1, <2>2, CheckpointShown
<1> QED BY <1>8, <1>9, <1>10 DEF Good

-----------------------------------------------------------------------------
(* A turn starts and ends                                                   *)

\* TurnStarted: a turn that is already shown, for output came early, rebuilds.
LEMMA StartGood ==
  ASSUME NamesOK, NEW s, NEW r, NEW p, NEW n, Good(s, r, p, n),
         NEW e, e.type = "TurnStarted", e.turn \in Turns,
         s.active = None, e.turn \notin TurnsIn(s.turns),
         NEW l, NEW s1, NEW r1, NEW p1, Stepped(s, r, p, n, e, l, s1, r1, p1)
  PROVE  Good(s1, r1, p1, n + 1)
<1>1. /\ n \in Nat /\ ThreadOK(s, n) /\ ThreadOK(r, n) /\ SameStatus(s, r) /\ Ordered(s)
      /\ Pair(s, r, n) /\ ShownOK(p, r)
  BY DEF Good, Pair
<1>2. s1 = Common(s, e, n + 1) /\ r1 = Common(r, e, n + 1)
  <2>1. s1 = Apply(s, e, n + 1) /\ r1 = Mutate(r, e, n + 1, l)
    BY DEF Stepped
  <2>2. Apply(s, e, n + 1) = Common(s, e, n + 1) /\ Mutate(r, e, n + 1, l) = Common(r, e, n + 1)
    BY CommonIs
  <2> QED BY <2>1, <2>2
<1>3. PICK z : z = [turn |-> e.turn, stop |-> None]
  OBVIOUS
<1>4. PICK x : x = [turn |-> e.turn, role |-> "user", text |-> <<n + 1>>]
  OBVIOUS
<1>5. /\ ThreadOK(s1, n + 1) /\ z \in TurnRecs /\ x \in MessageRecs
      /\ Started(s, s1, e.turn, z, x) /\ s1.phaseTurn = e.turn
  BY <1>1, <1>2, <1>3, <1>4, StartThread
<1>6. ThreadOK(r1, n + 1) /\ Started(r, r1, e.turn, z, x) /\ r1.phaseTurn = e.turn
  BY <1>1, <1>2, <1>3, <1>4, StartThread
<1>7. SameStatus(s1, r1)
  BY <1>1, <1>5, <1>6 DEF SameStatus, Started
<1>8. TurnsIn(s1.turns) = TurnsIn(s.turns) \cup {e.turn}
  <2>1. PICK rs \in Seq(TurnRecs) : rs = s.turns
    BY <1>1 DEF ThreadOK, Threads
  <2>2. TurnsIn(Append(rs, z)) = TurnsIn(rs) \cup {z.turn}
    BY <1>5, TurnsOfAppend
  <2> QED BY <1>5, <2>1, <2>2 DEF Started
<1>9. Pair(s1, r1, n + 1)
  <2>1. Ordered(s1)
    BY <1>1, <1>5, <1>8 DEF Ordered, Started
  <2>2. /\ KnownTurns(s, s.activity) /\ KnownTurns(s, r.activity)
        /\ Together(s.activity, r.activity, s.active)
    BY <1>1 DEF Pair
  <2>3. KnownTurns(s1, s1.activity) /\ KnownTurns(s1, r1.activity)
    BY <1>5, <1>6, <1>8, <2>2 DEF KnownTurns, Started
  <2>4. e.turn \notin TurnsIn(s.activity) /\ e.turn \notin TurnsIn(r.activity)
    BY <2>2 DEF KnownTurns, NamesOK
  <2>5. s.activity \in Seq(Entries) /\ r.activity \in Seq(Entries)
    BY <1>1 DEF ThreadOK, Threads
  <2>6. Together(s.activity, r.activity, e.turn)
    BY <2>2, <2>4, <2>5, StartTogether
  <2>7. Together(s1.activity, r1.activity, s1.active)
    BY <1>5, <1>6, <2>6 DEF Started
  <2> QED BY <1>1, <1>5, <1>6, <1>7, <2>1, <2>3, <2>7 DEF Pair
<1>10. ShownOK(p1, r1)
  <2>1. CASE Rebuilds(p, r1, e)
    <3>1. p1 = Build(r1)
      BY <2>1, ProjectIs DEF Stepped
    <3> QED BY <1>6, <3>1, RebuildShown
  <2>2. CASE ~Rebuilds(p, r1, e)
    <3>1. p1 = StartStep(p, r1, e, r.active)
      BY <2>2, ProjectIs DEF Stepped
    <3>2. At(p, e.turn) = 0
      BY <2>2, RebuildsIs
    <3>3. r.active = None
      BY <1>1 DEF SameStatus
    <3> QED BY <1>1, <1>5, <1>6, <3>1, <3>2, <3>3, StartShown
  <2> QED BY <2>1, <2>2
<1> QED BY <1>9, <1>10 DEF Good

\* The end of a turn is the same in both, whatever their activities.
LEMMA EndsAlike ==
  ASSUME NEW s \in Threads, NEW r \in Threads, SameStatus(s, r), NEW e, NEW a, NEW b,
         NEW s1, s1 = Ended(s, e, a), NEW r1, r1 = Ended(r, e, b)
  PROVE  SameStatus(s1, r1)
<1>1. PICK i : i = SelectLastInSeq(s.turns, LAMBDA z : z.turn = e.turn)
  OBVIOUS
<1>2. i = SelectLastInSeq(r.turns, LAMBDA z : z.turn = e.turn)
  <2>1. r.turns = s.turns
    BY DEF SameStatus
  <2> QED BY <1>1, <2>1
<1>3. PICK rs : rs = IF i = 0 THEN s.turns ELSE [s.turns EXCEPT ![i].stop = e.stop]
  OBVIOUS
<1>4. rs = IF i = 0 THEN r.turns ELSE [r.turns EXCEPT ![i].stop = e.stop]
  BY <1>3 DEF SameStatus
<1>5. PICK ph : ph = IF e.stop = "error" THEN "failed" ELSE "idle"
  OBVIOUS
<1>6. s1 = IF s.active = e.turn
           THEN [[s EXCEPT !.turns = rs, !.activity = a]
                   EXCEPT !.active = None, !.phaseTurn = None, !.phase = ph]
           ELSE [s EXCEPT !.turns = rs, !.activity = a]
  BY <1>1, <1>3, <1>5 DEF Ended
<1>7. r1 = IF r.active = e.turn
           THEN [[r EXCEPT !.turns = rs, !.activity = b]
                   EXCEPT !.active = None, !.phaseTurn = None, !.phase = ph]
           ELSE [r EXCEPT !.turns = rs, !.activity = b]
  BY <1>2, <1>4, <1>5 DEF Ended
<1> QED BY <1>6, <1>7 DEF SameStatus, Threads

\* Ended, which only the turn at work does.
LEMMA EndGood ==
  ASSUME NamesOK, NEW s, NEW r, NEW p, NEW n, Good(s, r, p, n),
         NEW e, e.type = "Ended", e.turn \in Turns, s.active = e.turn,
         e.stop \in {"end_turn", "error", "cancelled"},
         NEW l, NEW s1, NEW r1, NEW p1, Stepped(s, r, p, n, e, l, s1, r1, p1)
  PROVE  Good(s1, r1, p1, n + 1)
<1>1. /\ n \in Nat /\ ThreadOK(s, n) /\ ThreadOK(r, n) /\ SameStatus(s, r) /\ Ordered(s)
      /\ Pair(s, r, n) /\ ShownOK(p, r)
  BY DEF Good, Pair
<1>2. s1 = Common(s, e, n + 1) /\ r1 = Common(r, e, n + 1)
  <2>1. s1 = Apply(s, e, n + 1) /\ r1 = Mutate(r, e, n + 1, l)
    BY DEF Stepped
  <2>2. Apply(s, e, n + 1) = Common(s, e, n + 1) /\ Mutate(r, e, n + 1, l) = Common(r, e, n + 1)
    BY CommonIs
  <2> QED BY <2>1, <2>2
<1>3. r.active = e.turn
  BY <1>1 DEF SameStatus
<1>4. PICK st \in Status : st = EndStatus(e)
  BY DEF EndStatus, Status
<1>5. /\ ThreadOK(s1, n + 1) /\ HasEnded(s, s1, e.turn, EndStatus(e))
      /\ s1.phase \in {"idle", "failed"} /\ s1.phaseTurn = None
      /\ Only(s.activity, s1.activity, e.turn) /\ TurnsIn(s1.activity) = TurnsIn(s.activity)
  BY <1>1, <1>2, EndThread
<1>6. /\ ThreadOK(r1, n + 1) /\ HasEnded(r, r1, e.turn, EndStatus(e))
      /\ r1.phase \in {"idle", "failed"} /\ r1.phaseTurn = None
      /\ Only(r.activity, r1.activity, e.turn) /\ TurnsIn(r1.activity) = TurnsIn(r.activity)
  BY <1>1, <1>2, <1>3, EndThread
<1>7. SameStatus(s1, r1)
  <2>1. /\ Common(s, e, n + 1) = Ended(s, e, FinishActivity(s.activity, e.turn, EndStatus(e)))
        /\ Common(r, e, n + 1) = Ended(r, e, FinishActivity(r.activity, e.turn, EndStatus(e)))
    BY DEF Common
  <2>2. s \in Threads /\ r \in Threads
    BY <1>1 DEF ThreadOK
  <2> QED BY <1>1, <1>2, <2>1, <2>2, EndsAlike
<1>8. TurnsIn(s1.turns) = TurnsIn(s.turns)
  <2>1. PICK rs \in Seq(TurnRecs) : rs = s.turns
    BY <1>1 DEF ThreadOK, Threads
  <2>2. PICK us \in Seq(TurnRecs) : us = s1.turns
    BY <1>5 DEF ThreadOK, Threads
  <2>3. Len(us) = Len(rs) /\ \A k \in DOMAIN rs : us[k].turn = rs[k].turn
    BY <1>5, <2>1, <2>2 DEF HasEnded
  <2>4. DOMAIN us = DOMAIN rs
    BY <2>3
  <2>5. TurnsIn(us) = {us[k].turn : k \in DOMAIN us} /\ TurnsIn(rs) = {rs[k].turn : k \in DOMAIN rs}
    BY DEF TurnsIn, ToSet
  <2>6. TurnsIn(us) = TurnsIn(rs)
    BY <2>3, <2>4, <2>5
  <2> QED BY <2>1, <2>2, <2>6
<1>9. Pair(s1, r1, n + 1)
  <2>1. Ordered(s1)
    <3>1. s1.active = None /\ s1.phase # "preparing" /\ s1.tools = s.tools
      BY <1>5 DEF HasEnded
    <3> QED BY <1>1, <1>8, <3>1 DEF Ordered
  <2>2. /\ KnownTurns(s, s.activity) /\ KnownTurns(s, r.activity)
        /\ Together(s.activity, r.activity, s.active)
    BY <1>1 DEF Pair
  <2>3. KnownTurns(s1, s1.activity) /\ KnownTurns(s1, r1.activity)
    BY <1>5, <1>6, <1>8, <2>2 DEF KnownTurns
  <2>4. /\ s.activity \in Seq(Entries) /\ r.activity \in Seq(Entries)
        /\ s1.activity \in Seq(Entries) /\ r1.activity \in Seq(Entries)
    BY <1>1, <1>5, <1>6 DEF ThreadOK, Threads
  <2>5. Together(s1.activity, r1.activity, None)
    BY <1>5, <1>6, <2>2, <2>4, EndTogether DEF NamesOK
  <2>6. s1.active = None
    BY <1>5 DEF HasEnded
  <2> QED BY <1>1, <1>5, <1>6, <1>7, <2>1, <2>3, <2>5, <2>6 DEF Pair
<1>10. ShownOK(p1, r1)
  <2>1. CASE Rebuilds(p, r1, e)
    <3>1. p1 = Build(r1)
      BY <2>1, ProjectIs DEF Stepped
    <3> QED BY <1>6, <3>1, RebuildShown
  <2>2. CASE ~Rebuilds(p, r1, e)
    <3>1. p1 = EndStep(p, r1, e)
      BY <2>2, ProjectIs DEF Stepped
    <3>2. r \in Threads /\ r1 \in Threads /\ None \notin TurnIds
      BY <1>1, <1>6 DEF ThreadOK, NamesOK
    <3>3. HasEnded(r, r1, e.turn, st)
      BY <1>4, <1>6
    <3> QED BY <1>1, <1>4, <3>1, <3>2, <3>3, EndShown
  <2> QED BY <2>1, <2>2
<1> QED BY <1>9, <1>10 DEF Good

-----------------------------------------------------------------------------
(* What the runtime says                                                    *)

\* MessageDelta with a thought.
LEMMA ThoughtGood ==
  ASSUME NamesOK, NEW s, NEW r, NEW p, NEW n, Good(s, r, p, n),
         NEW e, e.type = "MessageDelta", e.role = "thought", e.turn \in TurnIds,
         e.turn \in Replays \cup TurnsIn(s.turns),
         NEW l, NEW s1, NEW r1, NEW p1, Stepped(s, r, p, n, e, l, s1, r1, p1)
  PROVE  Good(s1, r1, p1, n + 1)
<1>1. /\ n \in Nat /\ ThreadOK(s, n) /\ ThreadOK(r, n) /\ SameStatus(s, r) /\ Ordered(s)
      /\ Pair(s, r, n) /\ ShownOK(p, r)
  BY DEF Good, Pair
<1>2. PICK st \in Status : st = IF s.active = e.turn THEN "in_progress" ELSE "completed"
  BY DEF Status
<1>3. PICK ip \in Status : ip = "in_progress"
  BY DEF Status
<1>4. /\ Mutate(r, e, n + 1, l)
           = [r EXCEPT !.activity = AppendThought(@, e.turn, "in_progress", n + 1)]
      /\ Apply(s, e, n + 1)
           = [s EXCEPT !.activity = AppendThought(@, e.turn,
                IF s.active = e.turn THEN "in_progress" ELSE "completed", n + 1)]
  BY ThoughtIs
<1>5. s1 = [s EXCEPT !.activity = AppendThought(@, e.turn, st, n + 1)]
  BY <1>2, <1>4 DEF Stepped
<1>6. r1 = [r EXCEPT !.activity = AppendThought(@, e.turn, ip, n + 1)]
  BY <1>3, <1>4 DEF Stepped
<1>7. ThreadOK(s1, n + 1) /\ Thinking(s, s1, e.turn, st, n + 1) /\ GoesOn(s, s1, e.turn, n + 1)
  BY <1>1, <1>5, ThoughtThread
<1>8. ThreadOK(r1, n + 1) /\ Thinking(r, r1, e.turn, ip, n + 1) /\ GoesOn(r, r1, e.turn, n + 1)
  BY <1>1, <1>6, ThoughtThread
<1>9. SameStatus(s1, r1)
  BY <1>1, <1>7, <1>8 DEF SameStatus, Thinking, Steady, GoesOn
<1>10. Pair(s1, r1, n + 1)
  <2>1. Ordered(s1)
    BY <1>1, <1>7 DEF Ordered, Thinking, Steady, GoesOn
  <2>2. /\ KnownTurns(s, s.activity) /\ KnownTurns(s, r.activity)
        /\ Together(s.activity, r.activity, s.active)
    BY <1>1 DEF Pair
  <2>3. /\ TurnsIn(s1.activity) = TurnsIn(s.activity) \cup {e.turn}
        /\ TurnsIn(r1.activity) = TurnsIn(r.activity) \cup {e.turn}
    BY <1>7, <1>8 DEF GoesOn, Goes
  <2>4. KnownTurns(s1, s1.activity) /\ KnownTurns(s1, r1.activity)
    BY <1>7, <2>2, <2>3 DEF KnownTurns, Thinking, Steady
  <2>5. /\ s.activity \in Seq(Entries) /\ r.activity \in Seq(Entries)
        /\ ActivityOK(s.activity, n) /\ ActivityOK(r.activity, n)
    BY <1>1 DEF ThreadOK, Threads
  <2>6. /\ s1.activity = AppendThought(s.activity, e.turn, st, n + 1)
        /\ r1.activity = AppendThought(r.activity, e.turn, "in_progress", n + 1)
        /\ s1.active = s.active
    BY <1>3, <1>7, <1>8 DEF Thinking, Steady
  <2>7. e.turn = s.active => st = "in_progress"
    BY <1>2
  <2>8. Together(s1.activity, r1.activity, s.active)
    BY <1>1, <2>2, <2>5, <2>6, <2>7, ThoughtTogether DEF NamesOK
  <2> QED BY <1>1, <1>7, <1>8, <1>9, <2>1, <2>4, <2>6, <2>8 DEF Pair
<1>11. p1 = MessageStep(p, r1, e)
  <2>1. ~Rebuilds(p, r1, e)
    BY RebuildsIs
  <2> QED BY <2>1, ProjectIs DEF Stepped
<1>12. ShownOK(MessageStep(p, r1, e), r1)
  BY <1>1, <1>8, ThoughtShown
<1> QED BY <1>10, <1>11, <1>12 DEF Good

\* What the renderer takes for the latest activity of a turn.
Cached(p, t) ==
  IF At(p, t) = 0 THEN -1 ELSE LatestActivity(p.views[At(p, t)].activity, t)

\* It is the server's.
LEMMA CachedIs ==
  ASSUME NEW s, NEW r, NEW p, NEW n, Good(s, r, p, n), NEW t \in TurnIds
  PROVE  Cached(p, t) = LatestActivity(s.activity, t)
<1>1. r.activity \in Seq(Entries) /\ ShownFor(p, r, AllTurns(r))
  BY DEF Good, Pair, ThreadOK, Threads, ShownOK
<1>2. LatestActivity(s.activity, t) = LatestActivity(r.activity, t)
  BY DEF Good, Pair, Together, AsLate
<1>3. CASE t \in AllTurns(r)
  <2>1. At(p, t) # 0 /\ p.views[At(p, t)].turn = t /\ Shows(p.views[At(p, t)], r)
    BY <1>1, <1>3, AtShown
  <2>2. p.views[At(p, t)].activity = Of(r.activity, t)
    BY <2>1 DEF Shows
  <2>3. LatestActivity(Of(r.activity, t), t) = LatestActivity(r.activity, t)
    BY <1>1, LatestOf
  <2> QED BY <1>2, <2>1, <2>2, <2>3 DEF Cached
<1>4. CASE t \notin AllTurns(r)
  <2>1. At(p, t) = 0
    BY <1>1, <1>4, AtShown
  <2>2. LatestActivity(r.activity, t) = -1
    BY <1>1, <1>4, LatestNone DEF AllTurns
  <2> QED BY <1>2, <2>1, <2>2 DEF Cached
<1> QED BY <1>3, <1>4

\* MessageAppended and MessageDelta with a message: both continue the same one.
LEMMA ChunkGood ==
  ASSUME NamesOK, NEW s, NEW r, NEW p, NEW n, Good(s, r, p, n),
         NEW e, e.type \in {"MessageAppended", "MessageDelta"}, e.role \in {"user", "assistant"},
         e.turn \in TurnIds,
         NEW l, l = Cached(p, e.turn),
         NEW s1, NEW r1, NEW p1, Stepped(s, r, p, n, e, l, s1, r1, p1)
  PROVE  Good(s1, r1, p1, n + 1)
<1>1. /\ n \in Nat /\ ThreadOK(s, n) /\ ThreadOK(r, n) /\ SameStatus(s, r) /\ Ordered(s)
      /\ Pair(s, r, n) /\ ShownOK(p, r)
  BY DEF Good, Pair
<1>2. l = LatestActivity(s.activity, e.turn)
  BY CachedIs
<1>3. /\ Mutate(r, e, n + 1, l) = [r EXCEPT !.messages = AppendMessage(@, l, e, n + 1)]
      /\ Apply(s, e, n + 1) = [s EXCEPT !.messages =
           AppendMessage(@, LatestActivity(s.activity, e.turn), e, n + 1)]
  BY ChunkIs
<1>4. PICK k : k = l
  OBVIOUS
<1>5. s1 = [s EXCEPT !.messages = AppendMessage(@, k, e, n + 1)]
  BY <1>2, <1>3, <1>4 DEF Stepped
<1>6. r1 = [r EXCEPT !.messages = AppendMessage(@, k, e, n + 1)]
  BY <1>3, <1>4 DEF Stepped
<1>7. ThreadOK(s1, n + 1) /\ Chunked(s, s1, e, k, n + 1) /\ s1.phaseTurn = s.phaseTurn
  BY <1>1, <1>5, ChunkThread
<1>8. ThreadOK(r1, n + 1) /\ Chunked(r, r1, e, k, n + 1) /\ r1.phaseTurn = r.phaseTurn
  BY <1>1, <1>6, ChunkThread
<1>9. SameStatus(s1, r1) /\ Carried(s, s1) /\ Carried(r, r1)
  BY <1>1, <1>7, <1>8 DEF SameStatus, Chunked, Steady, Carried
<1>10. Pair(s1, r1, n + 1)
  <2>1. s1.phase = "preparing" => s1.phaseTurn \notin TurnsIn(s1.turns)
    BY <1>1, <1>7 DEF Chunked, Steady, Ordered
  <2> QED BY <1>1, <1>7, <1>8, <1>9, <2>1, PairOn
<1>11. p1 = MessageStep(p, r1, e)
  <2>1. ~Rebuilds(p, r1, e)
    BY RebuildsIs
  <2> QED BY <2>1, ProjectIs DEF Stepped
<1>12. ShownOK(MessageStep(p, r1, e), r1)
  BY <1>1, <1>8, ChunkShown
<1> QED BY <1>10, <1>11, <1>12 DEF Good

\* The tool a call made or changed, as both find it in their tools.
LEMMA ToolOfCall ==
  ASSUME NEW s, NEW r, SameStatus(s, r), NEW n, ThreadOK(s, n),
         NEW e, e.tool \in Tools,
         \/ /\ e.type = "ToolCallCreated" /\ e.status = "in_progress"
            /\ e.tool \notin {y.id : y \in ToSet(s.tools)}
         \/ e.type = "ToolCallPatched" /\ e.status \in {"completed", "failed", None}
  PROVE  /\ NewTools(r, e) = NewTools(s, e)
         /\ ToolStepOf(s.tools, NewTools(s, e), e.tool, s.active)
<1>1. s.tools \in Seq(ToolRecs) /\ UniqueIds(s.tools) /\ s.active \in Turns \cup {None}
  BY DEF ThreadOK, Threads
<1>2. r.tools = s.tools /\ r.active = s.active
  BY DEF SameStatus
<1>3. CASE /\ e.type = "ToolCallCreated" /\ e.status = "in_progress"
           /\ e.tool \notin {y.id : y \in ToSet(s.tools)}
  <2>1. NewTools(s, e) = Added(s.tools, e, s.active) /\ NewTools(r, e) = Added(s.tools, e, s.active)
    BY <1>2, <1>3 DEF NewTools
  <2>2. ToolStepOf(s.tools, Added(s.tools, e, s.active), e.tool, s.active)
    BY <1>1, <1>3, AddedIs
  <2> QED BY <2>1, <2>2
<1>4. CASE e.type = "ToolCallPatched" /\ e.status \in {"completed", "failed", None}
  <2>1. /\ NewTools(s, e) = Patched(s.tools, IdAt(s.tools, e.tool), e, s.active)
        /\ NewTools(r, e) = Patched(s.tools, IdAt(s.tools, e.tool), e, s.active)
    BY <1>2, <1>4 DEF NewTools
  <2>2. ToolStepOf(s.tools, Patched(s.tools, IdAt(s.tools, e.tool), e, s.active), e.tool, s.active)
    BY <1>1, <1>4, PatchedIs
  <2> QED BY <2>1, <2>2
<1> QED BY <1>3, <1>4

\* ToolCallCreated and ToolCallPatched: a tool of no turn rebuilds.
LEMMA ToolGood ==
  ASSUME NamesOK, NEW s, NEW r, NEW p, NEW n, Good(s, r, p, n),
         NEW e, e.type \in {"ToolCallCreated", "ToolCallPatched"}, e.tool \in Tools,
         \/ /\ e.type = "ToolCallCreated" /\ e.status = "in_progress"
            /\ e.tool \notin {y.id : y \in ToSet(s.tools)}
         \/ e.type = "ToolCallPatched" /\ e.status \in {"completed", "failed", None},
         NEW l, NEW s1, NEW r1, NEW p1, Stepped(s, r, p, n, e, l, s1, r1, p1)
  PROVE  Good(s1, r1, p1, n + 1)
<1>1. /\ n \in Nat /\ ThreadOK(s, n) /\ ThreadOK(r, n) /\ SameStatus(s, r) /\ Ordered(s)
      /\ Pair(s, r, n) /\ ShownOK(p, r)
  BY DEF Good, Pair
<1>2. PICK u : u = NewTools(s, e)
  OBVIOUS
<1>3. NewTools(r, e) = u /\ ToolStepOf(s.tools, u, e.tool, s.active)
  BY <1>1, <1>2, ToolOfCall
<1>4. PICK x \in ToolRecs :
        /\ x.id = e.tool /\ ToolsNow(s.tools, u, x)
        /\ \A y \in ToSet(s.tools) : y.id = e.tool => y.turn \in {None, x.turn}
        /\ x.turn = s.active \/ \E y \in ToSet(s.tools) : y.turn = x.turn
  BY <1>3 DEF ToolStepOf
<1>5. r.tools = s.tools /\ r.active = s.active
  BY <1>1 DEF SameStatus
<1>6. \A y \in ToSet(s.tools) : y.id = x.id => y.turn \in {None, x.turn}
  BY <1>4
<1>7. ToolsNow(r.tools, u, x) /\ \A y \in ToSet(r.tools) : y.id = x.id => y.turn \in {None, x.turn}
  BY <1>4, <1>5, <1>6
<1>8. PICK st \in Status : st = ServerStatus(s, x)
  BY <1>4 DEF ServerStatus, ToolRecs, Status
<1>9. PICK sx \in Status : sx = x.status
  BY <1>4 DEF ToolRecs
<1>10. ThreadOK(s1, n + 1) /\ ToolSet(s, s1, u, x, n + 1) /\ ToolActs(s, s1, x, st, n + 1)
  <2>1. s1 = ServerTool(s, u, x.id, n + 1)
    <3>1. Apply(s, e, n + 1) = ServerTool(s, NewTools(s, e), e.tool, n + 1)
      BY ToolIs
    <3> QED BY <1>2, <1>4, <3>1 DEF Stepped
  <2>2. ServerTool(s, u, x.id, n + 1) = ToolDone(s, u, x, ServerStatus(s, x), n + 1)
    BY <1>1, <1>4, <1>6, ToolsAre
  <2>3. s1 = ToolDone(s, u, x, st, n + 1)
    BY <1>8, <2>1, <2>2
  <2> QED BY <1>1, <1>4, <1>6, <2>3, ToolThread
<1>11. ThreadOK(r1, n + 1) /\ ToolSet(r, r1, u, x, n + 1) /\ ToolActs(r, r1, x, sx, n + 1)
  <2>1. r1 = RendererTool(r, u, x.id, n + 1)
    <3>1. Mutate(r, e, n + 1, l) = RendererTool(r, NewTools(r, e), e.tool, n + 1)
      BY ToolIs
    <3> QED BY <1>3, <1>4, <3>1 DEF Stepped
  <2>2. RendererTool(r, u, x.id, n + 1) = ToolDone(r, u, x, x.status, n + 1)
    BY <1>1, <1>7, ToolsAre
  <2>3. r1 = ToolDone(r, u, x, sx, n + 1)
    BY <1>9, <2>1, <2>2
  <2> QED BY <1>1, <1>7, <2>3, ToolThread
<1>12. SameStatus(s1, r1)
  BY <1>1, <1>10, <1>11 DEF SameStatus, ToolSet
<1>13. x.turn \in TurnsIn(s.turns) \cup {None}
  BY <1>1, <1>4 DEF Ordered, TurnsIn
<1>14. Pair(s1, r1, n + 1)
  <2>1. Ordered(s1)
    <3>1. ToSet(u) = {y \in ToSet(s.tools) : y.id # x.id} \cup {x}
      BY <1>4 DEF ToolsNow
    <3>2. TurnsIn(u) \subseteq TurnsIn(s.turns) \cup {None}
      BY <1>1, <1>13, <3>1 DEF Ordered, TurnsIn
    <3> QED BY <1>1, <1>10, <3>2 DEF Ordered, ToolSet
  <2>2. /\ KnownTurns(s, s.activity) /\ KnownTurns(s, r.activity)
        /\ Together(s.activity, r.activity, s.active)
    BY <1>1 DEF Pair
  <2>3. s1.turns = s.turns /\ s1.active = s.active
    BY <1>10 DEF ToolSet
  <2>4. CASE x.turn = None
    <3>1. s1.activity = s.activity /\ r1.activity = r.activity
      BY <1>10, <1>11, <2>4 DEF ToolSet
    <3> QED BY <1>1, <1>10, <1>11, <1>12, <2>1, <2>2, <2>3, <3>1 DEF Pair, KnownTurns
  <2>5. CASE x.turn # None
    <3>1. /\ TurnsIn(s1.activity) = TurnsIn(s.activity) \cup {x.turn}
          /\ TurnsIn(r1.activity) = TurnsIn(r.activity) \cup {x.turn}
      BY <1>10, <1>11, <2>5 DEF ToolSet, Goes
    <3>2. KnownTurns(s1, s1.activity) /\ KnownTurns(s1, r1.activity)
      BY <1>13, <2>2, <2>3, <2>5, <3>1 DEF KnownTurns
    <3>3. /\ s.activity \in Seq(Entries) /\ r.activity \in Seq(Entries)
          /\ ActivityOK(s.activity, n) /\ ActivityOK(r.activity, n)
      BY <1>1 DEF ThreadOK, Threads
    <3>4. s1.activity = UpsertTool(s.activity, ToolAt(s.activity, x.id), x, st, n + 1)
      BY <1>10, <2>5 DEF ToolActs
    <3>5. r1.activity = UpsertTool(r.activity, ToolAt(r.activity, x.id), x, x.status, n + 1)
      BY <1>9, <1>11, <2>5 DEF ToolActs
    <3>6. /\ \A i \in DOMAIN s.activity : s.activity[i].tool = x.id => s.activity[i].turn = x.turn
          /\ \A i \in DOMAIN r.activity : r.activity[i].tool = x.id => r.activity[i].turn = x.turn
      BY <1>10, <1>11 DEF ToolSet
    <3>7. x.turn = s.active => st = x.status
      BY <1>8 DEF ServerStatus
    <3>8. PICK a \in Seq(Entries) : a = s.activity
      BY <3>3
    <3>9. PICK b \in Seq(Entries) : b = r.activity
      BY <3>3
    <3>10. PICK v : v = s.active
      OBVIOUS
    <3>11. Together(s1.activity, r1.activity, v)
      <4>1. ActivityOK(a, n) /\ ActivityOK(b, n) /\ Together(a, b, v)
        BY <2>2, <3>3, <3>8, <3>9, <3>10
      <4>2. /\ \A i \in DOMAIN a : a[i].tool = x.id => a[i].turn = x.turn
            /\ \A i \in DOMAIN b : b[i].tool = x.id => b[i].turn = x.turn
        BY <3>6, <3>8, <3>9
      <4>3. /\ s1.activity = UpsertTool(a, ToolAt(a, x.id), x, st, n + 1)
            /\ r1.activity = UpsertTool(b, ToolAt(b, x.id), x, x.status, n + 1)
        BY <3>4, <3>5, <3>8, <3>9
      <4>4. x.turn = v => st = x.status
        BY <3>7, <3>10
      <4> QED BY <1>1, <2>5, <4>1, <4>2, <4>3, <4>4, ToolTogether
    <3> QED BY <1>1, <1>10, <1>11, <1>12, <2>1, <2>3, <3>2, <3>10, <3>11 DEF Pair
  <2> QED BY <2>4, <2>5
<1>15. ShownOK(p1, r1)
  <2>1. r1.tools[IdAt(r1.tools, e.tool)] = x
    BY <1>4, <1>11 DEF ToolSet, ToolsNow
  <2>2. CASE x.turn = None
    <3>1. Rebuilds(p, r1, e)
      BY <2>1, <2>2, RebuildsIs
    <3>2. p1 = Build(r1)
      BY <3>1, ProjectIs DEF Stepped
    <3> QED BY <1>11, <3>2, RebuildShown
  <2>3. CASE x.turn # None
    <3>1. ~Rebuilds(p, r1, e)
      BY <2>1, <2>3, RebuildsIs
    <3>2. p1 = ToolStep(p, r1, e)
      BY <3>1, ProjectIs DEF Stepped
    <3>3. ToolMoved(r, r1, u, x, sx, n + 1)
      BY <1>7, <1>11, <2>3 DEF ToolMoved, ToolSet, ToolActs, Steady
    <3>4. e.tool = x.id
      BY <1>4
    <3> QED BY <1>1, <1>11, <2>3, <3>2, <3>3, <3>4, ToolShown
  <2> QED BY <2>2, <2>3
<1> QED BY <1>14, <1>15 DEF Good

-----------------------------------------------------------------------------
(* The steps                                                                *)

IInv == Good(server, thread, shown, seq)

\* An event reaches the server's thread, the renderer's and the turns shown.
LEMMA EmitIs ==
  ASSUME NEW e, Emit(e)
  PROVE  \E l : /\ Stepped(server, thread, shown, seq, e, l, server', thread', shown')
                /\ seq' = seq + 1
                /\ "turn" \in DOMAIN e => l = Cached(shown, e.turn)
<1>1. PICK i : i = IF "turn" \in DOMAIN e THEN At(shown, e.turn) ELSE 0
  OBVIOUS
<1>2. PICK l : l = IF i = 0 THEN -1 ELSE LatestActivity(shown.views[i].activity, e.turn)
  OBVIOUS
<1>3. /\ seq' = seq + 1 /\ server' = Apply(server, e, seq + 1)
      /\ thread' = Mutate(thread, e, seq + 1, l)
      /\ shown' = Project(shown, Mutate(thread, e, seq + 1, l), e, thread.active)
  BY <1>1, <1>2 DEF Emit
<1>4. "turn" \in DOMAIN e => l = Cached(shown, e.turn)
  BY <1>1, <1>2 DEF Cached
<1> QED BY <1>3, <1>4 DEF Stepped

\* What the steps use of the threads.
LEMMA Facts ==
  ASSUME NamesOK, IInv
  PROVE  /\ server \in Threads /\ server.active \in Turns \cup {None}
         /\ started = TurnsIn(server.turns) /\ started \subseteq Turns
         /\ server.active # None => server.active \in started
         /\ server.phase = "preparing" => server.phaseTurn \notin started
         /\ Turns \subseteq TurnIds /\ Replays \subseteq TurnIds /\ None \notin TurnIds
<1>1. server \in Threads /\ Ordered(server)
  BY DEF IInv, Good, Pair, ThreadOK
<1>2. started = TurnsIn(server.turns)
  BY DEF started, TurnsIn
<1>3. server.turns \in Seq(TurnRecs) /\ server.active \in Turns \cup {None}
  BY <1>1 DEF Threads
<1>4. started \subseteq Turns
  <2>1. SUFFICES ASSUME NEW z \in ToSet(server.turns) PROVE z.turn \in Turns
    BY DEF started
  <2>2. z \in TurnRecs
    BY <1>3 DEF ToSet
  <2> QED BY <2>2 DEF TurnRecs
<1> QED BY <1>1, <1>2, <1>3, <1>4 DEF Ordered, TurnIds, NamesOK

\* A phase of the turn at work, or of one when none is.
LEMMA PhaseStays ==
  ASSUME NamesOK, IInv, NEW ph \in Phases, NEW t \in Turns, server.active \in {None, t},
         ph = "preparing" => t \notin started, Phase(ph, t)
  PROVE  IInv'
<1>1. PICK e : e = [type |-> "TurnPhaseChanged", phase |-> ph, turn |-> t]
  OBVIOUS
<1>2. e.type = "TurnPhaseChanged" /\ e.phase = ph /\ e.turn = t
  BY <1>1
<1>3. Emit(e)
  BY <1>1 DEF Phase
<1>4. PICK l : /\ Stepped(server, thread, shown, seq, e, l, server', thread', shown')
               /\ seq' = seq + 1
  BY <1>3, EmitIs
<1>5. e.phase = "preparing" => e.turn \notin TurnsIn(server.turns)
  BY <1>2, Facts
<1>6. Good(server, thread, shown, seq)
  BY DEF IInv
<1>7. Good(server', thread', shown', seq + 1)
  BY <1>2, <1>4, <1>5, <1>6, PhaseGood
<1> QED BY <1>4, <1>7 DEF IInv

\* A snapshot of a turn.
LEMMA SnapshotStays ==
  ASSUME NamesOK, IInv,
         NEW ty \in {"CheckpointCaptured", "CheckpointReverted", "CheckpointPartReverted"},
         NEW t \in TurnIds, NEW ph \in {"before", "after", "reverted"},
         Emit([type |-> ty, turn |-> t, phase |-> ph])
  PROVE  IInv'
<1>1. PICK e : e = [type |-> ty, turn |-> t, phase |-> ph]
  OBVIOUS
<1>2. e.type = ty /\ e.phase = ph /\ e.turn = t
  BY <1>1
<1>3. Emit(e)
  BY <1>1
<1>4. PICK l : /\ Stepped(server, thread, shown, seq, e, l, server', thread', shown')
               /\ seq' = seq + 1
  BY <1>3, EmitIs
<1>5. Good(server, thread, shown, seq)
  BY DEF IInv
<1>6. Good(server', thread', shown', seq + 1)
  BY <1>2, <1>4, <1>5, CheckpointGood
<1> QED BY <1>4, <1>6 DEF IInv

\* A prompt's turn starts.
LEMMA StartStays == ASSUME NamesOK, IInv, StartTurn PROVE IInv'
<1>1. PICK t \in Turns : Preparing(t) /\ Emit([type |-> "TurnStarted", turn |-> t])
  BY DEF StartTurn
<1>2. PICK e : e = [type |-> "TurnStarted", turn |-> t]
  OBVIOUS
<1>3. e.type = "TurnStarted" /\ e.turn = t
  BY <1>2
<1>4. Emit(e)
  BY <1>1, <1>2
<1>5. PICK l : /\ Stepped(server, thread, shown, seq, e, l, server', thread', shown')
               /\ seq' = seq + 1
  BY <1>4, EmitIs
<1>6. server.active = None /\ t \notin TurnsIn(server.turns)
  BY <1>1, Facts DEF Preparing
<1>7. Good(server, thread, shown, seq)
  BY DEF IInv
<1>8. Good(server', thread', shown', seq + 1)
  BY <1>3, <1>5, <1>6, <1>7, StartGood
<1> QED BY <1>5, <1>8 DEF IInv

\* A turn ends.
LEMMA EndStays == ASSUME NamesOK, IInv, EndTurn PROVE IInv'
<1>1. PICK stop \in {"end_turn", "error", "cancelled"} :
        Emit([type |-> "Ended", turn |-> server.active, stop |-> stop])
  BY DEF EndTurn
<1>2. PICK e : e = [type |-> "Ended", turn |-> server.active, stop |-> stop]
  OBVIOUS
<1>3. e.type = "Ended" /\ e.turn = server.active /\ e.stop = stop
  BY <1>2
<1>4. Emit(e)
  BY <1>1, <1>2
<1>5. PICK l : /\ Stepped(server, thread, shown, seq, e, l, server', thread', shown')
               /\ seq' = seq + 1
  BY <1>4, EmitIs
<1>6. server.active \in Turns
  <2>1. server.active # None
    BY DEF EndTurn
  <2> QED BY <2>1, Facts
<1>7. Good(server, thread, shown, seq)
  BY DEF IInv
<1>8. e.turn \in Turns /\ server.active = e.turn /\ e.stop \in {"end_turn", "error", "cancelled"}
  BY <1>3, <1>6
<1>9. Good(server', thread', shown', seq + 1)
  BY <1>3, <1>5, <1>7, <1>8, EndGood
<1> QED BY <1>5, <1>9 DEF IInv

\* The runtime says something.
LEMMA DeltaStays == ASSUME NamesOK, IInv, Delta PROVE IInv'
<1>1. PICK t \in TurnIds, role \in {"assistant", "thought"} :
        Source(t) /\ Emit([type |-> "MessageDelta", turn |-> t, role |-> role])
  BY DEF Delta
<1>2. PICK e : e = [type |-> "MessageDelta", turn |-> t, role |-> role]
  OBVIOUS
<1>3. e.type = "MessageDelta" /\ e.turn = t /\ e.role = role /\ "turn" \in DOMAIN e
  BY <1>2
<1>4. Emit(e)
  BY <1>1, <1>2
<1>5. PICK l : /\ Stepped(server, thread, shown, seq, e, l, server', thread', shown')
               /\ seq' = seq + 1 /\ l = Cached(shown, e.turn)
  BY <1>3, <1>4, EmitIs
<1>6. t \in Replays \cup TurnsIn(server.turns)
  BY <1>1, Facts DEF Source
<1>7. Good(server, thread, shown, seq)
  BY DEF IInv
<1>8. Good(server', thread', shown', seq + 1)
  <2>1. CASE role = "thought"
    BY <1>3, <1>5, <1>6, <1>7, <2>1, ThoughtGood
  <2>2. CASE role = "assistant"
    <3>1. e.type \in {"MessageAppended", "MessageDelta"} /\ e.role \in {"user", "assistant"}
      BY <1>3, <2>2
    <3> QED BY <1>3, <1>5, <1>7, <3>1, ChunkGood
  <2> QED BY <2>1, <2>2
<1> QED BY <1>5, <1>8 DEF IInv

\* The runtime repeats what the user said.
LEMMA UserStays == ASSUME NamesOK, IInv, UserChunk PROVE IInv'
<1>1. PICK t \in TurnIds : Emit([type |-> "MessageAppended", turn |-> t, role |-> "user"])
  BY DEF UserChunk
<1>2. PICK e : e = [type |-> "MessageAppended", turn |-> t, role |-> "user"]
  OBVIOUS
<1>3. /\ e.type \in {"MessageAppended", "MessageDelta"} /\ e.role \in {"user", "assistant"}
      /\ e.turn = t /\ "turn" \in DOMAIN e
  BY <1>2
<1>4. Emit(e)
  BY <1>1, <1>2
<1>5. PICK l : /\ Stepped(server, thread, shown, seq, e, l, server', thread', shown')
               /\ seq' = seq + 1 /\ l = Cached(shown, e.turn)
  BY <1>3, <1>4, EmitIs
<1>6. Good(server, thread, shown, seq)
  BY DEF IInv
<1>7. Good(server', thread', shown', seq + 1)
  BY <1>3, <1>5, <1>6, ChunkGood
<1> QED BY <1>5, <1>7 DEF IInv

\* A tool call.
LEMMA ToolStays == ASSUME NamesOK, IInv, CreateTool \/ PatchTool PROVE IInv'
<1>1. PICK k \in Tools, st \in {"in_progress", "completed", "failed", None},
         ty \in {"ToolCallCreated", "ToolCallPatched"} :
        /\ \/ ty = "ToolCallCreated" /\ st = "in_progress" /\ k \notin known
           \/ ty = "ToolCallPatched" /\ st \in {"completed", "failed", None}
        /\ Emit([type |-> ty, tool |-> k, status |-> st])
  BY DEF CreateTool, PatchTool
<1>2. PICK e : e = [type |-> ty, tool |-> k, status |-> st]
  OBVIOUS
<1>3. e.type = ty /\ e.tool = k /\ e.status = st
  BY <1>2
<1>4. Emit(e)
  BY <1>1, <1>2
<1>5. PICK l : /\ Stepped(server, thread, shown, seq, e, l, server', thread', shown')
               /\ seq' = seq + 1
  BY <1>4, EmitIs
<1>6. /\ e.type \in {"ToolCallCreated", "ToolCallPatched"} /\ e.tool \in Tools
      /\ \/ /\ e.type = "ToolCallCreated" /\ e.status = "in_progress"
            /\ e.tool \notin {y.id : y \in ToSet(server.tools)}
         \/ e.type = "ToolCallPatched" /\ e.status \in {"completed", "failed", None}
  BY <1>1, <1>3 DEF known
<1>7. Good(server, thread, shown, seq)
  BY DEF IInv
<1>8. Good(server', thread', shown', seq + 1)
  BY <1>5, <1>6, <1>7, ToolGood
<1> QED BY <1>5, <1>8 DEF IInv

\* An approval is asked for.
LEMMA RequestStays == ASSUME NamesOK, IInv, RequestApproval PROVE IInv'
<1>1. PICK a \in Approvals :
        /\ \A b \in ToSet(server.approvals) : b.id # a
        /\ Emit([type |-> "ApprovalRequested", id |-> a])
  BY DEF RequestApproval
<1>2. PICK e : e = [type |-> "ApprovalRequested", id |-> a]
  OBVIOUS
<1>3. e.type = "ApprovalRequested" /\ e.id = a
  BY <1>2
<1>4. Emit(e)
  BY <1>1, <1>2
<1>5. PICK l : /\ Stepped(server, thread, shown, seq, e, l, server', thread', shown')
               /\ seq' = seq + 1
  BY <1>4, EmitIs
<1>6. Good(server, thread, shown, seq)
  BY DEF IInv
<1>7. Good(server', thread', shown', seq + 1)
  BY <1>1, <1>3, <1>5, <1>6, AskGood
<1> QED BY <1>5, <1>7 DEF IInv

\* An approval is answered.
LEMMA ResolveStays == ASSUME NamesOK, IInv, ResolveApproval PROVE IInv'
<1>1. PICK a \in Approvals : Emit([type |-> "ApprovalResolved", id |-> a])
  BY DEF ResolveApproval
<1>2. PICK e : e = [type |-> "ApprovalResolved", id |-> a]
  OBVIOUS
<1>3. e.type = "ApprovalResolved" /\ e.id = a
  BY <1>2
<1>4. Emit(e)
  BY <1>1, <1>2
<1>5. PICK l : /\ Stepped(server, thread, shown, seq, e, l, server', thread', shown')
               /\ seq' = seq + 1
  BY <1>4, EmitIs
<1>6. Good(server, thread, shown, seq)
  BY DEF IInv
<1>7. Good(server', thread', shown', seq + 1)
  BY <1>3, <1>5, <1>6, AnswerGood
<1> QED BY <1>5, <1>7 DEF IInv

\* Threads that are the same are together.
LEMMA PairOfOne ==
  ASSUME NEW s, NEW r, NEW n, Pair(s, r, n)
  PROVE  Pair(s, s, n)
<1>1. SameStatus(s, s) /\ Together(s.activity, s.activity, s.active)
  BY DEF SameStatus, Together, AsLate, SameEnd, SameTools
<1> QED BY <1>1 DEF Pair

\* A new connection brings the server's thread.
LEMMA ReloadStays == ASSUME IInv, Reload PROVE IInv'
<1>1. Pair(server, thread, seq) /\ ThreadOK(server, seq)
  BY DEF IInv, Good, Pair
<1>2. Pair(server, server, seq) /\ ShownOK(Build(server), server)
  BY <1>1, PairOfOne, RebuildShown
<1> QED BY <1>2 DEF Reload, IInv, Good

\* Every step.
LEMMA StepStays == ASSUME NamesOK, IInv, [Next]_vars PROVE IInv'
<1>1. /\ server \in Threads /\ server.active \in Turns \cup {None}
      /\ started = TurnsIn(server.turns) /\ started \subseteq Turns
      /\ server.active # None => server.active \in started
      /\ server.phase = "preparing" => server.phaseTurn \notin started
      /\ Turns \subseteq TurnIds /\ Replays \subseteq TurnIds /\ None \notin TurnIds
  BY Facts
<1>2. {"preparing", "idle", "blocked", "stopping", "checkpointing"} \subseteq Phases
  BY DEF Phases
<1>3. ASSUME Prepare PROVE IInv'
  BY <1>1, <1>2, <1>3, PhaseStays DEF Prepare
<1>4. ASSUME CaptureBefore PROVE IInv'
  BY <1>1, <1>4, SnapshotStays DEF CaptureBefore, Capture
<1>5. ASSUME GiveUp PROVE IInv'
  BY <1>1, <1>2, <1>5, PhaseStays DEF GiveUp, Preparing
<1>6. ASSUME Stopping \/ Checkpointing PROVE IInv'
  <2>1. PICK ph \in {"stopping", "checkpointing"} : server.active # None /\ Phase(ph, server.active)
    BY <1>6 DEF Stopping, Checkpointing
  <2> QED BY <1>1, <1>2, <2>1, PhaseStays
<1>7. ASSUME CaptureAfter PROVE IInv'
  BY <1>1, <1>7, SnapshotStays DEF CaptureAfter, Capture
<1>8. ASSUME CancelFailed PROVE IInv'
  BY <1>1, <1>2, <1>8, PhaseStays DEF CancelFailed
<1>9. ASSUME Revert PROVE IInv'
  BY <1>1, <1>9, SnapshotStays DEF Revert
<1>10. ASSUME RevertPart PROVE IInv'
  BY <1>1, <1>10, SnapshotStays DEF RevertPart
<1>11. ASSUME UNCHANGED vars PROVE IInv'
  BY <1>11 DEF vars, IInv
<1> QED BY <1>3, <1>4, <1>5, <1>6, <1>7, <1>8, <1>9, <1>10, <1>11, StartStays, EndStays, DeltaStays,
           UserStays, ToolStays, RequestStays, ResolveStays, ReloadStays DEF Next

\* The first state.
LEMMA InitStays == ASSUME NamesOK, Init PROVE IInv
<1>1. PICK th : th = NewThread
  OBVIOUS
<1>2. /\ th.active = None /\ th.phase = "idle" /\ th.phaseTurn = None
      /\ th.turns = <<>> /\ th.messages = <<>> /\ th.activity = <<>> /\ th.tools = <<>>
      /\ th.approvals = <<>> /\ th.checkpoints = <<>> /\ th.parts = {} /\ th \in Threads
  BY <1>1 DEF NewThread, Threads, Phases
<1>3. ToSet(<<>>) = {} /\ TurnsIn(<<>>) = {}
  BY DEF ToSet, TurnsIn
<1>4. ThreadOK(th, 0)
  BY <1>2, <1>3 DEF ThreadOK, UniqueIds, ApprovalsOK, ActivityOK, HasTools, TextsOK
<1>5. Pair(th, th, 0)
  <2>1. Ordered(th) /\ KnownTurns(th, th.activity)
    BY <1>2, <1>3 DEF Ordered, KnownTurns
  <2>2. SameStatus(th, th) /\ Together(th.activity, th.activity, th.active)
    BY DEF SameStatus, Together, AsLate, SameEnd, SameTools
  <2> QED BY <1>4, <2>1, <2>2 DEF Pair
<1>6. ShownOK(Build(th), th)
  BY <1>4, RebuildShown
<1> QED BY <1>1, <1>5, <1>6 DEF Init, IInv, Good

\* The invariant holds.
LEMMA Invariant == ASSUME NamesOK PROVE Spec => []IInv
<1>1. Init => IInv
  BY InitStays
<1>2. IInv /\ [Next]_vars => IInv'
  BY StepStays
<1> QED BY <1>1, <1>2, PTL DEF Spec

-----------------------------------------------------------------------------
(* What follows                                                             *)

\* Two views that differ at most in the order of their tools.
Twins(v, w) ==
  /\ v.turn = w.turn /\ v.record = w.record /\ v.messages = w.messages
  /\ v.activity = w.activity /\ v.approvals = w.approvals
  /\ v.checkpoint = w.checkpoint /\ v.canRevert = w.canRevert
  /\ v.running = w.running /\ v.phase = w.phase
  /\ ToSet(v.tools) = ToSet(w.tools) /\ UniqueIds(v.tools) /\ UniqueIds(w.tools)

\* The views of a turn differ in no more.
LEMMA ShowsSame ==
  ASSUME NEW v \in ViewRecs, NEW w \in ViewRecs, NEW th, v.turn = w.turn,
         Shows(v, th), Shows(w, th)
  PROVE  Twins(v, w)
<1>1. PICK t : t = v.turn /\ t = w.turn
  OBVIOUS
<1>2. /\ v.record = w.record /\ v.messages = w.messages /\ v.activity = w.activity
      /\ v.approvals = w.approvals /\ v.phase = w.phase
      /\ ToSet(v.tools) = ToSet(w.tools) /\ UniqueIds(v.tools) /\ UniqueIds(w.tools)
  BY <1>1 DEF Shows
<1>3. /\ v.checkpoint \in BOOLEAN /\ v.canRevert \in BOOLEAN /\ v.running \in BOOLEAN
      /\ w.checkpoint \in BOOLEAN /\ w.canRevert \in BOOLEAN /\ w.running \in BOOLEAN
  BY DEF ViewRecs
<1>4. v.checkpoint = w.checkpoint
  <2>1. /\ v.checkpoint <=> t \in Reached(th, "after")
        /\ w.checkpoint <=> t \in Reached(th, "after")
    BY <1>1 DEF Shows
  <2> QED BY <1>3, <2>1
<1>5. v.canRevert = w.canRevert
  <2>1. (v.canRevert <=> CanRevert(th, t)) /\ (w.canRevert <=> CanRevert(th, t))
    BY <1>1 DEF Shows
  <2> QED BY <1>3, <2>1
<1>6. v.running = w.running
  <2>1. (v.running <=> th.active = t) /\ (w.running <=> th.active = t)
    BY <1>1 DEF Shows
  <2> QED BY <1>3, <2>1
<1> QED BY <1>2, <1>4, <1>5, <1>6 DEF Twins

\* With one tool there is no order.
LEMMA OneTool ==
  ASSUME \A a, b \in Tools : a = b, NEW s \in Seq(ToolRecs), NEW u \in Seq(ToolRecs),
         UniqueIds(s), UniqueIds(u), ToSet(s) = ToSet(u)
  PROVE  s = u
<1>1. ASSUME NEW q \in Seq(ToolRecs), UniqueIds(q) PROVE Len(q) <= 1
  <2>1. SUFFICES ASSUME Len(q) > 1 PROVE FALSE
    OBVIOUS
  <2>2. 1 \in DOMAIN q /\ 2 \in DOMAIN q /\ q[1] \in ToolRecs /\ q[2] \in ToolRecs
    BY <2>1
  <2>3. q[1].id = q[2].id
    BY <2>2 DEF ToolRecs
  <2> QED BY <1>1, <2>2, <2>3 DEF UniqueIds
<1>2. Len(s) <= 1 /\ Len(u) <= 1
  BY <1>1
<1>3. CASE Len(s) = 0
  <2>1. ToSet(u) = {}
    BY <1>3 DEF ToSet
  <2>2. Len(u) = 0
    BY <1>2, <2>1 DEF ToSet
  <2> QED BY <1>3, <2>2
<1>4. CASE Len(s) = 1
  <2>1. s[1] \in ToSet(u)
    BY <1>4 DEF ToSet
  <2>2. PICK i \in DOMAIN u : u[i] = s[1]
    BY <2>1 DEF ToSet
  <2>3. i = 1 /\ Len(u) = 1
    BY <1>2, <2>2
  <2> QED BY <1>4, <2>2, <2>3
<1>5. Len(s) \in Nat
  OBVIOUS
<1> QED BY <1>2, <1>3, <1>4, <1>5

\* What is shown of a turn is, but for the order of its tools, what a rebuild shows.
ShownButForOrder ==
  /\ \A v \in ToSet(shown.views) : \E w \in ToSet(Build(thread).views) : Twins(v, w)
  /\ \A w \in ToSet(Build(thread).views) : \E v \in ToSet(shown.views) : Twins(v, w)

\* Which the invariant says.
LEMMA ShownAre ==
  ASSUME IInv
  PROVE  /\ ShownButForOrder
         /\ ToSet(shown.views) \subseteq ViewRecs /\ ToSet(Build(thread).views) \subseteq ViewRecs
<1>1. /\ thread \in Threads /\ UniqueIds(thread.tools)
      /\ ShownFor(shown, thread, AllTurns(thread))
  BY DEF IInv, Good, Pair, ThreadOK, ShownOK
<1>2. ShownFor(Build(thread), thread, AllTurns(thread))
  BY <1>1, BuildIs
<1>3. ASSUME NEW p, ShownFor(p, thread, AllTurns(thread))
      PROVE  /\ ToSet(p.views) \subseteq ViewRecs
             /\ \A v \in ToSet(p.views) : v.turn \in AllTurns(thread) /\ Shows(v, thread)
             /\ \A t \in AllTurns(thread) : \E v \in ToSet(p.views) : v.turn = t
  <2>1. p.views \in Seq(ViewRecs)
    BY <1>3 DEF ShownFor, Projections
  <2>2. /\ \A i \in DOMAIN p.views : Shows(p.views[i], thread)
        /\ \A t : t \in AllTurns(thread) <=> \E i \in DOMAIN p.views : p.views[i].turn = t
    BY <1>3 DEF ShownFor
  <2> QED BY <2>1, <2>2 DEF ToSet
<1>4. /\ ToSet(shown.views) \subseteq ViewRecs
      /\ \A v \in ToSet(shown.views) : v.turn \in AllTurns(thread) /\ Shows(v, thread)
      /\ \A t \in AllTurns(thread) : \E v \in ToSet(shown.views) : v.turn = t
  BY <1>1, <1>3
<1>5. /\ ToSet(Build(thread).views) \subseteq ViewRecs
      /\ \A v \in ToSet(Build(thread).views) : v.turn \in AllTurns(thread) /\ Shows(v, thread)
      /\ \A t \in AllTurns(thread) : \E v \in ToSet(Build(thread).views) : v.turn = t
  BY <1>2, <1>3
<1>6. ASSUME NEW v \in ToSet(shown.views)
      PROVE  \E w \in ToSet(Build(thread).views) : Twins(v, w)
  <2>1. PICK w \in ToSet(Build(thread).views) : w.turn = v.turn
    BY <1>4, <1>5
  <2>2. v \in ViewRecs /\ w \in ViewRecs /\ Shows(v, thread) /\ Shows(w, thread) /\ v.turn = w.turn
    BY <1>4, <1>5, <2>1
  <2>3. Twins(v, w)
    BY <2>2, ShowsSame
  <2> QED BY <2>3
<1>7. ASSUME NEW w \in ToSet(Build(thread).views)
      PROVE  \E v \in ToSet(shown.views) : Twins(v, w)
  <2>1. PICK v \in ToSet(shown.views) : v.turn = w.turn
    BY <1>4, <1>5
  <2>2. v \in ViewRecs /\ w \in ViewRecs /\ Shows(v, thread) /\ Shows(w, thread) /\ v.turn = w.turn
    BY <1>4, <1>5, <2>1
  <2>3. Twins(v, w)
    BY <2>2, ShowsSame
  <2> QED BY <2>3
<1> QED BY <1>4, <1>5, <1>6, <1>7 DEF ShownButForOrder

\* Twins are one view when there is one tool.
LEMMA TwinsAreOne ==
  ASSUME \A a, b \in Tools : a = b, NEW v \in ViewRecs, NEW w \in ViewRecs, Twins(v, w)
  PROVE  v = w
<1>1. v.tools = w.tools
  <2>1. v.tools \in Seq(ToolRecs) /\ w.tools \in Seq(ToolRecs)
    BY DEF ViewRecs
  <2> QED BY <2>1, OneTool DEF Twins
<1>2. v = [turn |-> v.turn, record |-> v.record, messages |-> v.messages, activity |-> v.activity,
          tools |-> v.tools, approvals |-> v.approvals,
          checkpoint |-> v.checkpoint, canRevert |-> v.canRevert,
          running |-> v.running, phase |-> v.phase]
  BY Zenon DEF ViewRecs
<1>3. w = [turn |-> w.turn, record |-> w.record, messages |-> w.messages, activity |-> w.activity,
          tools |-> w.tools, approvals |-> w.approvals,
          checkpoint |-> w.checkpoint, canRevert |-> w.canRevert,
          running |-> w.running, phase |-> w.phase]
  BY Zenon DEF ViewRecs
<1> QED BY <1>1, <1>2, <1>3 DEF Twins

\* However events, undone turns and new connections follow each other, the turns
\* on the screen are those a rebuild from the renderer's thread shows, each the
\* same but for the order of its tools (applyTurnProjectionEvent puts a tool
\* behind the others of its turn when it first belongs to the turn).
THEOREM ShownIsRebuiltButForOrder ==
  ASSUME NamesOK
  PROVE  Spec => []ShownButForOrder
<1>1. IInv => ShownButForOrder
  BY ShownAre
<1> QED BY <1>1, Invariant, PTL

\* With one tool nothing differs: what applyTurnProjectionEvent maintained is what
\* buildTurnProjection makes.
THEOREM IncrementalIsRebuilt ==
  ASSUME NamesOK, \A a, b \in Tools : a = b
  PROVE  Spec => []ShownIsRebuilt
<1>1. ASSUME IInv PROVE ShownIsRebuilt
  <2>1. /\ \A v \in ToSet(shown.views) : \E w \in ToSet(Build(thread).views) : Twins(v, w)
        /\ \A w \in ToSet(Build(thread).views) : \E v \in ToSet(shown.views) : Twins(v, w)
        /\ ToSet(shown.views) \subseteq ViewRecs /\ ToSet(Build(thread).views) \subseteq ViewRecs
    BY <1>1, ShownAre DEF ShownButForOrder
  <2>2. \A v \in ToSet(shown.views), w \in ToSet(Build(thread).views) : Twins(v, w) => v = w
    BY <2>1, TwinsAreOne
  <2> QED BY <2>1, <2>2 DEF ShownIsRebuilt
<1> QED BY <1>1, Invariant, PTL

\* The renderer's thread is the server's but for the activity of ended turns:
\* mutateThread and #apply agree on all that the turn at work consists of.
THEOREM RendererAgrees ==
  ASSUME NamesOK
  PROVE  Spec => []SameThread
<1>1. ASSUME IInv PROVE SameThread
  <2>1. /\ server \in Threads /\ thread \in Threads /\ SameStatus(server, thread)
        /\ Of(thread.activity, server.active) = Of(server.activity, server.active)
    BY <1>1 DEF IInv, Good, Pair, ThreadOK, Together
  <2>2. PICK a \in Threads : a = server
    BY <2>1
  <2>3. PICK b \in Threads : b = thread
    BY <2>1
  <2>4. SameStatus(a, b)
    BY <2>1, <2>2, <2>3
  <2>5. [b EXCEPT !.activity = <<>>] = [a EXCEPT !.activity = <<>>]
    BY <2>4 DEF Threads, SameStatus
  <2> QED BY <2>1, <2>2, <2>3, <2>5 DEF SameThread
<1> QED BY <1>1, Invariant, PTL

\* Undo is offered for a turn only when the server has both snapshots of it and
\* neither it nor a part of it was undone, so that checkpoints.revert accepts it.
THEOREM OfferedUndoIsAccepted ==
  ASSUME NamesOK
  PROVE  Spec => []UndoIsAccepted
<1>1. ASSUME IInv PROVE UndoIsAccepted
  <2>1. SameStatus(server, thread) /\ ShownFor(shown, thread, AllTurns(thread))
    BY <1>1 DEF IInv, Good, Pair, ShownOK
  <2>2. SUFFICES ASSUME NEW v \in ToSet(shown.views), v.canRevert
                 PROVE  /\ {"before", "after"} \subseteq captured(v.turn)
                        /\ "reverted" \notin captured(v.turn) /\ v.turn \notin server.parts
    BY DEF UndoIsAccepted
  <2>3. PICK i \in DOMAIN shown.views : shown.views[i] = v
    BY DEF ToSet
  <2>4. CanRevert(thread, v.turn)
    BY <2>1, <2>2, <2>3 DEF ShownFor, Shows
  <2>5. /\ v.turn \in Reached(thread, "before") /\ v.turn \in Reached(thread, "after")
        /\ v.turn \notin Reached(thread, "reverted") /\ v.turn \notin thread.parts
    BY <2>4, CanRevertIs
  <2>6. \A ph : v.turn \in Reached(thread, ph) <=> ph \in captured(v.turn)
    BY <2>1 DEF SameStatus, Reached, captured
  <2> QED BY <2>1, <2>5, <2>6 DEF SameStatus
<1> QED BY <1>1, Invariant, PTL

=============================================================================
