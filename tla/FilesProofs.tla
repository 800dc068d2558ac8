----------------------------- MODULE FilesProofs -----------------------------
(***************************************************************************)
(* Files as values: the threads of events.md under merge, lint and cold    *)
(* start, and the lines of .env under the saves of the settings.  Both are *)
(* computed by folds (Folding), and both leave lines out and keep the      *)
(* order of the others (Subsequences).                                     *)
(***************************************************************************)
EXTENDS EventIndex, Settings, FiniteSetTheorems,
        WellFoundedInduction, TLAPS

KeepFold == INSTANCE Folding WITH Op <- KeepStep
UpsertFold == INSTANCE Folding WITH Op <- Upsert

-----------------------------------------------------------------------------
(* Prefixes *)

Prefix(s, i) == [j \in 1..i |-> s[j]]

(* u has one element more than s. *)
OneMore(s, u) == Len(u) = Len(s) + 1 /\ \A j \in 1..Len(s) : u[j] = s[j]

LEMMA PrefixOf ==
  ASSUME NEW T, NEW s \in Seq(T)
  PROVE  /\ \A i \in 0..Len(s) : Prefix(s, i) \in Seq(T) /\ Len(Prefix(s, i)) = i
         /\ Prefix(s, 0) = <<>> /\ Prefix(s, Len(s)) = s
         /\ \A i \in 0..(Len(s) - 1) : /\ OneMore(Prefix(s, i), Prefix(s, i + 1))
                                      /\ Prefix(s, i + 1)[i + 1] = s[i + 1]
<1>1. ASSUME NEW i \in 0..Len(s)
      PROVE  Prefix(s, i) \in Seq(T) /\ Len(Prefix(s, i)) = i
  <2>1. \A j \in 1..i : s[j] \in T
    OBVIOUS
  <2>2. i \in Nat /\ Prefix(s, i) \in [1..i -> T]
    BY <2>1 DEF Prefix
  <2> HIDE DEF Prefix
  <2> QED
    BY <2>2
<1>2. Prefix(s, 0) = <<>> /\ Prefix(s, Len(s)) = s
  BY DEF Prefix
<1>3. ASSUME NEW i \in 0..(Len(s) - 1)
      PROVE  /\ OneMore(Prefix(s, i), Prefix(s, i + 1))
             /\ Prefix(s, i + 1)[i + 1] = s[i + 1]
  <2>1. Len(Prefix(s, i)) = i /\ Len(Prefix(s, i + 1)) = i + 1
    BY <1>1
  <2>2. \A j \in 1..(i + 1) : Prefix(s, i + 1)[j] = s[j]
    BY DEF Prefix
  <2>3. \A j \in 1..i : Prefix(s, i)[j] = s[j]
    BY DEF Prefix
  <2> HIDE DEF Prefix
  <2> QED
    BY <2>1, <2>2, <2>3 DEF OneMore
<1> QED
  BY <1>1, <1>2, <1>3

-----------------------------------------------------------------------------
(* Subsequences *)

LEMMA SubsequenceIsFold ==
  ASSUME NEW s, NEW I
  PROVE  Subsequence(s, I) = KeepFold!Folded(<<>>, [i \in DOMAIN s |-> <<s[i], i \in I>>])
  BY DEF Subsequence, KeepFold!Folded, FoldLeft, MapThenFoldSet, Max,
         KeepFold!FoldLeft, KeepFold!MapThenFoldSet, KeepFold!Max

LEMMA SubsequenceOfNothing ==
  ASSUME NEW I
  PROVE  Subsequence(<<>>, I) = <<>>
<1> DEFINE t == [i \in DOMAIN <<>> |-> <<<<>>[i], i \in I>>]
<1>1. DOMAIN t = {}
  OBVIOUS
<1> HIDE DEF t
<1>2. KeepFold!Folded(<<>>, t) = <<>>
  BY <1>1, KeepFold!FoldOfNothing
<1> QED
  BY <1>2, SubsequenceIsFold DEF t

(* With one element more, whatever the positions after it. *)
LEMMA SubsequenceGrows ==
  ASSUME NEW T, NEW s \in Seq(T), NEW u \in Seq(T), NEW I, NEW J,
         OneMore(s, u), \A i \in 1..Len(s) : i \in I <=> i \in J
  PROVE  Subsequence(u, J) =
            IF Len(u) \in J THEN Append(Subsequence(s, I), u[Len(u)]) ELSE Subsequence(s, I)
<1> DEFINE t == [i \in DOMAIN s |-> <<s[i], i \in I>>]
           v == [i \in DOMAIN u |-> <<u[i], i \in J>>]
           n == Len(s)
<1>1. n \in Nat /\ DOMAIN t = 1..n /\ DOMAIN v = 1..(n + 1)
  BY DEF OneMore
<1>2. ASSUME NEW i \in 1..n
      PROVE  v[i] = t[i]
  <2>1. v[i] = <<u[i], i \in J>> /\ t[i] = <<s[i], i \in I>> /\ u[i] = s[i]
    BY DEF OneMore
  <2>2. (i \in J) = (i \in I)
    OBVIOUS
  <2> QED
    BY <2>1, <2>2
<1>3. v[n + 1] = <<u[n + 1], n + 1 \in J>>
  BY DEF OneMore
<1>4. Subsequence(s, I) = KeepFold!Folded(<<>>, t) /\ Subsequence(u, J) = KeepFold!Folded(<<>>, v)
  BY SubsequenceIsFold
<1>5. n + 1 = Len(u)
  BY DEF OneMore
<1> HIDE DEF t, v, n
<1>6. KeepFold!Folded(<<>>, v) = KeepStep(KeepFold!Folded(<<>>, t), v[n + 1])
  BY <1>1, <1>2, KeepFold!FoldOneMore
<1>7. v[n + 1][1] = u[n + 1] /\ v[n + 1][2] = (n + 1 \in J)
  BY <1>3
<1> QED
  BY <1>4, <1>5, <1>6, <1>7 DEF KeepStep

(* The elements at the positions, each once. *)
Picks(p, m, S) ==
  /\ p \in [1..m -> S]
  /\ \A i, j \in 1..m : p[i] = p[j] => i = j
  /\ \A x \in S : \E i \in 1..m : p[i] = x

Picked(s, p, m) == [j \in 1..m |-> s[p[j]]]

LEMMA SubsequencePicks ==
  ASSUME NEW T, NEW s \in Seq(T), NEW I
  PROVE  \E m \in Nat : \E p : Picks(p, m, I \cap (1..Len(s))) /\ Subsequence(s, I) = Picked(s, p, m)
<1> DEFINE n == Len(s)
           Good(i) == \E m \in Nat : \E p : /\ Picks(p, m, I \cap (1..i))
                                            /\ Subsequence(Prefix(s, i), I) = [j \in 1..m |-> s[p[j]]]
           N == {i \in 0..n : Good(i)}
<1>p. /\ \A i \in 0..n : Prefix(s, i) \in Seq(T) /\ Len(Prefix(s, i)) = i
      /\ Prefix(s, 0) = <<>> /\ Prefix(s, n) = s
      /\ \A i \in 0..(n - 1) : /\ OneMore(Prefix(s, i), Prefix(s, i + 1))
                              /\ Prefix(s, i + 1)[i + 1] = s[i + 1]
  BY PrefixOf
<1> HIDE DEF Prefix
<1>1. 0 \in N
  <2>1. Picks(<<>>, 0, I \cap (1..0))
    BY DEF Picks
  <2>2. Prefix(s, 0) = <<>>
    BY <1>p
  <2>3. Subsequence(Prefix(s, 0), I) = [j \in 1..0 |-> s[<<>>[j]]]
    BY <2>2, SubsequenceOfNothing
  <2>4. Good(0)
    BY <2>1, <2>3, 0 \in Nat
  <2> QED
    BY <2>4
<1>2. ASSUME NEW i \in 0..(n - 1), i \in N
      PROVE  i + 1 \in N
  <2> DEFINE a == Subsequence(Prefix(s, i), I)
             b == Subsequence(Prefix(s, i + 1), I)
  <2>1. PICK m \in Nat : \E p : /\ Picks(p, m, I \cap (1..i))
                                /\ a = [j \in 1..m |-> s[p[j]]]
    BY <1>2
  <2>2. PICK p : Picks(p, m, I \cap (1..i)) /\ a = [j \in 1..m |-> s[p[j]]]
    BY <2>1
  <2>3. \A j \in 1..m : p[j] \in I /\ p[j] \in 1..i
    BY <2>2 DEF Picks
  <2>4. a \in Seq(T) /\ Len(a) = m
    <3>1. \A j \in 1..m : s[p[j]] \in T
      BY <2>3
    <3> QED
      BY <2>2, <3>1
  <2>5. b = IF i + 1 \in I THEN Append(a, s[i + 1]) ELSE a
    <3> DEFINE u == Prefix(s, i)
               w == Prefix(s, i + 1)
    <3>4. /\ u \in Seq(T) /\ w \in Seq(T) /\ OneMore(u, w) /\ Len(w) = i + 1
          /\ w[i + 1] = s[i + 1] /\ \A j \in 1..Len(u) : j \in I <=> j \in I
      BY <1>p
    <3> HIDE DEF u, w
    <3>5. Subsequence(w, I) =
            IF Len(w) \in I THEN Append(Subsequence(u, I), w[Len(w)]) ELSE Subsequence(u, I)
      BY <3>4, SubsequenceGrows
    <3> QED
      BY <3>4, <3>5 DEF u, w
  <2> HIDE DEF a, b
  <2>6. Good(i + 1)
    <3>1. CASE i + 1 \in I
      <4> DEFINE q == [j \in 1..(m + 1) |-> IF j = m + 1 THEN i + 1 ELSE p[j]]
      <4>1. Picks(q, m + 1, I \cap (1..(i + 1)))
        <5>1. q \in [1..(m + 1) -> I \cap (1..(i + 1))]
          BY <2>3, <3>1
        <5>2. \A j, k \in 1..(m + 1) : q[j] = q[k] => j = k
          BY <2>2, <2>3 DEF Picks
        <5>3. \A x \in I \cap (1..(i + 1)) : \E j \in 1..(m + 1) : q[j] = x
          <6> SUFFICES ASSUME NEW x \in I \cap (1..(i + 1))
                       PROVE  \E j \in 1..(m + 1) : q[j] = x
            OBVIOUS
          <6>1. CASE x = i + 1
            <7>1. m + 1 \in 1..(m + 1) /\ q[m + 1] = x
              BY <6>1
            <7> QED
              BY <7>1
          <6>2. CASE x # i + 1
            <7>1. x \in I \cap (1..i)
              BY <6>2
            <7>2. PICK j \in 1..m : p[j] = x
              BY <2>2, <7>1 DEF Picks
            <7>3. j \in 1..(m + 1) /\ q[j] = x
              BY <7>2
            <7> QED
              BY <7>3
          <6> QED
            BY <6>1, <6>2
        <5> QED
          BY <5>1, <5>2, <5>3 DEF Picks
      <4>2. b = [j \in 1..(m + 1) |-> s[q[j]]]
        <5>1. b = Append(a, s[i + 1])
          BY <2>5, <3>1
        <5>2. Append(a, s[i + 1]) = [j \in 1..(m + 1) |-> IF j = m + 1 THEN s[i + 1] ELSE a[j]]
          BY <2>4
        <5>3. \A j \in 1..(m + 1) : (IF j = m + 1 THEN s[i + 1] ELSE a[j]) = s[q[j]]
          BY <2>2
        <5> HIDE DEF q
        <5> QED
          BY <5>1, <5>2, <5>3
      <4>3. m + 1 \in Nat
        OBVIOUS
      <4> HIDE DEF q
      <4> QED
        BY <4>1, <4>2, <4>3 DEF b
    <3>2. CASE i + 1 \notin I
      <4>1. I \cap (1..(i + 1)) = I \cap (1..i)
        BY <3>2
      <4>2. b = [j \in 1..m |-> s[p[j]]]
        BY <2>2, <2>5, <3>2
      <4> QED
        BY <2>2, <4>1, <4>2 DEF b
    <3> QED
      BY <3>1, <3>2
  <2> HIDE DEF Good
  <2> QED
    BY <2>6
<1> HIDE DEF N
<1>3. 0..n \subseteq N
  <2>1. n \in Nat
    OBVIOUS
  <2> HIDE DEF n
  <2> QED
    BY <1>1, <1>2, <2>1, KeepFold!UpTo
<1>4. Good(n)
  <2>1. n \in 0..n
    OBVIOUS
  <2> HIDE DEF n, Good
  <2> QED
    BY <1>3, <2>1 DEF N
<1> QED
  BY <1>4, <1>p DEF Picked

LEMMA SubsequenceElements ==
  ASSUME NEW T, NEW s \in Seq(T), NEW I
  PROVE  /\ Subsequence(s, I) \in Seq(T)
         /\ \A j \in 1..Len(Subsequence(s, I)) : \E i \in I \cap (1..Len(s)) :
                Subsequence(s, I)[j] = s[i]
         /\ \A i \in I \cap (1..Len(s)) : \E j \in 1..Len(Subsequence(s, I)) :
                Subsequence(s, I)[j] = s[i]
<1>1. PICK m \in Nat : \E p : Picks(p, m, I \cap (1..Len(s))) /\ Subsequence(s, I) = Picked(s, p, m)
  BY SubsequencePicks
<1>2. PICK p : Picks(p, m, I \cap (1..Len(s))) /\ Subsequence(s, I) = Picked(s, p, m)
  BY <1>1
<1>3. \A j \in 1..m : p[j] \in I \cap (1..Len(s)) /\ s[p[j]] \in T
  BY <1>2 DEF Picks
<1>4. Subsequence(s, I) \in Seq(T) /\ Len(Subsequence(s, I)) = m
  BY <1>2, <1>3 DEF Picked
<1> QED
  BY <1>2, <1>3, <1>4 DEF Picks, Picked

-----------------------------------------------------------------------------
(* .env *)

LEMMA MaxIsLast ==
  ASSUME NEW n \in Nat, NEW S \in SUBSET (1..n), S # {}
  PROVE  Max(S) \in S /\ \A i \in S : i <= Max(S)
  BY KeepFold!MaxOfIndices DEF Max, KeepFold!Max

LEMMA MinIsFirst ==
  ASSUME NEW n \in Nat, NEW S \in SUBSET (1..n), S # {}
  PROVE  Min(S) \in S /\ \A i \in S : Min(S) <= i
<1>1. S \subseteq Nat
  OBVIOUS
<1>2. PICK d \in S : \A e \in S : ~(<<e, d>> \in OpToRel(<, Nat))
  BY <1>1, WFMin, NatLessThanWellFounded
<1>3. \A e \in S : ~(e < d)
  BY <1>1, <1>2 DEF OpToRel
<1>4. \A e \in S : d <= e
  BY <1>1, <1>3
<1> QED
  BY <1>4 DEF Min

EnvFile == Seq(EnvLine)

LEMMA OnlyKeysGrows ==
  ASSUME NEW s \in EnvFile, NEW u \in EnvFile, NEW K, OneMore(s, u)
  PROVE  OnlyKeys(u, K) = IF u[Len(u)].key \in K THEN Append(OnlyKeys(s, K), u[Len(u)])
                          ELSE OnlyKeys(s, K)
<1> DEFINE I == {i \in DOMAIN s : s[i].key \in K}
           J == {i \in DOMAIN u : u[i].key \in K}
<1>1. Len(u) \in J <=> u[Len(u)].key \in K
  BY DEF OneMore, EnvFile
<1>2. \A i \in 1..Len(s) : i \in I <=> i \in J
  BY DEF OneMore, EnvFile
<1>3. OnlyKeys(u, K) = Subsequence(u, J) /\ OnlyKeys(s, K) = Subsequence(s, I)
  BY DEF OnlyKeys
<1> HIDE DEF I, J
<1>4. Subsequence(u, J) = IF Len(u) \in J THEN Append(Subsequence(s, I), u[Len(u)])
                          ELSE Subsequence(s, I)
  BY <1>2, SubsequenceGrows DEF EnvFile
<1> QED
  BY <1>1, <1>3, <1>4

LEMMA OnlyKeysOf ==
  ASSUME NEW s \in EnvFile, NEW K
  PROVE  /\ OnlyKeys(s, K) \in EnvFile
         /\ KeysIn(OnlyKeys(s, K)) = KeysIn(s) \cap K
         /\ OnlyKeys(<<>>, K) = <<>>
<1> DEFINE I == {i \in DOMAIN s : s[i].key \in K}
           q == Subsequence(s, I)
<1>1. OnlyKeys(s, K) = q
  BY DEF OnlyKeys
<1>2. /\ q \in Seq(EnvLine)
      /\ \A j \in 1..Len(q) : \E i \in I \cap (1..Len(s)) : q[j] = s[i]
      /\ \A i \in I \cap (1..Len(s)) : \E j \in 1..Len(q) : q[j] = s[i]
  <2> HIDE DEF I
  <2> QED
    BY SubsequenceElements DEF EnvFile
<1> HIDE DEF q
<1>3. ASSUME NEW j \in DOMAIN q
      PROVE  q[j].key \in KeysIn(s) \cap K
  <2>1. PICK i \in I \cap (1..Len(s)) : q[j] = s[i]
    BY <1>2
  <2> QED
    BY <2>1 DEF KeysIn, EnvFile
<1>4. ASSUME NEW k \in KeysIn(s) \cap K
      PROVE  \E j \in DOMAIN q : q[j].key = k
  <2>1. PICK i \in DOMAIN s : s[i].key = k
    BY DEF KeysIn
  <2>2. i \in I \cap (1..Len(s))
    BY <2>1 DEF EnvFile
  <2> HIDE DEF I
  <2>3. PICK j \in 1..Len(q) : q[j] = s[i]
    BY <1>2, <2>2
  <2>4. j \in DOMAIN q /\ q[j].key = k
    BY <1>2, <2>1, <2>3
  <2> QED
    BY <2>4
<1>5. KeysIn(q) = KeysIn(s) \cap K
  BY <1>3, <1>4 DEF KeysIn
<1>6. OnlyKeys(<<>>, K) = <<>>
  BY SubsequenceOfNothing DEF OnlyKeys
<1> QED
  BY <1>1, <1>2, <1>5, <1>6 DEF EnvFile

(* The value of a key, line by line. *)
LEMMA ValueInGrows ==
  ASSUME NEW s \in EnvFile, NEW u \in EnvFile, NEW k, OneMore(s, u)
  PROVE  ValueIn(u, k) = IF u[Len(u)].key = k THEN u[Len(u)].value ELSE ValueIn(s, k)
<1>1. Len(u) \in DOMAIN u /\ \A i \in DOMAIN u : i <= Len(u)
  BY DEF OneMore, EnvFile
<1>2. LinesOf(u, k) \subseteq 1..Len(u) /\ Len(u) \in Nat /\ LinesOf(s, k) \subseteq 1..Len(s)
  BY DEF LinesOf, EnvFile
<1>3. CASE u[Len(u)].key = k
  <2>1. Len(u) \in LinesOf(u, k)
    BY <1>1, <1>3 DEF LinesOf
  <2>2. Max(LinesOf(u, k)) \in LinesOf(u, k) /\ \A i \in LinesOf(u, k) : i <= Max(LinesOf(u, k))
    BY <1>2, <2>1, MaxIsLast
  <2>3. Max(LinesOf(u, k)) \in 1..Len(u) /\ Len(u) <= Max(LinesOf(u, k))
    BY <1>2, <2>1, <2>2
  <2>4. Max(LinesOf(u, k)) = Len(u)
    BY <1>2, <2>3
  <2> QED
    BY <1>3, <2>1, <2>4 DEF ValueIn
<1>4. CASE u[Len(u)].key # k
  <2>1. LinesOf(u, k) = LinesOf(s, k)
    BY <1>4 DEF LinesOf, OneMore, EnvFile
  <2>2. CASE LinesOf(s, k) = {}
    BY <1>4, <2>1, <2>2 DEF ValueIn
  <2>3. CASE LinesOf(s, k) # {}
    <3>1. Max(LinesOf(s, k)) \in 1..Len(s)
      BY <1>2, <2>3, MaxIsLast DEF EnvFile
    <3>2. u[Max(LinesOf(s, k))] = s[Max(LinesOf(s, k))]
      BY <3>1 DEF OneMore
    <3> QED
      BY <1>4, <2>1, <2>3, <3>2 DEF ValueIn
  <2> QED
    BY <2>2, <2>3
<1> QED
  BY <1>3, <1>4

(* The keys that are kept keep their values. *)
LEMMA OnlyKeysValue ==
  ASSUME NEW s \in EnvFile, NEW K, NEW k \in K
  PROVE  ValueIn(OnlyKeys(s, K), k) = ValueIn(s, k)
<1> DEFINE n == Len(s)
           N == {i \in 0..n : ValueIn(OnlyKeys(Prefix(s, i), K), k) = ValueIn(Prefix(s, i), k)}
<1>p. /\ \A i \in 0..n : Prefix(s, i) \in EnvFile /\ Len(Prefix(s, i)) = i
      /\ Prefix(s, 0) = <<>> /\ Prefix(s, n) = s
      /\ \A i \in 0..(n - 1) : /\ OneMore(Prefix(s, i), Prefix(s, i + 1))
                              /\ Prefix(s, i + 1)[i + 1] = s[i + 1]
  BY PrefixOf DEF EnvFile
<1> HIDE DEF Prefix
<1>1. 0 \in N
  <2>1. OnlyKeys(<<>>, K) = <<>>
    BY OnlyKeysOf
  <2>2. n \in Nat
    BY DEF EnvFile
  <2> QED
    BY <1>p, <2>1, <2>2
<1>2. ASSUME NEW i \in 0..(n - 1), i \in N
      PROVE  i + 1 \in N
  <2> DEFINE u == Prefix(s, i)
             w == Prefix(s, i + 1)
             a == OnlyKeys(u, K)
             b == OnlyKeys(w, K)
  <2>1. u \in EnvFile /\ w \in EnvFile /\ OneMore(u, w) /\ i + 1 \in 0..n
    BY <1>p DEF EnvFile
  <2>2. a \in EnvFile /\ b \in EnvFile
    BY <2>1, OnlyKeysOf
  <2>3. ValueIn(a, k) = ValueIn(u, k)
    BY <1>2
  <2> HIDE DEF u, w
  <2>4. b = IF w[Len(w)].key \in K THEN Append(a, w[Len(w)]) ELSE a
    BY <2>1, OnlyKeysGrows
  <2>5. ValueIn(w, k) = IF w[Len(w)].key = k THEN w[Len(w)].value ELSE ValueIn(u, k)
    BY <2>1, ValueInGrows
  <2> HIDE DEF a, b
  <2>6. ValueIn(b, k) = ValueIn(w, k)
    <3>1. CASE w[Len(w)].key \in K
      <4>1. OneMore(a, b) /\ b[Len(b)] = w[Len(w)]
        BY <2>2, <2>4, <3>1 DEF OneMore, EnvFile
      <4>2. ValueIn(b, k) = IF b[Len(b)].key = k THEN b[Len(b)].value ELSE ValueIn(a, k)
        BY <2>2, <4>1, ValueInGrows
      <4> QED
        BY <2>3, <2>5, <4>1, <4>2
    <3>2. CASE w[Len(w)].key \notin K
      BY <2>3, <2>4, <2>5, <3>2
    <3> QED
      BY <3>1, <3>2
  <2> QED
    BY <2>1, <2>6 DEF b, w
<1>3. n \in Nat
  BY DEF EnvFile
<1> HIDE DEF N, n
<1>4. 0..n \subseteq N
  BY <1>1, <1>2, <1>3, KeepFold!UpTo
<1>5. n \in N
  BY <1>3, <1>4
<1> QED
  BY <1>5, <1>p DEF N

(* Deleting twice is deleting once. *)
LEMMA OnlyKeysTwice ==
  ASSUME NEW s \in EnvFile, NEW A, NEW B
  PROVE  OnlyKeys(OnlyKeys(s, A), B) = OnlyKeys(s, A \cap B)
<1> DEFINE n == Len(s)
           N == {i \in 0..n : OnlyKeys(OnlyKeys(Prefix(s, i), A), B) = OnlyKeys(Prefix(s, i), A \cap B)}
<1>p. /\ \A i \in 0..n : Prefix(s, i) \in EnvFile /\ Len(Prefix(s, i)) = i
      /\ Prefix(s, 0) = <<>> /\ Prefix(s, n) = s
      /\ \A i \in 0..(n - 1) : /\ OneMore(Prefix(s, i), Prefix(s, i + 1))
                              /\ Prefix(s, i + 1)[i + 1] = s[i + 1]
  BY PrefixOf DEF EnvFile
<1> HIDE DEF Prefix
<1>1. 0 \in N
  <2>1. \A K : OnlyKeys(<<>>, K) = <<>>
    BY OnlyKeysOf
  <2>2. n \in Nat
    BY DEF EnvFile
  <2> QED
    BY <1>p, <2>1, <2>2
<1>2. ASSUME NEW i \in 0..(n - 1), i \in N
      PROVE  i + 1 \in N
  <2> DEFINE u == Prefix(s, i)
             w == Prefix(s, i + 1)
             a == OnlyKeys(u, A)
             b == OnlyKeys(w, A)
  <2>1. u \in EnvFile /\ w \in EnvFile /\ OneMore(u, w) /\ i + 1 \in 0..n
    BY <1>p DEF EnvFile
  <2>2. a \in EnvFile /\ b \in EnvFile
    BY <2>1, OnlyKeysOf
  <2>3. OnlyKeys(a, B) = OnlyKeys(u, A \cap B)
    BY <1>2
  <2> HIDE DEF u, w
  <2>4. b = IF w[Len(w)].key \in A THEN Append(a, w[Len(w)]) ELSE a
    BY <2>1, OnlyKeysGrows
  <2>5. OnlyKeys(w, A \cap B) = IF w[Len(w)].key \in A \cap B
                                THEN Append(OnlyKeys(u, A \cap B), w[Len(w)])
                                ELSE OnlyKeys(u, A \cap B)
    BY <2>1, OnlyKeysGrows
  <2> HIDE DEF a, b
  <2>6. OnlyKeys(b, B) = OnlyKeys(w, A \cap B)
    <3>1. CASE w[Len(w)].key \in A
      <4>1. OneMore(a, b) /\ b[Len(b)] = w[Len(w)]
        BY <2>2, <2>4, <3>1 DEF OneMore, EnvFile
      <4>2. OnlyKeys(b, B) = IF b[Len(b)].key \in B THEN Append(OnlyKeys(a, B), b[Len(b)])
                             ELSE OnlyKeys(a, B)
        BY <2>2, <4>1, OnlyKeysGrows
      <4> QED
        BY <2>3, <2>5, <3>1, <4>1, <4>2
    <3>2. CASE w[Len(w)].key \notin A
      BY <2>3, <2>4, <2>5, <3>2
    <3> QED
      BY <3>1, <3>2
  <2> QED
    BY <2>1, <2>6 DEF b, w
<1>3. n \in Nat
  BY DEF EnvFile
<1> HIDE DEF N, n
<1>4. 0..n \subseteq N
  BY <1>1, <1>2, <1>3, KeepFold!UpTo
<1>5. n \in N
  BY <1>3, <1>4
<1> QED
  BY <1>5, <1>p DEF N

One(ls) == \A a, b \in 1..Len(ls) :
              ls[a].key = ls[b].key /\ ls[a].key \in SettingKeys => a = b

LEMMA OneIsOneLineAKey ==
  ASSUME NEW ls \in EnvFile
  PROVE  OneLineAKey(ls) <=> One(ls)
<1>1. ASSUME NEW k
      PROVE  Cardinality(LinesOf(ls, k)) <= 1
               <=> \A a, b \in 1..Len(ls) : ls[a].key = k /\ ls[b].key = k => a = b
  <2> DEFINE S == LinesOf(ls, k)
  <2>1. S \in SUBSET (1..Len(ls)) /\ Len(ls) \in Nat
    BY DEF LinesOf, EnvFile
  <2>2. \A a \in 1..Len(ls) : a \in S <=> ls[a].key = k
    BY DEF LinesOf, EnvFile
  <2> HIDE DEF S
  <2>3. IsFiniteSet(1..Len(ls))
    BY <2>1, FS_Interval
  <2>4. IsFiniteSet(S)
    BY <2>1, <2>3, FS_Subset
  <2>5. Cardinality(S) \in Nat
    BY <2>4, FS_CardinalityType
  <2>6. Cardinality(S) <= 1 <=> S = {} \/ \E x : S = {x}
    <3>1. (Cardinality(S) = 0 <=> S = {}) /\ (Cardinality(S) = 1 <=> \E x : S = {x})
      BY <2>4, FS_EmptySet, FS_Singleton
    <3>2. Cardinality(S) <= 1 <=> Cardinality(S) = 0 \/ Cardinality(S) = 1
      BY <2>5
    <3> QED
      BY <3>1, <3>2
  <2>7. (S = {} \/ \E x : S = {x}) <=> \A a, b \in S : a = b
    <3>1. ASSUME \A a, b \in S : a = b, S # {}
          PROVE  \E x : S = {x}
      <4>1. PICK x : x \in S
        BY <3>1
      <4>2. S = {x}
        BY <3>1, <4>1
      <4> QED
        BY <4>2
    <3>2. ASSUME \E x : S = {x}
          PROVE  \A a, b \in S : a = b
      BY <3>2
    <3> QED
      BY <3>1, <3>2
  <2> QED
    BY <2>1, <2>2, <2>6, <2>7 DEF S
<1> QED
  BY <1>1 DEF OneLineAKey, One

(* What the first i upserts of w have made of base: the lines it had are   *)
(* where they were, with their keys, and the lines of other keys untouched.*)
Upserted(ls, base, w, C, i) ==
  /\ ls \in EnvFile /\ Len(base) <= Len(ls)
  /\ \A l \in 1..Len(base) : /\ ls[l].key = base[l].key
                             /\ base[l].key \notin C => ls[l] = base[l]
  /\ \A l \in 1..Len(ls) : l > Len(base) => ls[l].key \in C /\ ls[l].key \notin KeysIn(base)
  /\ \A j \in 1..i : \E l \in 1..Len(ls) : ls[l] = w[j]
  /\ One(base) => One(ls)

LEMMA UpsertStep ==
  ASSUME NEW base \in EnvFile, NEW C \in SUBSET SettingKeys, NEW n \in Nat,
         NEW w, \A j \in 1..n : w[j] \in EnvLine /\ w[j].key \in C,
         \A a, b \in 1..n : w[a].key = w[b].key => a = b,
         NEW i \in 0..(n - 1), NEW ls, Upserted(ls, base, w, C, i)
  PROVE  Upserted(Upsert(ls, w[i + 1]), base, w, C, i + 1)
<1> DEFINE line == w[i + 1]
           new == Upsert(ls, line)
<1>1. line \in EnvLine /\ line.key \in C /\ line.key \in SettingKeys /\ i + 1 \in 1..n
  OBVIOUS
<1>2. \A j \in 1..i : w[j].key # line.key
  OBVIOUS
<1>3. /\ ls \in EnvFile /\ Len(ls) \in Nat /\ Len(base) \in Nat /\ Len(base) <= Len(ls)
      /\ \A l \in 1..Len(base) : l \in 1..Len(ls)
  BY DEF Upserted, EnvFile
<1>4. CASE LinesOf(ls, line.key) # {}
  <2> DEFINE m == Min(LinesOf(ls, line.key))
  <2>1. LinesOf(ls, line.key) \in SUBSET (1..Len(ls))
    BY DEF LinesOf, EnvFile
  <2>2. m \in LinesOf(ls, line.key)
    BY <1>3, <1>4, <2>1, MinIsFirst
  <2>3. m \in 1..Len(ls) /\ ls[m].key = line.key
    BY <2>1, <2>2 DEF LinesOf
  <2>4. new = [ls EXCEPT ![m] = line]
    BY <1>4 DEF Upsert
  <2> HIDE DEF line, m, new
  <2>5. /\ new \in EnvFile /\ Len(new) = Len(ls)
        /\ \A l \in 1..Len(ls) : new[l].key = ls[l].key /\ (l # m => new[l] = ls[l])
        /\ new[m] = line
    BY <1>1, <1>3, <2>3, <2>4 DEF EnvFile
  <2>6. \A l \in 1..Len(base) : /\ new[l].key = base[l].key
                               /\ base[l].key \notin C => new[l] = base[l]
    <3> SUFFICES ASSUME NEW l \in 1..Len(base)
                 PROVE  /\ new[l].key = base[l].key
                        /\ base[l].key \notin C => new[l] = base[l]
      OBVIOUS
    <3>1. l \in 1..Len(ls) /\ ls[l].key = base[l].key /\ (base[l].key \notin C => ls[l] = base[l])
      BY <1>3 DEF Upserted
    <3>2. l = m => base[l].key \in C
      BY <1>1, <2>3, <3>1
    <3> QED
      BY <2>5, <3>1, <3>2
  <2>7. \A l \in 1..Len(new) : l > Len(base) => new[l].key \in C /\ new[l].key \notin KeysIn(base)
    BY <2>5 DEF Upserted
  <2>8. \A j \in 1..(i + 1) : \E l \in 1..Len(new) : new[l] = w[j]
    <3> SUFFICES ASSUME NEW j \in 1..(i + 1)
                 PROVE  \E l \in 1..Len(new) : new[l] = w[j]
      OBVIOUS
    <3>1. CASE j = i + 1
      BY <2>3, <2>5, <3>1 DEF line
    <3>2. CASE j \in 1..i
      <4>1. PICK l \in 1..Len(ls) : ls[l] = w[j]
        BY <3>2 DEF Upserted
      <4>2. l # m
        BY <1>2, <2>3, <3>2, <4>1
      <4> QED
        BY <2>5, <4>1, <4>2
    <3> QED
      BY <3>1, <3>2
  <2>9. One(base) => One(new)
    BY <2>5 DEF Upserted, One
  <2> QED
    BY <1>3, <2>5, <2>6, <2>7, <2>8, <2>9 DEF Upserted, new, line
<1>5. CASE LinesOf(ls, line.key) = {}
  <2>1. new = Append(ls, line)
    BY <1>5 DEF Upsert
  <2>2. \A l \in 1..Len(ls) : ls[l].key # line.key
    BY <1>5 DEF LinesOf, Upserted, EnvFile
  <2> HIDE DEF line, new
  <2>3. /\ new \in EnvFile /\ Len(new) = Len(ls) + 1 /\ new[Len(ls) + 1] = line
        /\ \A l \in 1..Len(ls) : new[l] = ls[l]
    BY <1>1, <1>3, <2>1 DEF EnvFile
  <2>4. line.key \notin KeysIn(base)
    <3> SUFFICES ASSUME NEW l \in DOMAIN base, base[l].key = line.key
                 PROVE  FALSE
      BY DEF KeysIn
    <3>1. l \in 1..Len(base)
      BY DEF EnvFile
    <3>2. l \in 1..Len(ls) /\ ls[l].key = base[l].key
      BY <1>3, <3>1 DEF Upserted
    <3> QED
      BY <2>2, <3>2
  <2>5. \A l \in 1..Len(base) : /\ new[l].key = base[l].key
                               /\ base[l].key \notin C => new[l] = base[l]
    BY <1>3, <2>3 DEF Upserted
  <2>6. \A l \in 1..Len(new) : l > Len(base) => new[l].key \in C /\ new[l].key \notin KeysIn(base)
    <3> SUFFICES ASSUME NEW l \in 1..Len(new), l > Len(base)
                 PROVE  new[l].key \in C /\ new[l].key \notin KeysIn(base)
      OBVIOUS
    <3>1. CASE l = Len(ls) + 1
      BY <1>1, <2>3, <2>4, <3>1
    <3>2. CASE l \in 1..Len(ls)
      BY <2>3, <3>2 DEF Upserted
    <3> QED
      BY <1>3, <2>3, <3>1, <3>2
  <2>7. \A j \in 1..(i + 1) : \E l \in 1..Len(new) : new[l] = w[j]
    <3> SUFFICES ASSUME NEW j \in 1..(i + 1)
                 PROVE  \E l \in 1..Len(new) : new[l] = w[j]
      OBVIOUS
    <3>1. CASE j = i + 1
      <4>1. Len(ls) + 1 \in 1..Len(new)
        BY <1>3, <2>3
      <4> QED
        BY <2>3, <3>1, <4>1 DEF line
    <3>2. CASE j \in 1..i
      <4>1. PICK l \in 1..Len(ls) : ls[l] = w[j]
        BY <3>2 DEF Upserted
      <4>2. l \in 1..Len(new) /\ new[l] = w[j]
        BY <1>3, <2>3, <4>1
      <4> QED
        BY <4>2
    <3> QED
      BY <3>1, <3>2
  <2>8. One(base) => One(new)
    <3> SUFFICES ASSUME One(base), NEW a \in 1..Len(new), NEW b \in 1..Len(new),
                        new[a].key = new[b].key, new[a].key \in SettingKeys
                 PROVE  a = b
      BY DEF One
    <3>1. One(ls)
      BY DEF Upserted
    <3>2. CASE a \in 1..Len(ls) /\ b \in 1..Len(ls)
      BY <2>3, <3>1, <3>2 DEF One
    <3>3. CASE a = Len(ls) + 1 /\ b \in 1..Len(ls)
      BY <2>2, <2>3, <3>3
    <3>4. CASE b = Len(ls) + 1 /\ a \in 1..Len(ls)
      BY <2>2, <2>3, <3>4
    <3> QED
      BY <1>3, <2>3, <3>2, <3>3, <3>4
  <2>9. Len(base) <= Len(new)
    BY <1>3, <2>3
  <2>10. Upserted(new, base, w, C, i + 1)
    BY <2>3, <2>5, <2>6, <2>7, <2>8, <2>9 DEF Upserted
  <2> QED
    BY <2>10 DEF new, line
<1> QED
  BY <1>4, <1>5

LEMMA UpsertIsFold ==
  ASSUME NEW ls, NEW w
  PROVE  FoldLeft(Upsert, ls, w) = UpsertFold!Folded(ls, w)
  BY DEF UpsertFold!Folded, FoldLeft, MapThenFoldSet, Max,
         UpsertFold!FoldLeft, UpsertFold!MapThenFoldSet, UpsertFold!Max

(* Every value is upserted once.                                           *)
LEMMA AllUpserted ==
  ASSUME NEW base \in EnvFile, NEW C \in SUBSET SettingKeys, NEW n \in Nat,
         NEW w, DOMAIN w = 1..n, \A j \in 1..n : w[j] \in EnvLine /\ w[j].key \in C,
         \A a, b \in 1..n : w[a].key = w[b].key => a = b
  PROVE  Upserted(FoldLeft(Upsert, base, w), base, w, C, n)
<1> DEFINE S == [i \in 0..n |-> {ls \in EnvFile : Upserted(ls, base, w, C, i)}]
<1>1. base \in S[0]
  BY DEF Upserted, EnvFile
<1>2. ASSUME NEW i \in 0..(n - 1), NEW ls \in S[i]
      PROVE  Upsert(ls, w[i + 1]) \in S[i + 1]
  <2>1. Upserted(ls, base, w, C, i)
    OBVIOUS
  <2>2. Upserted(Upsert(ls, w[i + 1]), base, w, C, i + 1)
    BY <2>1, UpsertStep
  <2>3. Upsert(ls, w[i + 1]) \in EnvFile /\ i + 1 \in 0..n
    BY <2>2 DEF Upserted
  <2> QED
    BY <2>2, <2>3
<1> HIDE DEF S
<1>3. UpsertFold!Folded(base, w) \in S[n]
  BY <1>1, <1>2, UpsertFold!FoldStays
<1> QED
  BY <1>3, UpsertIsFold DEF S

Permitted(changes, lines) ==
  /\ DOMAIN changes \subseteq SettingKeys
  /\ \A k \in DOMAIN changes : changes[k] \in Values \cup {Mask}
                              /\ (changes[k] = Mask => k \in Secrets)

LEMMA ValueInType ==
  ASSUME NEW lines \in EnvFile, NEW k \in SettingKeys
  PROVE  /\ ValueIn(lines, k) \in Values \cup {""}
         /\ LinesOf(lines, k) = {} <=> k \notin KeysIn(lines)
<1>1. LinesOf(lines, k) = {} <=> k \notin KeysIn(lines)
  BY DEF LinesOf, KeysIn
<1>2. CASE LinesOf(lines, k) = {}
  BY <1>1, <1>2 DEF ValueIn
<1>3. CASE LinesOf(lines, k) # {}
  <2>1. LinesOf(lines, k) \in SUBSET (1..Len(lines)) /\ Len(lines) \in Nat
    BY DEF LinesOf, EnvFile
  <2>2. Max(LinesOf(lines, k)) \in LinesOf(lines, k)
    BY <1>3, <2>1, MaxIsLast
  <2> DEFINE line == lines[Max(LinesOf(lines, k))]
  <2>3. line \in EnvLine
    BY <2>1, <2>2 DEF EnvFile
  <2> HIDE DEF line
  <2>4. line.value \in Values \cup {""}
    <3>1. line \in [key : SettingKeys, value : Values \cup {""}] \/ line = [key |-> "#", value |-> ""]
      BY <2>3 DEF EnvLine, Comment
    <3>2. CASE line \in [key : SettingKeys, value : Values \cup {""}]
      BY <3>2
    <3>3. CASE line = [key |-> "#", value |-> ""]
      BY <3>3
    <3> QED
      BY <3>1, <3>2, <3>3
  <2> QED
    BY <1>1, <1>3, <2>4 DEF ValueIn, line
<1> QED
  BY <1>2, <1>3

(* With one line a key, that line has its value. *)
LEMMA ValueOfTheLine ==
  ASSUME NEW lines \in EnvFile, One(lines), NEW k \in SettingKeys,
         NEW l \in 1..Len(lines), lines[l].key = k
  PROVE  ValueIn(lines, k) = lines[l].value
<1>1. LinesOf(lines, k) \in SUBSET (1..Len(lines)) /\ Len(lines) \in Nat /\ l \in LinesOf(lines, k)
  BY DEF LinesOf, EnvFile
<1>2. Max(LinesOf(lines, k)) \in LinesOf(lines, k)
  BY <1>1, MaxIsLast
<1>3. Max(LinesOf(lines, k)) \in 1..Len(lines) /\ lines[Max(LinesOf(lines, k))].key = k
  BY <1>1, <1>2 DEF LinesOf
<1>4. Max(LinesOf(lines, k)) = l
  BY <1>3 DEF One
<1> QED
  BY <1>1, <1>4 DEF ValueIn

(* The file before the deletions of a save.                                *)
LEMMA AppliedIs ==
  ASSUME NEW lines \in EnvFile, NEW changes, Permitted(changes, lines), NEW deletions
  PROVE  \E ls : /\ Applied(lines, changes, deletions) = Delete(ls, deletions)
                 /\ Upserted(ls, lines, <<>>, Changed(lines, changes), 0)
                 /\ \A k \in Changed(lines, changes) : \E l \in 1..Len(ls) :
                       ls[l] = [key |-> k, value |-> Coalesce(lines, k, changes[k])]
<1> DEFINE C == Changed(lines, changes)
           n == Cardinality(C)
           keys == SetToSeq(C)
           w == [j \in DOMAIN keys |->
                   [key |-> keys[j], value |-> Coalesce(lines, keys[j], changes[keys[j]])]]
           ls == FoldLeft(Upsert, lines, w)
<1>1. C \in SUBSET SettingKeys
  BY DEF Changed, Permitted
<1>2. IsFiniteSet(C)
  BY <1>1, FS_Subset, KeysAssumption DEF SettingKeys
<1>3. /\ n \in Nat /\ keys \in [1..n -> C]
      /\ \A a, b \in 1..n : keys[a] = keys[b] => a = b
      /\ \A k \in C : \E j \in 1..n : keys[j] = k
  <2> HIDE DEF C
  <2>1. n \in Nat /\ ExistsBijection(1..n, C)
    BY <1>2, FS_CardinalityType
  <2>2. PICK f \in [1..n -> C] : IsInjective(f)
    BY <2>1 DEF ExistsBijection, Bijection, Injection
  <2>3. keys \in [1..n -> C] /\ IsInjective(keys)
    BY <2>2 DEF SetToSeq
  <2>4. keys \in Injection(1..n, C)
    BY <2>3 DEF Injection
  <2>5. IsFiniteSet(1..n) /\ Cardinality(1..n) = n
    BY <2>1, FS_Interval
  <2> HIDE DEF keys
  <2>6. keys \in Surjection(1..n, C)
    BY <1>2, <2>4, <2>5, FS_Injection
  <2> QED
    BY <2>1, <2>3, <2>6 DEF IsInjective, Surjection
<1> HIDE DEF keys, n
<1>4. DOMAIN w = 1..n
  BY <1>3
<1>5. \A j \in 1..n : w[j] = [key |-> keys[j], value |-> Coalesce(lines, keys[j], changes[keys[j]])]
  BY <1>3
<1> HIDE DEF w
<1>k. ASSUME NEW j \in 1..n
      PROVE  w[j].key = keys[j]
  <2>1. w[j] = [key |-> keys[j], value |-> Coalesce(lines, keys[j], changes[keys[j]])]
    BY <1>5
  <2> QED
    BY <2>1
<1>6. ASSUME NEW k \in C
      PROVE  [key |-> k, value |-> Coalesce(lines, k, changes[k])] \in EnvLine
  <2>1. k \in SettingKeys /\ k \in DOMAIN changes /\ changes[k] \in Values \cup {Mask}
        /\ (changes[k] = Mask => k \in Secrets)
    BY DEF Changed, Permitted
  <2>2. ValueIn(lines, k) \in Values \cup {""}
    BY <2>1, ValueInType
  <2>3. Coalesce(lines, k, changes[k]) \in Values \cup {""}
    BY <2>1, <2>2 DEF Coalesce
  <2> QED
    BY <2>1, <2>3 DEF EnvLine
<1> HIDE DEF C
<1>7. \A j \in 1..n : w[j] \in EnvLine /\ w[j].key \in C
  <2> SUFFICES ASSUME NEW j \in 1..n
               PROVE  w[j] \in EnvLine /\ w[j].key \in C
    OBVIOUS
  <2>1. keys[j] \in C
    BY <1>3
  <2>2. [key |-> keys[j], value |-> Coalesce(lines, keys[j], changes[keys[j]])] \in EnvLine
    BY <1>6, <2>1
  <2>3. w[j] \in EnvLine
    BY <1>5, <2>2
  <2> QED
    BY <1>k, <2>1, <2>3
<1>8. \A a, b \in 1..n : w[a].key = w[b].key => a = b
  BY <1>3, <1>k
<1>9. Upserted(ls, lines, w, C, n)
  BY <1>1, <1>3, <1>4, <1>7, <1>8, AllUpserted
<1>10. Upserted(ls, lines, <<>>, C, 0)
  BY <1>9 DEF Upserted
<1>11. ASSUME NEW k \in C
       PROVE  \E l \in 1..Len(ls) : ls[l] = [key |-> k, value |-> Coalesce(lines, k, changes[k])]
  <2>1. PICK j \in 1..n : keys[j] = k
    BY <1>3
  <2> HIDE DEF ls
  <2>2. PICK l \in 1..Len(ls) : ls[l] = w[j]
    BY <1>9 DEF Upserted
  <2> QED
    BY <1>5, <2>1, <2>2
<1>12. Applied(lines, changes, deletions) = Delete(ls, deletions)
  BY DEF Applied, C, keys, w
<1> HIDE DEF ls
<1> QED
  BY <1>10, <1>11, <1>12 DEF C

(* Where no line was written, and none deleted, the value is the old one. *)
LEMMA AppliedKeepsValues ==
  ASSUME NEW lines \in EnvFile, NEW changes, Permitted(changes, lines),
         NEW deletions, deletions \subseteq SettingKeys
  PROVE  /\ Applied(lines, changes, deletions) \in EnvFile
         /\ \A k \in SettingKeys \ Touched(lines, changes, deletions) :
               ValueIn(Applied(lines, changes, deletions), k) = ValueIn(lines, k)
<1> DEFINE C == Changed(lines, changes)
           new == Applied(lines, changes, deletions)
<1>1. PICK ls : new = Delete(ls, deletions) /\ Upserted(ls, lines, <<>>, C, 0)
  BY AppliedIs
<1>2. ls \in EnvFile
  BY <1>1 DEF Upserted
<1> DEFINE K == KeysIn(ls) \ deletions
<1>3. new = OnlyKeys(ls, K)
  BY <1>1 DEF Delete
<1> HIDE DEF new, C
<1>4. new \in EnvFile /\ KeysIn(new) = K
  BY <1>2, <1>3, OnlyKeysOf
<1>5. ASSUME NEW k \in SettingKeys, k \notin Touched(lines, changes, deletions)
      PROVE  ValueIn(new, k) = ValueIn(lines, k)
  <2>1. k \notin C /\ (k \in deletions => LinesOf(lines, k) = {})
    BY <1>5 DEF Touched, C
  <2>2. LinesOf(ls, k) = LinesOf(lines, k) /\ \A l \in LinesOf(lines, k) : ls[l] = lines[l]
    <3>1. ASSUME NEW l \in DOMAIN lines, lines[l].key = k
          PROVE  l \in DOMAIN ls /\ ls[l] = lines[l]
      BY <1>1, <2>1, <3>1 DEF Upserted, EnvFile
    <3>2. ASSUME NEW l \in DOMAIN ls, ls[l].key = k
          PROVE  l \in DOMAIN lines /\ lines[l].key = k
      <4>1. l \in 1..Len(ls) /\ Len(lines) \in Nat
        BY <1>2 DEF EnvFile
      <4>2. ~(l > Len(lines))
        BY <1>1, <2>1, <3>2, <4>1 DEF Upserted
      <4>3. l \in 1..Len(lines)
        BY <4>1, <4>2
      <4> QED
        BY <1>1, <3>2, <4>3 DEF Upserted, EnvFile
    <3> QED
      BY <3>1, <3>2 DEF LinesOf
  <2>3. ValueIn(ls, k) = ValueIn(lines, k)
    <3>1. CASE LinesOf(lines, k) = {}
      BY <2>2, <3>1 DEF ValueIn
    <3>2. CASE LinesOf(lines, k) # {}
      <4>1. LinesOf(lines, k) \in SUBSET (1..Len(lines)) /\ Len(lines) \in Nat
        BY DEF LinesOf, EnvFile
      <4>2. Max(LinesOf(lines, k)) \in LinesOf(lines, k)
        BY <3>2, <4>1, MaxIsLast
      <4> QED
        BY <2>2, <3>2, <4>2 DEF ValueIn
    <3> QED
      BY <3>1, <3>2
  <2>4. CASE k \in K
    <3>1. ValueIn(OnlyKeys(ls, K), k) = ValueIn(ls, k)
      <4> HIDE DEF K
      <4> QED
        BY <1>2, <2>4, OnlyKeysValue
    <3> QED
      BY <1>3, <2>3, <3>1
  <2>5. CASE k \notin K
    <3>1. LinesOf(new, k) = {}
      BY <1>4, <2>5, ValueInType
    <3>2. LinesOf(lines, k) = {}
      <4>1. CASE k \in deletions
        BY <2>1, <4>1
      <4>2. CASE k \notin KeysIn(ls)
        BY <1>2, <2>2, <4>2, ValueInType
      <4> QED
        BY <2>5, <4>1, <4>2
    <3> QED
      BY <3>1, <3>2 DEF ValueIn
  <2> QED
    BY <2>4, <2>5
<1> QED
  BY <1>4, <1>5 DEF new

LEMMA OneOfOnlyKeys ==
  ASSUME NEW s \in EnvFile, NEW K, One(s)
  PROVE  One(OnlyKeys(s, K))
<1> DEFINE I == {i \in DOMAIN s : s[i].key \in K}
           q == Subsequence(s, I)
<1>1. OnlyKeys(s, K) = q
  BY DEF OnlyKeys
<1> HIDE DEF I
<1>2. PICK m \in Nat : \E p : Picks(p, m, I \cap (1..Len(s))) /\ q = Picked(s, p, m)
  BY SubsequencePicks DEF EnvFile
<1>3. PICK p : Picks(p, m, I \cap (1..Len(s))) /\ q = Picked(s, p, m)
  BY <1>2
<1> HIDE DEF q
<1>4. \A j \in 1..m : p[j] \in 1..Len(s) /\ q[j] = s[p[j]]
  BY <1>3 DEF Picks, Picked
<1>5. Len(q) = m
  <2>1. \A j \in 1..m : s[p[j]] \in EnvLine
    BY <1>4 DEF EnvFile
  <2>2. q \in Seq(EnvLine) /\ DOMAIN q = 1..m
    BY <1>3, <2>1 DEF Picked
  <2> QED
    BY <2>2
<1>6. ASSUME NEW a \in 1..m, NEW b \in 1..m, q[a].key = q[b].key, q[a].key \in SettingKeys
      PROVE  a = b
  <2>1. p[a] = p[b]
    BY <1>4, <1>6 DEF One
  <2> QED
    BY <1>3, <2>1 DEF Picks
<1> QED
  BY <1>1, <1>5, <1>6 DEF One

Kept(lines, new) ==
  {k \in SettingKeys : /\ ValueIn(new, k) = ValueIn(lines, k)
                       /\ LinesOf(lines, k) = {} <=> LinesOf(new, k) = {}}

(* A save leaves one line a key, and the lines of the keys it does not     *)
(* change in their order.                                                  *)
LEMMA AppliedKeepsTheFile ==
  ASSUME NEW lines \in EnvFile, One(lines), NEW changes, Permitted(changes, lines),
         NEW deletions, deletions \subseteq SettingKeys,
         NEW new, new = Applied(lines, changes, deletions),
         NEW R, R = Kept(lines, new) \cup {Comment.key}
  PROVE  One(new) /\ OnlyKeys(new, R) = OnlyKeys(lines, R)
<1> DEFINE C == Changed(lines, changes)
<1>1. PICK ls : /\ new = Delete(ls, deletions) /\ Upserted(ls, lines, <<>>, C, 0)
                /\ \A k \in C : \E l \in 1..Len(ls) :
                       ls[l] = [key |-> k, value |-> Coalesce(lines, k, changes[k])]
  BY AppliedIs
<1> HIDE DEF C
<1>2. ls \in EnvFile /\ One(ls) /\ Len(ls) \in Nat /\ Len(lines) \in Nat
  BY <1>1 DEF Upserted, EnvFile
<1> DEFINE K == KeysIn(ls) \ deletions
           E == K \cap R
<1>3. new = OnlyKeys(ls, K)
  BY <1>1 DEF Delete
<1>4. new \in EnvFile /\ KeysIn(new) = K /\ One(new)
  BY <1>2, <1>3, OnlyKeysOf, OneOfOnlyKeys
<1>5. OnlyKeys(new, R) = OnlyKeys(ls, E)
  <2> HIDE DEF K
  <2> QED
    BY <1>2, <1>3, OnlyKeysTwice
<1> HIDE DEF K
<1>6. C \subseteq SettingKeys
  BY DEF C, Changed, Permitted
<1>7. Comment.key \notin SettingKeys
  BY KeysAssumption DEF SettingKeys, Comment
<1>8. \A k \in SettingKeys : k \in R => ValueIn(new, k) = ValueIn(lines, k)
                                      /\ (k \in KeysIn(lines) <=> k \in K)
  BY <1>4, <1>7, ValueInType DEF Kept
<1>9. \A l \in 1..Len(ls) : ls[l].key \in KeysIn(ls)
  BY <1>2 DEF KeysIn, EnvFile
<1>10. ASSUME NEW l \in 1..Len(lines)
       PROVE  /\ l \in 1..Len(ls) /\ ls[l].key = lines[l].key
              /\ ls[l].key \in E <=> lines[l].key \in R
              /\ ls[l].key \in E => ls[l] = lines[l]
  <2> DEFINE k == lines[l].key
  <2>1. l \in 1..Len(ls) /\ ls[l].key = k /\ (k \notin C => ls[l] = lines[l])
    BY <1>1 DEF Upserted, EnvFile
  <2>2. k \in KeysIn(lines) /\ k \in SettingKeys \cup {Comment.key}
    <3>1. lines[l] \in EnvLine /\ l \in DOMAIN lines
      BY DEF EnvFile
    <3>2. CASE lines[l] \in [key : SettingKeys, value : Values \cup {""}]
      BY <3>1, <3>2 DEF KeysIn
    <3>3. CASE lines[l] = Comment
      BY <3>1, <3>3 DEF KeysIn
    <3> QED
      BY <3>1, <3>2, <3>3 DEF EnvLine
  <2> HIDE DEF k
  <2>3. k \in R => k \in K
    <3>1. CASE k \in SettingKeys
      BY <1>8, <2>2, <3>1
    <3>2. CASE k = Comment.key
      BY <1>7, <1>9, <2>1, <3>2 DEF K
    <3> QED
      BY <2>2, <3>1, <3>2
  <2>4. k \in R => k \notin C
    <3> SUFFICES ASSUME k \in R, k \in C
                 PROVE  FALSE
      OBVIOUS
    <3>1. k \in SettingKeys
      BY <1>6
    <3>2. PICK i \in 1..Len(ls) : ls[i] = [key |-> k, value |-> Coalesce(lines, k, changes[k])]
      BY <1>1
    <3>3. ls[i].key = k /\ ls[i].value = Coalesce(lines, k, changes[k])
      BY <3>2
    <3>4. ValueIn(ls, k) = Coalesce(lines, k, changes[k])
      BY <1>2, <3>1, <3>3, ValueOfTheLine
    <3>5. ValueIn(new, k) = ValueIn(ls, k)
      BY <1>2, <1>3, <2>3, OnlyKeysValue
    <3>6. Coalesce(lines, k, changes[k]) = ValueIn(lines, k)
      BY <1>8, <3>1, <3>4, <3>5
    <3>7. LinesOf(lines, k) # {}
      BY <2>2, <3>1, ValueInType
    <3> QED
      BY <3>6, <3>7 DEF C, Changed
  <2> QED
    BY <2>1, <2>3, <2>4 DEF k
<1>11. ASSUME NEW l \in 1..Len(ls), l > Len(lines)
       PROVE  ls[l].key \notin E
  <2>1. ls[l].key \in C /\ ls[l].key \notin KeysIn(lines)
    BY <1>1, <1>11 DEF Upserted
  <2> QED
    BY <1>6, <1>8, <2>1
<1> HIDE DEF E
<1> DEFINE Common(i) == IF i <= Len(lines) THEN i ELSE Len(lines)
           N == {i \in 0..Len(ls) : OnlyKeys(Prefix(ls, i), E) = OnlyKeys(Prefix(lines, Common(i)), R)}
<1>p. /\ \A i \in 0..Len(ls) : Prefix(ls, i) \in EnvFile /\ Len(Prefix(ls, i)) = i
      /\ Prefix(ls, 0) = <<>> /\ Prefix(ls, Len(ls)) = ls
      /\ \A i \in 0..(Len(ls) - 1) : /\ OneMore(Prefix(ls, i), Prefix(ls, i + 1))
                                    /\ Prefix(ls, i + 1)[i + 1] = ls[i + 1]
  BY <1>2, PrefixOf DEF EnvFile
<1>q. /\ \A i \in 0..Len(lines) : Prefix(lines, i) \in EnvFile /\ Len(Prefix(lines, i)) = i
      /\ Prefix(lines, 0) = <<>> /\ Prefix(lines, Len(lines)) = lines
      /\ \A i \in 0..(Len(lines) - 1) : /\ OneMore(Prefix(lines, i), Prefix(lines, i + 1))
                                       /\ Prefix(lines, i + 1)[i + 1] = lines[i + 1]
  BY PrefixOf DEF EnvFile
<1> HIDE DEF Prefix
<1>12. 0 \in N
  <2>1. OnlyKeys(<<>>, E) = <<>> /\ OnlyKeys(<<>>, R) = <<>>
    BY <1>2, OnlyKeysOf
  <2>2. Common(0) = 0
    BY <1>2
  <2> QED
    BY <1>2, <1>p, <1>q, <2>1, <2>2
<1>13. ASSUME NEW i \in 0..(Len(ls) - 1), i \in N
       PROVE  i + 1 \in N
  <2> DEFINE u == Prefix(ls, i)
             w == Prefix(ls, i + 1)
  <2>1. u \in EnvFile /\ w \in EnvFile /\ OneMore(u, w) /\ Len(w) = i + 1 /\ w[i + 1] = ls[i + 1]
        /\ i + 1 \in 0..Len(ls) /\ i + 1 \in 1..Len(ls)
    <3>1. i \in 0..Len(ls) /\ i + 1 \in 0..Len(ls) /\ i + 1 \in 1..Len(ls)
      BY <1>2
    <3>2. u \in EnvFile /\ w \in EnvFile /\ Len(w) = i + 1
      BY <1>p, <3>1
    <3>3. OneMore(u, w) /\ w[i + 1] = ls[i + 1]
      BY <1>p, i \in 0..(Len(ls) - 1)
    <3> QED
      BY <3>1, <3>2, <3>3
  <2>2. OnlyKeys(u, E) = OnlyKeys(Prefix(lines, Common(i)), R)
    BY <1>13
  <2> HIDE DEF u, w
  <2>3. OnlyKeys(w, E) = IF ls[i + 1].key \in E THEN Append(OnlyKeys(u, E), ls[i + 1])
                         ELSE OnlyKeys(u, E)
    BY <2>1, OnlyKeysGrows
  <2>4. OnlyKeys(w, E) = OnlyKeys(Prefix(lines, Common(i + 1)), R)
    <3>1. CASE i + 1 <= Len(lines)
      <4> DEFINE x == Prefix(lines, i)
                 y == Prefix(lines, i + 1)
      <4>1. Common(i) = i /\ Common(i + 1) = i + 1 /\ i + 1 \in 1..Len(lines)
        BY <1>2, <3>1
      <4>2. x \in EnvFile /\ y \in EnvFile /\ OneMore(x, y) /\ Len(y) = i + 1 /\ y[i + 1] = lines[i + 1]
        BY <1>2, <1>q, <3>1
      <4>3. OnlyKeys(u, E) = OnlyKeys(x, R)
        BY <2>2, <4>1
      <4> HIDE DEF x, y
      <4>4. OnlyKeys(y, R) = IF lines[i + 1].key \in R THEN Append(OnlyKeys(x, R), lines[i + 1])
                             ELSE OnlyKeys(x, R)
        BY <4>2, OnlyKeysGrows
      <4>5. OnlyKeys(w, E) = OnlyKeys(y, R)
        BY <1>10, <2>3, <4>1, <4>3, <4>4
      <4> QED
        BY <4>1, <4>5 DEF y
    <3>2. CASE ~(i + 1 <= Len(lines))
      <4>1. Common(i) = Len(lines) /\ Common(i + 1) = Len(lines)
        BY <1>2, <3>2
      <4>2. ls[i + 1].key \notin E
        BY <1>2, <1>11, <2>1, <3>2
      <4> QED
        BY <2>2, <2>3, <4>1, <4>2
    <3> QED
      BY <3>1, <3>2
  <2> QED
    BY <2>1, <2>4 DEF w
<1> HIDE DEF N
<1>14. 0..Len(ls) \subseteq N
  BY <1>2, <1>12, <1>13, KeepFold!UpTo
<1>15. OnlyKeys(ls, E) = OnlyKeys(lines, R)
  <2>1. Len(ls) \in N
    BY <1>2, <1>14
  <2>2. Common(Len(ls)) = Len(lines)
    BY <1>1, <1>2 DEF Upserted
  <2> QED
    BY <1>p, <1>q, <2>1, <2>2 DEF N
<1> QED
  BY <1>4, <1>5, <1>15

-----------------------------------------------------------------------------
(* The settings and their restarts after a save *)

(* The type of env says what its lines are; it is a sequence of them. *)
SettingsFile == SettingsTypeOK /\ env \in EnvFile

LEMMA SettingsInitial == SettingsInit => SettingsFile
<1> SUFFICES ASSUME SettingsInit PROVE SettingsFile
  OBVIOUS
<1>1. Comment \in EnvLine
  BY DEF EnvLine
<1>2. env \in EnvFile
  BY <1>1 DEF SettingsInit, EnvFile
<1>3. Nothing \in Environment
  BY DEF Nothing, Environment
<1>4. 0 \in 0..MaxEnvWrites
  BY ValuesAssumption
<1>5. \A i \in DOMAIN env : env[i] \in EnvLine
  BY <1>2 DEF EnvFile
<1> QED
  BY <1>2, <1>3, <1>4, <1>5 DEF SettingsFile, SettingsTypeOK, SettingsInit

LEMMA ValuesOfType ==
  ASSUME NEW lines \in EnvFile
  PROVE  ValuesOf(lines) \in Environment
  BY ValueInType DEF ValuesOf, Environment

(* What SettingsNext lets a save change. *)
LEMMA SavesArePermitted ==
  ASSUME NEW named \in SUBSET SettingKeys, NEW changes \in [named -> Values \cup {Mask}],
         \A k \in named : changes[k] = Mask => k \in Secrets
  PROVE  Permitted(changes, env)
  BY DEF Permitted

LEMMA SettingsFileStep == SettingsFile /\ [SettingsNext]_settingsVars => SettingsFile'
<1> SUFFICES ASSUME SettingsFile, [SettingsNext]_settingsVars
             PROVE  SettingsFile'
  OBVIOUS
<1>1. edits < MaxEnvWrites => edits + 1 \in 0..MaxEnvWrites
  BY ValuesAssumption DEF SettingsFile, SettingsTypeOK
<1>2. \A lines \in EnvFile : \A i \in DOMAIN lines : lines[i] \in EnvLine
  BY DEF EnvFile
<1>3. ASSUME NEW r \in Requests, NEW named \in SUBSET SettingKeys, NEW deletions \in SUBSET SettingKeys,
             NEW changes \in [named -> Values \cup {Mask}],
             \A k \in named : changes[k] = Mask => k \in Secrets, Save(r, changes, deletions)
      PROVE  SettingsFile'
  <2>1. Permitted(changes, env)
    BY <1>3, SavesArePermitted
  <2>2. env' \in EnvFile
    BY <1>3, <2>1, AppliedKeepsValues DEF Save, SettingsFile
  <2> QED
    BY <1>1, <1>2, <1>3, <2>2 DEF Save, Restart, SettingsFile, SettingsTypeOK
<1>4. ASSUME NEW r \in Requests, PostRestart(r)
      PROVE  SettingsFile'
  BY <1>4 DEF PostRestart, Restart, SettingsFile, SettingsTypeOK
<1>5. ASSUME NEW r \in Requests, NEW good \in BOOLEAN, RestartRsshub(r, good)
      PROVE  SettingsFile'
  BY <1>5, ValuesOfType DEF RestartRsshub, ThenSelf, SettingsFile, SettingsTypeOK
<1>6. ASSUME NEW k \in SettingKeys, NEW v \in Values, HandEdit(k, v)
      PROVE  SettingsFile'
  <2>1. [key |-> k, value |-> v] \in EnvLine
    BY DEF EnvLine
  <2>2. env' \in EnvFile
    BY <1>6, <2>1 DEF HandEdit, SettingsFile, EnvFile
  <2> QED
    BY <1>1, <1>2, <1>6, <2>2 DEF HandEdit, SettingsFile, SettingsTypeOK
<1>7. CASE SpawnHelper
  BY <1>7 DEF SpawnHelper, SettingsFile, SettingsTypeOK
<1>8. CASE FallBack
  BY <1>8 DEF FallBack, Renewed, SettingsFile, SettingsTypeOK
<1>9. CASE HelperReads
  BY <1>9, ValuesOfType DEF HelperReads, SettingsFile, SettingsTypeOK
<1>10. CASE HelperRecreates
  <2>1. Nothing \in Environment
    BY DEF Nothing, Environment
  <2> QED
    BY <1>10, <2>1 DEF HelperRecreates, Renewed, SettingsFile, SettingsTypeOK
<1>11. CASE UNCHANGED settingsVars
  BY <1>11 DEF settingsVars, SettingsFile, SettingsTypeOK
<1> QED
  BY <1>3, <1>4, <1>5, <1>6, <1>7, <1>8, <1>9, <1>10, <1>11 DEF SettingsNext

(* The lines of the file, the environments of both containers and the      *)
(* requests are of their types; no line holds the mask of a secret.        *)
THEOREM SettingsTypesHold == SettingsSpec => []SettingsTypeOK
<1>1. SettingsFile => SettingsTypeOK
  BY DEF SettingsFile
<1> QED
  BY <1>1, SettingsInitial, SettingsFileStep, PTL DEF SettingsSpec

(* A save leaves one line a key, puts no mask and no rejected value into   *)
(* the file, and does not touch the lines it does not name                 *)
(* (settings_envfile upsert, delete; api/settings _coalesce_value).        *)
THEOREM SavesRespectTheFile == SettingsSpec => SavesKeepTheFile
<1>1. ASSUME SettingsFile, SettingsNext, made' # made, env' # env, OneLineAKey(env)
      PROVE  /\ OneLineAKey(env')
             /\ Accepted(env) => Accepted(env')
             /\ \A k \in SettingKeys : ValueIn(env', k) # Mask
             /\ LET kept == {k \in SettingKeys :
                               /\ ValueIn(env', k) = ValueIn(env, k)
                               /\ LinesOf(env, k) = {} <=> LinesOf(env', k) = {}}
                    Rest(lines) == OnlyKeys(lines, kept \cup {Comment.key})
                IN  Rest(env') = Rest(env)
  <2>1. PICK r \in Requests, named \in SUBSET SettingKeys, deletions \in SUBSET SettingKeys :
           \E changes \in [named -> Values \cup {Mask}] :
              /\ \A k \in named : changes[k] = Mask => k \in Secrets
              /\ Save(r, changes, deletions)
    BY <1>1 DEF SettingsNext, PostRestart, RestartRsshub, HandEdit, SpawnHelper, FallBack,
                HelperReads, HelperRecreates
  <2>2. PICK changes \in [named -> Values \cup {Mask}] :
              /\ \A k \in named : changes[k] = Mask => k \in Secrets
              /\ Save(r, changes, deletions)
    BY <2>1
  <2>3. /\ Permitted(changes, env) /\ env \in EnvFile /\ One(env)
        /\ env' = Applied(env, changes, deletions)
        /\ Touched(env, changes, deletions) \cap SembrKeys # {} => Accepted(env')
    BY <1>1, <2>2, SavesArePermitted, OneIsOneLineAKey DEF Save, SettingsFile
  <2>4. /\ env' \in EnvFile
        /\ \A k \in SettingKeys \ Touched(env, changes, deletions) : ValueIn(env', k) = ValueIn(env, k)
    BY <2>3, AppliedKeepsValues
  <2>5. OneLineAKey(env') /\ OnlyKeys(env', Kept(env, env') \cup {Comment.key})
                               = OnlyKeys(env, Kept(env, env') \cup {Comment.key})
    BY <2>3, <2>4, AppliedKeepsTheFile, OneIsOneLineAKey
  <2>6. Accepted(env) => Accepted(env')
    BY <2>3, <2>4 DEF Accepted, SettingKeys
  <2>7. \A k \in SettingKeys : ValueIn(env', k) # Mask
    BY <2>4, ValueInType, ValuesAssumption DEF Mask
  <2> QED
    BY <2>5, <2>6, <2>7 DEF Kept
<1> QED
  BY <1>1, SettingsInitial, SettingsFileStep, PTL DEF SettingsSpec, SavesKeepTheFile

Attended == missed \subseteq {"failed", "killed"}

(* What compose has read is what the file says, and if nobody is going to  *)
(* restart anything the api runs on it.                                    *)
ReadIsCurrent == Attended /\ helper = "recreates" => created = ValuesOf(env)

ConvergeInv == ReadIsCurrent /\ ApiConverges /\ helper \in {"none", "sleeps", "recreates"}

LEMMA ConvergeInitial == SettingsInit => ConvergeInv
<1> SUFFICES ASSUME SettingsInit PROVE ConvergeInv
  OBVIOUS
<1>1. ASSUME NEW k \in SettingKeys
      PROVE  ValueIn(env, k) = ""
  <2>1. \A i \in DOMAIN env : env[i].key = "#"
    <3>1. env = <<Comment>> /\ Comment.key = "#"
      BY DEF SettingsInit, Comment
    <3>2. DOMAIN env = 1..1 /\ env[1] = Comment
      BY <3>1
    <3> QED
      BY <3>1, <3>2
  <2>2. k # "#"
    BY KeysAssumption DEF SettingKeys
  <2>3. LinesOf(env, k) = {}
    BY <2>1, <2>2 DEF LinesOf
  <2> QED
    BY <2>3 DEF ValueIn
<1>2. running = ValuesOf(env)
  BY <1>1 DEF SettingsInit, ValuesOf, Nothing
<1> QED
  BY <1>2 DEF SettingsInit, ConvergeInv, ReadIsCurrent, ApiConverges

(* A request leaves a restart behind, first of rsshub or at once. *)
LEMMA RequestStep ==
  ASSUME ConvergeInv, NEW r, NEW first, Restart(r, first), UNCHANGED <<running, helper, created>>,
         missed \subseteq missed', env' = env \/ (helper = "recreates" => "late" \in missed')
  PROVE  ConvergeInv'
<1>1. ~Quiet'
  BY DEF Restart, Quiet
<1>2. ReadIsCurrent'
  BY DEF ConvergeInv, ReadIsCurrent, Attended
<1> QED
  BY <1>1, <1>2 DEF ConvergeInv, ApiConverges

LEMMA ContainerStep ==
  ASSUME ConvergeInv,
         \/ \E r \in Requests, good \in BOOLEAN : RestartRsshub(r, good)
         \/ SpawnHelper \/ FallBack \/ HelperReads \/ HelperRecreates
  PROVE  ConvergeInv'
<1>1. ASSUME NEW r \in Requests, NEW good \in BOOLEAN, RestartRsshub(r, good)
      PROVE  ConvergeInv'
  <2>1. /\ timer' = TRUE /\ missed \subseteq missed' /\ UNCHANGED <<env, running, helper, created>>
    BY <1>1 DEF RestartRsshub, ThenSelf
  <2> QED
    BY <2>1 DEF ConvergeInv, ReadIsCurrent, Attended, ApiConverges, Quiet
<1>2. CASE SpawnHelper
  BY <1>2 DEF SpawnHelper, ConvergeInv, ReadIsCurrent, Attended, ApiConverges, Quiet
<1>3. CASE FallBack
  BY <1>3 DEF FallBack, ConvergeInv, ReadIsCurrent, Attended, ApiConverges
<1>4. CASE HelperReads
  BY <1>4 DEF HelperReads, ValuesOf, ValueIn, LinesOf, ConvergeInv, ReadIsCurrent, Attended,
              ApiConverges, Quiet
<1>5. CASE HelperRecreates
  <2>1. /\ helper = "recreates" /\ helper' = "none" /\ running' = created /\ env' = env
        /\ missed \subseteq missed'
    BY <1>5 DEF HelperRecreates
  <2>2. Attended' => running' = ValuesOf(env')
    BY <2>1 DEF ConvergeInv, ReadIsCurrent, Attended
  <2> QED
    BY <2>1, <2>2 DEF ConvergeInv, ReadIsCurrent, ApiConverges, Attended, ValuesOf, ValueIn, LinesOf
<1> QED
  BY <1>1, <1>2, <1>3, <1>4, <1>5

LEMMA ConvergeStep == ConvergeInv /\ [SettingsNext]_settingsVars => ConvergeInv'
<1> SUFFICES ASSUME ConvergeInv, [SettingsNext]_settingsVars
             PROVE  ConvergeInv'
  OBVIOUS
<1>1. ASSUME NEW r \in Requests, NEW changes, NEW deletions, Save(r, changes, deletions)
      PROVE  ConvergeInv'
  <2> DEFINE first == Touched(env, changes, deletions) \cap PassKeys # {}
  <2>1. /\ Restart(r, first) /\ UNCHANGED <<running, rsshub, helper, created>>
        /\ missed' = IF helper = "recreates" THEN missed \cup {"late"} ELSE missed
    BY <1>1 DEF Save
  <2> HIDE DEF first
  <2> QED
    BY <2>1, RequestStep
<1>2. ASSUME NEW r \in Requests, PostRestart(r)
      PROVE  ConvergeInv'
  BY <1>2, RequestStep DEF PostRestart
<1>3. ASSUME NEW k \in SettingKeys, NEW v \in Values, HandEdit(k, v)
      PROVE  ConvergeInv'
  BY <1>3 DEF HandEdit, ConvergeInv, ReadIsCurrent, Attended, ApiConverges
<1>4. CASE UNCHANGED settingsVars
  BY <1>4 DEF settingsVars, ConvergeInv, ReadIsCurrent, Attended, ApiConverges, Quiet
<1> QED
  BY <1>1, <1>2, <1>3, <1>4, ContainerStep DEF SettingsNext

(* When all restarts are over the api container runs on the values of the  *)
(* file, however saves, restarts and failures of rsshub overlap, but for   *)
(* the reasons ApiConverges names (settings_restart, api/restart).         *)
THEOREM ApiRunsOnFile == SettingsSpec => []ApiConverges
<1>1. ConvergeInv => ApiConverges
  BY DEF ConvergeInv
<1> QED
  BY <1>1, ConvergeInitial, ConvergeStep, PTL DEF SettingsSpec

(* A change of RSSHub's variables leaves a request behind that recreates   *)
(* its container from the file.                                            *)
RsshubInv ==
  missed = {} /\ waiting = {} => \A k \in PassKeys : rsshub[k] = ValueIn(env, k)

LEMMA RsshubStep == SettingsFile /\ RsshubInv /\ [SettingsNext]_settingsVars => RsshubInv'
<1> SUFFICES ASSUME SettingsFile, RsshubInv, [SettingsNext]_settingsVars, missed' = {}, waiting' = {}
             PROVE  \A k \in PassKeys : rsshub'[k] = ValueIn(env', k)
  BY DEF RsshubInv
<1>1. ASSUME NEW r \in Requests, NEW named \in SUBSET SettingKeys, NEW deletions \in SUBSET SettingKeys,
             NEW changes \in [named -> Values \cup {Mask}],
             \A k \in named : changes[k] = Mask => k \in Secrets, Save(r, changes, deletions)
      PROVE  \A k \in PassKeys : rsshub'[k] = ValueIn(env', k)
  <2>1. Touched(env, changes, deletions) \cap PassKeys = {}
    BY <1>1 DEF Save, Restart
  <2>2. Permitted(changes, env)
    BY <1>1, SavesArePermitted
  <2>3. \A k \in PassKeys : ValueIn(env', k) = ValueIn(env, k)
    BY <1>1, <2>1, <2>2, AppliedKeepsValues DEF Save, SettingsFile, SettingKeys
  <2>4. missed = {} /\ waiting = {} /\ rsshub' = rsshub
    BY <1>1, <2>1 DEF Save, Restart
  <2> QED
    BY <2>3, <2>4 DEF RsshubInv
<1>2. ASSUME NEW r \in Requests, PostRestart(r)
      PROVE  FALSE
  BY <1>2 DEF PostRestart, Restart
<1>3. ASSUME NEW r \in Requests, NEW good \in BOOLEAN, RestartRsshub(r, good)
      PROVE  \A k \in PassKeys : rsshub'[k] = ValueIn(env', k)
  <2>1. rsshub' = ValuesOf(env) /\ env' = env
    BY <1>3 DEF RestartRsshub
  <2> QED
    BY <2>1 DEF ValuesOf, SettingKeys, ValueIn, LinesOf
<1>4. ASSUME NEW k \in SettingKeys, NEW v \in Values, HandEdit(k, v)
      PROVE  FALSE
  BY <1>4 DEF HandEdit
<1>5. CASE FallBack
  BY <1>5 DEF FallBack
<1>6. CASE SpawnHelper \/ HelperReads \/ HelperRecreates \/ UNCHANGED settingsVars
  <2>1. missed = {} /\ waiting = {} /\ rsshub' = rsshub /\ env' = env
    BY <1>6 DEF SpawnHelper, HelperReads, HelperRecreates, Renewed, settingsVars
  <2> QED
    BY <2>1 DEF RsshubInv, ValueIn, LinesOf
<1> QED
  BY <1>1, <1>2, <1>3, <1>4, <1>5, <1>6 DEF SettingsNext

(* When all restarts are over both containers run on the values of the     *)
(* file, but for the reasons RestartsConverge names (settings_restart,     *)
(* api/restart, api/settings).                                             *)
THEOREM ContainersRunOnFile == SettingsSpec => []RestartsConverge
<1> DEFINE SInv == SettingsFile /\ RsshubInv /\ ConvergeInv
<1>1. SettingsInit => SInv
  <2> SUFFICES ASSUME SettingsInit PROVE RsshubInv
    BY SettingsInitial, ConvergeInitial
  <2>1. ConvergeInv
    BY ConvergeInitial
  <2>2. running = rsshub /\ Quiet /\ missed = {}
    BY DEF SettingsInit, Quiet
  <2> QED
    BY <2>1, <2>2 DEF ConvergeInv, ApiConverges, RsshubInv, ValuesOf, SettingKeys
<1>2. SInv /\ [SettingsNext]_settingsVars => SInv'
  BY SettingsFileStep, RsshubStep, ConvergeStep
<1>3. SInv => RestartsConverge
  BY DEF RestartsConverge, RsshubConverges, Quiet, RsshubInv, ConvergeInv
<1> QED
  BY <1>1, <1>2, <1>3, PTL DEF SettingsSpec

-----------------------------------------------------------------------------
(* events.md *)

UpdateFold == INSTANCE Folding WITH Op <- ApplyUpdate
DedupFold == INSTANCE Folding WITH Op <- DedupStep
DistillFold == INSTANCE Folding WITH Op <- DistillStep

Threads == Seq(Thread)

Covers(t, u) == \A i \in DOMAIN t : \E j \in DOMAIN u : DaysOf(t[i]) \subseteq DaysOf(u[j])

(* What is made of t loses no day of it, and has no key twice but for t. *)
Keeps(t, u) == u \in Threads /\ (UniqueKeys(t) => UniqueKeys(u)) /\ Covers(t, u)

LEMMA CoversTransitive ==
  ASSUME NEW t, NEW u, NEW v, Covers(t, u), Covers(u, v)
  PROVE  Covers(t, v)
<1> SUFFICES ASSUME NEW i \in DOMAIN t
             PROVE  \E j \in DOMAIN v : DaysOf(t[i]) \subseteq DaysOf(v[j])
  BY DEF Covers
<1>1. PICK k \in DOMAIN u : DaysOf(t[i]) \subseteq DaysOf(u[k])
  BY DEF Covers
<1>2. PICK j \in DOMAIN v : DaysOf(u[k]) \subseteq DaysOf(v[j])
  BY DEF Covers
<1> QED
  BY <1>1, <1>2

LEMMA KeepsTransitive ==
  ASSUME NEW t, NEW u, NEW v, Keeps(t, u), Keeps(u, v)
  PROVE  Keeps(t, v)
  BY CoversTransitive DEF Keeps

LEMMA RenderedKeeps ==
  ASSUME NEW t \in Threads
  PROVE  Keeps(t, Rendered(t))
<1> DEFINE I == {i \in DOMAIN t : t[i].archived}
           J == DOMAIN t \ I
           a == Subsequence(t, J)
           b == Subsequence(t, I)
           n == Len(t)
<1>1. I \cap (1..n) = I /\ J \cap (1..n) = J /\ I \cap J = {} /\ I \cup J = DOMAIN t
      /\ DOMAIN t = 1..n
  <2>1. DOMAIN t = 1..n
    BY DEF Threads
  <2>2. I \subseteq DOMAIN t /\ J \subseteq DOMAIN t /\ I \cap J = {} /\ I \cup J = DOMAIN t
    OBVIOUS
  <2> HIDE DEF I, J, n
  <2> QED
    BY <2>1, <2>2
<1>2. Rendered(t) = a \o b
  BY DEF Rendered
<1> HIDE DEF I, J
<1>3. PICK m \in Nat : \E p : Picks(p, m, J \cap (1..n)) /\ a = Picked(t, p, m)
  BY SubsequencePicks DEF Threads
<1>4. PICK p : Picks(p, m, J) /\ a = Picked(t, p, m)
  BY <1>1, <1>3
<1>5. PICK k \in Nat : \E q : Picks(q, k, I \cap (1..n)) /\ b = Picked(t, q, k)
  BY SubsequencePicks DEF Threads
<1>6. PICK q : Picks(q, k, I) /\ b = Picked(t, q, k)
  BY <1>1, <1>5
<1> HIDE DEF a, b
<1>7. \A i \in 1..m : p[i] \in J /\ p[i] \in DOMAIN t /\ a[i] = t[p[i]] /\ t[p[i]] \in Thread
  BY <1>1, <1>4 DEF Picks, Picked, Threads
<1>8. \A i \in 1..k : q[i] \in I /\ q[i] \in DOMAIN t /\ b[i] = t[q[i]] /\ t[q[i]] \in Thread
  BY <1>1, <1>6 DEF Picks, Picked, Threads
<1>9. a \in Threads /\ Len(a) = m
  <2>1. a \in [1..m -> Thread]
    BY <1>4, <1>7 DEF Picked
  <2> QED
    BY <2>1 DEF Threads
<1>10. b \in Threads /\ Len(b) = k
  <2>1. b \in [1..k -> Thread]
    BY <1>6, <1>8 DEF Picked
  <2> QED
    BY <2>1 DEF Threads
<1> DEFINE u == a \o b
           r == [i \in 1..(m + k) |-> IF i <= m THEN p[i] ELSE q[i - m]]
<1>11. u \in Threads /\ DOMAIN u = 1..(m + k)
  BY <1>9, <1>10 DEF Threads
<1>12. ASSUME NEW i \in 1..(m + k)
       PROVE  u[i] = t[r[i]] /\ r[i] \in DOMAIN t
  <2>1. CASE i <= m
    BY <1>7, <1>9, <1>10, <2>1 DEF Threads
  <2>2. CASE ~(i <= m)
    <3>1. i - m \in 1..k
      BY <2>2
    <3>2. u[i] = b[i - m]
      BY <1>9, <1>10, <2>2 DEF Threads
    <3> QED
      BY <1>8, <2>2, <3>1, <3>2
  <2> QED
    BY <2>1, <2>2
<1>13. \A i, j \in 1..(m + k) : r[i] = r[j] => i = j
  <2> SUFFICES ASSUME NEW i \in 1..(m + k), NEW j \in 1..(m + k), r[i] = r[j]
               PROVE  i = j
    OBVIOUS
  <2>1. CASE i <= m /\ j <= m
    BY <1>4, <2>1 DEF Picks
  <2>2. CASE ~(i <= m) /\ ~(j <= m)
    <3>1. i - m \in 1..k /\ j - m \in 1..k /\ q[i - m] = q[j - m]
      BY <2>2
    <3>2. i - m = j - m
      BY <1>6, <3>1 DEF Picks
    <3> QED
      BY <3>2
  <2>3. CASE i <= m /\ ~(j <= m)
    <3>1. j - m \in 1..k /\ i \in 1..m /\ p[i] = q[j - m]
      BY <2>3
    <3> QED
      BY <1>1, <1>7, <1>8, <3>1
  <2>4. CASE ~(i <= m) /\ j <= m
    <3>1. i - m \in 1..k /\ j \in 1..m /\ p[j] = q[i - m]
      BY <2>4
    <3> QED
      BY <1>1, <1>7, <1>8, <3>1
  <2> QED
    BY <2>1, <2>2, <2>3, <2>4
<1>14. ASSUME NEW i \in DOMAIN t
       PROVE  \E j \in 1..(m + k) : r[j] = i
  <2>1. CASE i \in J
    <3>1. PICK j \in 1..m : p[j] = i
      BY <1>4, <2>1 DEF Picks
    <3>2. j \in 1..(m + k) /\ r[j] = i
      BY <3>1
    <3> QED
      BY <3>2
  <2>2. CASE i \in I
    <3>1. PICK j \in 1..k : q[j] = i
      BY <1>6, <2>2 DEF Picks
    <3>2. m + j \in 1..(m + k) /\ ~(m + j <= m) /\ (m + j) - m = j
      OBVIOUS
    <3>3. r[m + j] = i
      BY <3>1, <3>2
    <3> QED
      BY <3>2, <3>3
  <2> QED
    BY <1>1, <2>1, <2>2
<1> HIDE DEF u, r
<1>15. UniqueKeys(t) => UniqueKeys(u)
  BY <1>11, <1>12, <1>13 DEF UniqueKeys
<1>16. Covers(t, u)
  <2> SUFFICES ASSUME NEW i \in DOMAIN t
               PROVE  \E j \in DOMAIN u : DaysOf(t[i]) \subseteq DaysOf(u[j])
    BY DEF Covers
  <2>1. PICK j \in 1..(m + k) : r[j] = i
    BY <1>14
  <2>2. u[j] = t[i] /\ j \in DOMAIN u
    BY <1>11, <1>12, <2>1
  <2> QED
    BY <2>2
<1> QED
  BY <1>2, <1>11, <1>15, <1>16 DEF Keeps, u

LEMMA NewestIsADay ==
  ASSUME NEW D \in SUBSET (0..LastDay), D # {}
  PROVE  NewestOf(D) \in D
<1> DEFINE E == {e \in Nat : LastDay - e \in D}
<1>1. LastDay \in Nat
  BY IndexAssumption
<1>3. \A d \in D : LastDay - d \in E /\ LastDay - (LastDay - d) = d
  BY <1>1
<1>2. E \subseteq Nat /\ E # {}
  BY <1>3
<1>4. \A e \in E : LastDay - e \in D
  OBVIOUS
<1> HIDE DEF E
<1>5. PICK e \in E : \A f \in E : ~(<<f, e>> \in OpToRel(<, Nat))
  BY <1>2, WFMin, NatLessThanWellFounded
<1>6. \A f \in E : ~(f < e)
  BY <1>2, <1>5 DEF OpToRel
<1>7. LastDay - e \in D /\ \A d \in D : d <= LastDay - e
  BY <1>1, <1>2, <1>3, <1>4, <1>6
<1> QED
  BY <1>7 DEF NewestOf

LEMMA ParsedKeeps ==
  ASSUME NEW t \in Threads
  PROVE  Keeps(t, Parsed(t))
<1> DEFINE u == Parsed(t)
<1>1. u = [i \in DOMAIN t |->
             [t[i] EXCEPT !.last = NewestOf({t[i].last} \cup (IF t[i].last = 0 THEN DaysOf(t[i]) ELSE {}))]]
  BY DEF Parsed
<1>2. DOMAIN t = 1..Len(t) /\ Len(t) \in Nat /\ \A i \in DOMAIN t : t[i] \in Thread
  BY DEF Threads
<1>3. ASSUME NEW i \in DOMAIN t
      PROVE  u[i] \in Thread /\ u[i].key = t[i].key /\ u[i].lines = t[i].lines
  <2> DEFINE D == {t[i].last} \cup (IF t[i].last = 0 THEN DaysOf(t[i]) ELSE {})
  <2>1. t[i] \in Thread
    BY <1>2
  <2>2. D \in SUBSET (0..LastDay) /\ D # {}
    BY <2>1 DEF Thread, DaysOf, Line, Days
  <2>3. NewestOf(D) \in 0..LastDay
    <3> HIDE DEF D
    <3> QED
      BY <2>2, NewestIsADay
  <2>4. u[i] = [t[i] EXCEPT !.last = NewestOf(D)]
    BY <1>1
  <2> HIDE DEF D, u
  <2> QED
    BY <2>1, <2>3, <2>4 DEF Thread
<1>4. DOMAIN u = DOMAIN t
  BY <1>1
<1> HIDE DEF u
<1>5. u \in Threads
  <2>1. u \in [1..Len(t) -> Thread]
    BY <1>1, <1>2, <1>3
  <2> QED
    BY <1>2, <2>1 DEF Threads
<1>6. UniqueKeys(t) => UniqueKeys(u)
  BY <1>3, <1>4 DEF UniqueKeys
<1>7. Covers(t, u)
  BY <1>3, <1>4 DEF Covers, DaysOf
<1> QED
  BY <1>5, <1>6, <1>7 DEF Keeps, u

LEMMA ArchivedKeeps ==
  ASSUME NEW t \in Threads
  PROVE  Keeps(t, ArchiveExpired(t))
<1> DEFINE u == ArchiveExpired(t)
<1>1. u = [i \in DOMAIN t |->
             [t[i] EXCEPT !.archived = t[i].archived \/ (t[i].last # 0 /\ t[i].last < today - RetentionDays)]]
  BY DEF ArchiveExpired
<1>2. DOMAIN t = 1..Len(t) /\ Len(t) \in Nat /\ \A i \in DOMAIN t : t[i] \in Thread
  BY DEF Threads
<1>3. ASSUME NEW i \in DOMAIN t
      PROVE  u[i] \in Thread /\ u[i].key = t[i].key /\ u[i].lines = t[i].lines
  <2> DEFINE x == t[i].archived \/ (t[i].last # 0 /\ t[i].last < today - RetentionDays)
  <2>1. t[i] \in Thread
    BY <1>2
  <2>2. x \in BOOLEAN
    OBVIOUS
  <2>3. u[i] = [t[i] EXCEPT !.archived = x]
    BY <1>1
  <2> HIDE DEF x, u
  <2> QED
    BY <2>1, <2>2, <2>3 DEF Thread
<1>4. DOMAIN u = DOMAIN t
  BY <1>1
<1> HIDE DEF u
<1>5. u \in Threads
  <2>1. u \in [1..Len(t) -> Thread]
    BY <1>1, <1>2, <1>3
  <2> QED
    BY <1>2, <2>1 DEF Threads
<1>6. UniqueKeys(t) => UniqueKeys(u)
  BY <1>3, <1>4 DEF UniqueKeys
<1>7. Covers(t, u)
  BY <1>3, <1>4 DEF Covers, DaysOf
<1> QED
  BY <1>5, <1>6, <1>7 DEF Keeps, u

(* Lines put over others keep the days of both. *)
LEMMA OverlayDays ==
  ASSUME NEW old \in SUBSET Line, NEW new \in SUBSET Line
  PROVE  /\ Overlay(old, new) \in SUBSET Line
         /\ \A l \in old : \E m \in Overlay(old, new) : m[1] = l[1]
         /\ \A l \in new : \E m \in Overlay(old, new) : m[1] = l[1]
  BY DEF Overlay

LEMMA OneADayDays ==
  ASSUME NEW lines \in SUBSET Line
  PROVE  /\ OneADay(lines) \in SUBSET Line
         /\ \A l \in lines : \E m \in OneADay(lines) : m[1] = l[1]
<1>1. OneADay(lines) \in SUBSET Line
  BY DEF OneADay
<1>2. ASSUME NEW l \in lines
      PROVE  \E m \in OneADay(lines) : m[1] = l[1]
  <2>1. \A x \in lines : x[2] \in {"model", "hand"} /\ x = <<x[1], x[2]>>
    BY DEF Line
  <2>2. CASE \E m \in lines : m[1] = l[1] /\ m[2] = "model"
    <3>1. PICK m \in lines : m[1] = l[1] /\ m[2] = "model"
      BY <2>2
    <3>2. m \in OneADay(lines)
      BY <3>1 DEF OneADay
    <3> QED
      BY <3>1, <3>2
  <2>3. CASE ~\E m \in lines : m[1] = l[1] /\ m[2] = "model"
    <3>1. \A m \in lines : m[1] = l[1] => m[2] = "hand"
      BY <2>1, <2>3
    <3>2. \A m \in lines : m[1] = l[1] => m = l
      BY <2>1, <3>1
    <3>3. l \in OneADay(lines)
      BY <3>2 DEF OneADay
    <3> QED
      BY <3>3
  <2> QED
    BY <2>2, <2>3
<1> QED
  BY <1>1, <1>2

LEMMA LatestDay ==
  ASSUME NEW a \in 0..LastDay, NEW b \in 0..LastDay
  PROVE  Latest(a, b) \in 0..LastDay
  BY DEF Latest

(* One block of t is rewritten, and nothing else. *)
LEMMA OneBlockKeeps ==
  ASSUME NEW t \in Threads, NEW u, NEW h, DOMAIN u = DOMAIN t,
         \A i \in DOMAIN t : i # h => u[i] = t[i],
         h \in DOMAIN t => u[h] \in Thread /\ u[h].key = t[h].key /\ DaysOf(t[h]) \subseteq DaysOf(u[h]),
         u = [i \in DOMAIN t |-> u[i]]
  PROVE  Keeps(t, u)
<1>1. DOMAIN t = 1..Len(t) /\ Len(t) \in Nat /\ \A i \in DOMAIN t : t[i] \in Thread
  BY DEF Threads
<1>2. \A i \in DOMAIN t : u[i] \in Thread /\ u[i].key = t[i].key /\ DaysOf(t[i]) \subseteq DaysOf(u[i])
  BY <1>1
<1>3. u \in Threads
  <2>1. u \in [1..Len(t) -> Thread]
    BY <1>1, <1>2
  <2> QED
    BY <1>1, <2>1 DEF Threads
<1> QED
  BY <1>2, <1>3 DEF Keeps, UniqueKeys, Covers

LEMMA AppendKeeps ==
  ASSUME NEW t \in Threads, NEW b \in Thread
  PROVE  /\ Append(t, b) \in Threads /\ Covers(t, Append(t, b))
         /\ \E j \in DOMAIN Append(t, b) : Append(t, b)[j] = b
         /\ UniqueKeys(t) /\ b.key \notin KeysOf(t) => UniqueKeys(Append(t, b))
<1> DEFINE u == Append(t, b)
<1>1. Len(t) \in Nat /\ DOMAIN t = 1..Len(t)
  BY DEF Threads
<1>2. /\ u \in Threads /\ DOMAIN u = 1..(Len(t) + 1) /\ u[Len(t) + 1] = b
      /\ \A i \in 1..Len(t) : u[i] = t[i]
  BY DEF Threads
<1> HIDE DEF u
<1>3. Covers(t, u)
  BY <1>1, <1>2 DEF Covers
<1>4. \E j \in DOMAIN u : u[j] = b
  <2>1. Len(t) + 1 \in DOMAIN u
    BY <1>1, <1>2
  <2> QED
    BY <1>2, <2>1
<1>5. ASSUME UniqueKeys(t), b.key \notin KeysOf(t)
      PROVE  UniqueKeys(u)
  <2> SUFFICES ASSUME NEW i \in DOMAIN u, NEW j \in DOMAIN u, u[i].key = u[j].key
               PROVE  i = j
    BY DEF UniqueKeys
  <2>1. \A k \in 1..Len(t) : t[k].key # b.key
    BY <1>1, <1>5 DEF KeysOf
  <2>2. CASE i \in 1..Len(t) /\ j \in 1..Len(t)
    BY <1>1, <1>2, <1>5, <2>2 DEF UniqueKeys
  <2>3. CASE i = Len(t) + 1 \/ j = Len(t) + 1
    BY <1>1, <1>2, <2>1, <2>3
  <2> QED
    BY <1>1, <1>2, <2>2, <2>3
<1> QED
  BY <1>2, <1>3, <1>4, <1>5 DEF u

LEMMA UpdateKeeps ==
  ASSUME today \in Days, NEW t \in Threads, NEW u \in Update
  PROVE  Keeps(t, ApplyUpdate(t, u))
<1>1. today \in 0..LastDay /\ {<<today, "model">>} \in SUBSET Line
  BY IndexAssumption DEF Days, Line
<1>2. CASE u.key \in KeysOf(t)
  <2> DEFINE h == Holder(t, u.key)
             new == ApplyUpdate(t, u)
  <2>1. new = [i \in DOMAIN t |-> IF i = h
                 THEN [t[i] EXCEPT !.lines = Overlay(t[i].lines, {<<today, "model">>}),
                                   !.last = Latest(t[i].last, today)]
                 ELSE t[i]]
    BY <1>2 DEF ApplyUpdate, WithBlock
  <2> HIDE DEF h, new
  <2>2. ASSUME h \in DOMAIN t
        PROVE  new[h] \in Thread /\ new[h].key = t[h].key /\ DaysOf(t[h]) \subseteq DaysOf(new[h])
    <3> DEFINE l == Overlay(t[h].lines, {<<today, "model">>})
               d == Latest(t[h].last, today)
    <3>1. t[h] \in Thread
      BY <2>2 DEF Threads
    <3>2. t[h].lines \in SUBSET Line /\ t[h].last \in 0..LastDay
      BY <3>1 DEF Thread
    <3>3. /\ l \in SUBSET Line /\ d \in 0..LastDay
          /\ \A x \in t[h].lines : \E y \in l : y[1] = x[1]
      <4>1. d \in 0..LastDay
        BY <1>1, <3>2, LatestDay
      <4>2. l \in SUBSET Line /\ \A x \in t[h].lines : \E y \in l : y[1] = x[1]
        BY <1>1, <3>2, OverlayDays
      <4> QED
        BY <4>1, <4>2
    <3>4. new[h] = [t[h] EXCEPT !.lines = l, !.last = d]
      BY <2>1, <2>2
    <3> HIDE DEF l, d
    <3>5. new[h] \in Thread /\ new[h].key = t[h].key /\ new[h].lines = l
      BY <3>1, <3>3, <3>4 DEF Thread
    <3> QED
      BY <3>3, <3>5 DEF DaysOf
  <2>3. DOMAIN new = DOMAIN t /\ \A i \in DOMAIN t : i # h => new[i] = t[i]
    BY <2>1
  <2>4. new = [i \in DOMAIN t |-> new[i]]
    BY <2>1
  <2>5. Keeps(t, new)
    BY <2>2, <2>3, <2>4, OneBlockKeeps
  <2> QED
    BY <2>5 DEF new
<1>3. CASE u.key \notin KeysOf(t)
  <2>1. ApplyUpdate(t, u) = Append(t, NewThread(u.key))
    BY <1>3 DEF ApplyUpdate
  <2>2. NewThread(u.key) \in Thread /\ NewThread(u.key).key = u.key
    BY <1>1, IndexAssumption DEF NewThread, Thread, Update
  <2> QED
    BY <1>3, <2>1, <2>2, AppendKeeps DEF Keeps
<1> QED
  BY <1>2, <1>3

LEMMA MergedKeeps ==
  ASSUME today \in Days, NEW t \in Threads, NEW n \in Nat, NEW updates \in [1..n -> Update]
  PROVE  Keeps(t, Merged(t, updates))
<1> DEFINE a == Parsed(t)
           b == FoldLeft(ApplyUpdate, a, updates)
           c == ArchiveExpired(b)
           S == [i \in 0..n |-> {x \in Threads : Keeps(a, x)}]
<1>1. Keeps(t, a)
  BY ParsedKeeps
<1>2. a \in Threads
  BY <1>1 DEF Keeps
<1> HIDE DEF a
<1>3. b = UpdateFold!Folded(a, updates)
  BY DEF UpdateFold!Folded, FoldLeft, MapThenFoldSet, Max,
         UpdateFold!FoldLeft, UpdateFold!MapThenFoldSet, UpdateFold!Max
<1>4. a \in S[0]
  <2>1. Keeps(a, a)
    BY <1>2 DEF Keeps, Covers
  <2> QED
    BY <1>2, <2>1
<1>5. ASSUME NEW i \in 0..(n - 1), NEW x \in S[i]
      PROVE  ApplyUpdate(x, updates[i + 1]) \in S[i + 1]
  <2>1. x \in Threads /\ Keeps(a, x) /\ updates[i + 1] \in Update /\ i + 1 \in 0..n
    OBVIOUS
  <2>2. Keeps(x, ApplyUpdate(x, updates[i + 1]))
    BY <2>1, UpdateKeeps
  <2>3. Keeps(a, ApplyUpdate(x, updates[i + 1]))
    BY <2>1, <2>2, KeepsTransitive
  <2> QED
    BY <2>1, <2>3 DEF Keeps
<1>6. DOMAIN updates = 1..n
  OBVIOUS
<1> HIDE DEF S, b
<1>7. b \in S[n]
  BY <1>3, <1>4, <1>5, <1>6, UpdateFold!FoldStays
<1>8. b \in Threads /\ Keeps(a, b)
  BY <1>7 DEF S
<1>9. Keeps(b, c)
  BY <1>8, ArchivedKeeps
<1>10. c \in Threads
  BY <1>9 DEF Keeps
<1> HIDE DEF c
<1>11. Keeps(c, Rendered(c))
  BY <1>10, RenderedKeeps
<1>12. Keeps(t, Rendered(c))
  BY <1>1, <1>8, <1>9, <1>11, KeepsTransitive
<1> QED
  BY <1>12 DEF Merged, a, b, c

LEMMA HolderHolds ==
  ASSUME NEW t \in Threads, NEW k \in KeysOf(t)
  PROVE  Holder(t, k) \in DOMAIN t /\ t[Holder(t, k)].key = k
<1> DEFINE S == {i \in DOMAIN t : t[i].key = k}
<1>1. S \in SUBSET (1..Len(t)) /\ S # {} /\ Len(t) \in Nat
  BY DEF KeysOf, Threads
<1>2. \A i \in DOMAIN t : t[i].key = k => i \in S
  OBVIOUS
<1>3. \A i \in S : i \in DOMAIN t /\ t[i].key = k
  OBVIOUS
<1> HIDE DEF S
<1>4. Max(S) \in S /\ \A i \in S : i <= Max(S)
  BY <1>1, MaxIsLast
<1>5. \E i \in DOMAIN t : t[i].key = k /\ \A j \in DOMAIN t : t[j].key = k => j <= i
  BY <1>2, <1>3, <1>4
<1> QED
  BY <1>5 DEF Holder

(* One block of the lint: its days are in a block of what has been kept.   *)
LEMMA DedupStepKeeps ==
  ASSUME NEW t \in Threads, UniqueKeys(t), NEW b \in Thread
  PROVE  /\ Keeps(t, DedupStep(t, b)) /\ UniqueKeys(DedupStep(t, b))
         /\ \E j \in DOMAIN DedupStep(t, b) : DaysOf(b) \subseteq DaysOf(DedupStep(t, b)[j])
<1> DEFINE own == OneADay(b.lines)
<1>1. b.lines \in SUBSET Line /\ b.last \in 0..LastDay
  BY DEF Thread
<1>2. own \in SUBSET Line /\ \A x \in b.lines : \E y \in own : y[1] = x[1]
  BY <1>1, OneADayDays
<1> DEFINE new == DedupStep(t, b)
<1>3. CASE b.key \in KeysOf(t)
  <2> DEFINE h == Holder(t, b.key)
  <2>1. new = [i \in DOMAIN t |-> IF i = h
                 THEN [t[i] EXCEPT !.lines = Overlay(t[i].lines, own),
                                   !.last = Latest(t[i].last, b.last)]
                 ELSE t[i]]
    BY <1>3 DEF DedupStep, WithBlock
  <2>2. h \in DOMAIN t
    BY <1>3, HolderHolds
  <2> HIDE DEF h, new, own
  <2> DEFINE l == Overlay(t[h].lines, own)
             d == Latest(t[h].last, b.last)
  <2>3. t[h] \in Thread
    BY <2>2 DEF Threads
  <2>4. t[h].lines \in SUBSET Line /\ t[h].last \in 0..LastDay
    BY <2>3 DEF Thread
  <2>5. d \in 0..LastDay
    BY <1>1, <2>4, LatestDay
  <2>6. /\ l \in SUBSET Line
        /\ \A x \in t[h].lines : \E y \in l : y[1] = x[1]
        /\ \A x \in own : \E y \in l : y[1] = x[1]
    BY <1>2, <2>4, OverlayDays
  <2>7. new[h] = [t[h] EXCEPT !.lines = l, !.last = d]
    BY <2>1, <2>2
  <2> HIDE DEF l, d
  <2>8. new[h] \in Thread /\ new[h].key = t[h].key /\ new[h].lines = l
    BY <2>3, <2>5, <2>6, <2>7 DEF Thread
  <2>9. DaysOf(t[h]) \subseteq DaysOf(new[h])
    BY <2>6, <2>8 DEF DaysOf
  <2>10. DaysOf(b) \subseteq DaysOf(new[h])
    <3>1. \A x \in b.lines : \E y \in l : y[1] = x[1]
      BY <1>2, <2>6
    <3> QED
      BY <2>8, <3>1 DEF DaysOf
  <2>11. DOMAIN new = DOMAIN t /\ \A i \in DOMAIN t : i # h => new[i] = t[i]
    BY <2>1
  <2>12. new = [i \in DOMAIN t |-> new[i]]
    BY <2>1
  <2>13. Keeps(t, new)
    BY <2>8, <2>9, <2>11, <2>12, OneBlockKeeps
  <2> QED
    BY <2>2, <2>10, <2>11, <2>13 DEF Keeps, new
<1>4. CASE b.key \notin KeysOf(t)
  <2> DEFINE c == [b EXCEPT !.lines = own]
  <2>1. new = Append(t, c)
    BY <1>4 DEF DedupStep
  <2> HIDE DEF own
  <2>2. c \in Thread /\ c.key = b.key /\ c.lines = own
    BY <1>2 DEF Thread
  <2>3. DaysOf(b) \subseteq DaysOf(c)
    <3> HIDE DEF c
    <3> QED
      BY <1>2, <2>2 DEF DaysOf
  <2> HIDE DEF c, new
  <2>4. /\ new \in Threads /\ Covers(t, new) /\ UniqueKeys(new)
        /\ \E j \in DOMAIN new : new[j] = c
    BY <1>4, <2>1, <2>2, AppendKeeps
  <2> QED
    BY <2>3, <2>4 DEF Keeps, new
<1> QED
  BY <1>3, <1>4

(* After the lint no key is there twice, whatever the file was.            *)
LEMMA LintedKeeps ==
  ASSUME NEW t \in Threads
  PROVE  Keeps(t, Linted(t)) /\ UniqueKeys(Linted(t))
<1> DEFINE a == Parsed(t)
           b == FoldLeft(DedupStep, <<>>, a)
           c == Rendered(b)
           d == Parsed(c)
           e == ArchiveExpired(d)
           n == Len(a)
           S == [i \in 0..n |-> {x \in Threads :
                   /\ UniqueKeys(x)
                   /\ \A j \in 1..i : \E m \in DOMAIN x : DaysOf(a[j]) \subseteq DaysOf(x[m])}]
<1>1. Keeps(t, a)
  BY ParsedKeeps
<1>2. a \in Threads
  BY <1>1 DEF Keeps
<1> HIDE DEF a
<1>3. b = DedupFold!Folded(<<>>, a)
  BY DEF DedupFold!Folded, FoldLeft, MapThenFoldSet, Max,
         DedupFold!FoldLeft, DedupFold!MapThenFoldSet, DedupFold!Max
<1>4. n \in Nat /\ DOMAIN a = 1..n /\ \A i \in 1..n : a[i] \in Thread
  BY <1>2 DEF Threads
<1> HIDE DEF n
<1>5. <<>> \in S[0]
  BY <1>4 DEF UniqueKeys, Threads
<1>6. ASSUME NEW i \in 0..(n - 1), NEW x \in S[i]
      PROVE  DedupStep(x, a[i + 1]) \in S[i + 1]
  <2>1. /\ x \in Threads /\ UniqueKeys(x)
        /\ \A j \in 1..i : \E m \in DOMAIN x : DaysOf(a[j]) \subseteq DaysOf(x[m])
    <3>1. i \in 0..n
      BY <1>4
    <3>2. S[i] = {y \in Threads :
                   /\ UniqueKeys(y)
                   /\ \A j \in 1..i : \E m \in DOMAIN y : DaysOf(a[j]) \subseteq DaysOf(y[m])}
      BY <3>1
    <3> HIDE DEF S
    <3> QED
      BY <3>2
  <2>2. a[i + 1] \in Thread /\ i + 1 \in 0..n
    BY <1>4
  <2> DEFINE y == DedupStep(x, a[i + 1])
  <2>3. /\ Keeps(x, y) /\ UniqueKeys(y)
        /\ \E m \in DOMAIN y : DaysOf(a[i + 1]) \subseteq DaysOf(y[m])
    BY <2>1, <2>2, DedupStepKeeps
  <2> HIDE DEF y
  <2>4. ASSUME NEW j \in 1..(i + 1)
        PROVE  \E m \in DOMAIN y : DaysOf(a[j]) \subseteq DaysOf(y[m])
    <3>1. CASE j = i + 1
      BY <2>3, <3>1
    <3>2. CASE j \in 1..i
      <4>1. PICK m \in DOMAIN x : DaysOf(a[j]) \subseteq DaysOf(x[m])
        BY <2>1, <3>2
      <4>2. PICK l \in DOMAIN y : DaysOf(x[m]) \subseteq DaysOf(y[l])
        BY <2>3 DEF Keeps, Covers
      <4> QED
        BY <4>1, <4>2
    <3> QED
      BY <1>4, <3>1, <3>2
  <2>5. y \in S[i + 1]
    BY <2>2, <2>3, <2>4 DEF Keeps
  <2> QED
    BY <2>5 DEF y
<1> HIDE DEF S, b
<1>7. b \in S[n]
  BY <1>3, <1>4, <1>5, <1>6, DedupFold!FoldStays
<1>8. b \in Threads /\ UniqueKeys(b) /\ Keeps(a, b)
  <2>1. n \in 0..n
    BY <1>4
  <2>2. /\ b \in Threads /\ UniqueKeys(b)
        /\ \A j \in 1..n : \E m \in DOMAIN b : DaysOf(a[j]) \subseteq DaysOf(b[m])
    BY <1>7, <2>1 DEF S
  <2> QED
    BY <1>4, <2>2 DEF Keeps, Covers
<1>9. c \in Threads /\ UniqueKeys(c) /\ Keeps(b, c)
  BY <1>8, RenderedKeeps DEF Keeps
<1> HIDE DEF c
<1>10. d \in Threads /\ UniqueKeys(d) /\ Keeps(c, d)
  BY <1>9, ParsedKeeps DEF Keeps
<1> HIDE DEF d
<1>11. e \in Threads /\ UniqueKeys(e) /\ Keeps(d, e)
  BY <1>10, ArchivedKeeps DEF Keeps
<1> HIDE DEF e
<1>12. UniqueKeys(Rendered(e)) /\ Keeps(e, Rendered(e))
  BY <1>11, RenderedKeeps DEF Keeps
<1>13. Keeps(t, Rendered(e))
  BY <1>1, <1>8, <1>9, <1>10, <1>11, <1>12, KeepsTransitive
<1> QED
  BY <1>12, <1>13 DEF Linted, a, b, c, d, e

(* The threads of a group become one, unless there are fewer than two.     *)
LEMMA GroupedKeeps ==
  ASSUME NEW t \in Threads, NEW group, NEW canonical
  PROVE  /\ Grouped(t, group, canonical) \in Threads
         /\ UniqueKeys(t) => Covers(t, Grouped(t, group, canonical))
<1> DEFINE present == group \cap KeysOf(t)
           canon == IF canonical \in present THEN canonical ELSE CHOOSE k \in present : TRUE
           members == {Holder(t, k) : k \in present}
           all == UNION {t[i].lines : i \in members}
           lasts == {t[i].last : i \in members}
           h == Holder(t, canon)
           u == [i \in DOMAIN t |-> IF i = h
                   THEN [t[i] EXCEPT !.lines = OneADay(all), !.last = NewestOf(lasts)]
                   ELSE t[i]]
           gone == present \ {canon}
           v == WithoutKeys(u, gone)
<1>1. CASE Cardinality(present) < 2
  <2>1. Grouped(t, group, canonical) = t
    BY <1>1 DEF Grouped
  <2> QED
    BY <2>1 DEF Covers
<1>2. CASE ~(Cardinality(present) < 2)
  <2>1. Grouped(t, group, canonical) = Rendered(v)
    BY <1>2 DEF Grouped, WithBlock
  <2>2. present # {}
    BY <1>2, FS_EmptySet
  <2>3. canon \in present /\ present \subseteq KeysOf(t)
    BY <2>2
  <2> HIDE DEF present, canon
  <2>4. \A k \in present : Holder(t, k) \in DOMAIN t /\ t[Holder(t, k)].key = k
    BY <2>3, HolderHolds
  <2>5. /\ h \in members /\ h \in DOMAIN t /\ t[h].key = canon /\ members \subseteq DOMAIN t
        /\ \A k \in present : Holder(t, k) \in members
    BY <2>3, <2>4
  <2> HIDE DEF h, members
  <2>6. /\ DOMAIN t = 1..Len(t) /\ Len(t) \in Nat /\ \A i \in DOMAIN t : t[i] \in Thread
    BY DEF Threads
  <2>7. \A i \in DOMAIN t : t[i].lines \in SUBSET Line /\ t[i].last \in 0..LastDay
    BY <2>6 DEF Thread
  <2>8. all \in SUBSET Line /\ \A i \in members : t[i].lines \subseteq all
    BY <2>5, <2>7
  <2>9. NewestOf(lasts) \in 0..LastDay
    <3>1. lasts \in SUBSET (0..LastDay) /\ lasts # {}
      BY <2>5, <2>7
    <3> HIDE DEF lasts
    <3> QED
      BY <3>1, NewestIsADay
  <2>10. OneADay(all) \in SUBSET Line /\ \A x \in all : \E y \in OneADay(all) : y[1] = x[1]
    <3> HIDE DEF all
    <3> QED
      BY <2>8, OneADayDays
  <2> DEFINE lines == OneADay(all)
             last == NewestOf(lasts)
  <2>11. /\ DOMAIN u = DOMAIN t /\ \A i \in DOMAIN t : i # h => u[i] = t[i]
         /\ u[h] = [t[h] EXCEPT !.lines = lines, !.last = last]
    BY <2>5
  <2>12. u = [i \in DOMAIN t |-> u[i]]
    OBVIOUS
  <2>13. lines \in SUBSET Line /\ last \in 0..LastDay /\ \A x \in all : \E y \in lines : y[1] = x[1]
    BY <2>9, <2>10
  <2> HIDE DEF u, lines, last, all, lasts
  <2>14. u[h] \in Thread /\ u[h].key = canon /\ u[h].lines = lines
    <3>1. t[h] \in Thread
      BY <2>5, <2>6
    <3> QED
      BY <2>5, <2>11, <2>13, <3>1 DEF Thread
  <2>15. \A i \in members : DaysOf(t[i]) \subseteq DaysOf(u[h])
    <3>1. \A i \in members : \A x \in t[i].lines : \E y \in u[h].lines : y[1] = x[1]
      BY <2>8, <2>13, <2>14
    <3> QED
      BY <3>1 DEF DaysOf
  <2>16. Keeps(t, u)
    <3>1. h \in DOMAIN t => u[h] \in Thread /\ u[h].key = t[h].key /\ DaysOf(t[h]) \subseteq DaysOf(u[h])
      BY <2>5, <2>14, <2>15
    <3>2. DOMAIN u = DOMAIN t /\ \A i \in DOMAIN t : i # h => u[i] = t[i]
      BY <2>11
    <3> QED
      BY <2>12, <3>1, <3>2, OneBlockKeeps
  <2>17. u \in Threads /\ DOMAIN u = 1..Len(u)
    BY <2>16 DEF Keeps, Threads
  <2> DEFINE I == {i \in DOMAIN u : u[i].key \notin gone}
  <2>18. v = Subsequence(u, I)
    BY DEF WithoutKeys
  <2>19. /\ v \in Threads
         /\ \A i \in I \cap (1..Len(u)) : \E j \in 1..Len(v) : v[j] = u[i]
    <3> HIDE DEF I, v
    <3> QED
      BY <2>17, <2>18, SubsequenceElements DEF Threads
  <2>20. \A i \in I : \E j \in DOMAIN v : v[j] = u[i]
    <3> HIDE DEF v, gone
    <3> QED
      BY <2>17, <2>19 DEF Threads
  <2>21. h \in I
    BY <2>5, <2>11, <2>14
  <2>22. ASSUME UniqueKeys(t), NEW i \in DOMAIN t
         PROVE  \E j \in DOMAIN v : DaysOf(t[i]) \subseteq DaysOf(v[j])
    <3>1. CASE t[i].key \in present
      <4>1. Holder(t, t[i].key) \in DOMAIN t /\ t[Holder(t, t[i].key)].key = t[i].key
        BY <2>4, <3>1
      <4>2. i = Holder(t, t[i].key)
        BY <2>22, <4>1 DEF UniqueKeys
      <4>3. i \in members
        BY <2>5, <3>1, <4>2
      <4>4. DaysOf(t[i]) \subseteq DaysOf(u[h])
        BY <2>15, <4>3
      <4> HIDE DEF v, I
      <4>5. PICK j \in DOMAIN v : v[j] = u[h]
        BY <2>20, <2>21
      <4> QED
        BY <4>4, <4>5
    <3>2. CASE t[i].key \notin present
      <4>1. i # h
        BY <2>3, <2>5, <3>2
      <4>2. u[i] = t[i] /\ i \in DOMAIN u
        BY <2>11, <4>1
      <4>3. i \in I
        BY <3>2, <4>2
      <4> HIDE DEF v, I
      <4>4. PICK j \in DOMAIN v : v[j] = u[i]
        BY <2>20, <4>3
      <4> QED
        BY <4>2, <4>4
    <3> QED
      BY <3>1, <3>2
  <2>23. UniqueKeys(t) => Covers(t, v)
    BY <2>22 DEF Covers
  <2> HIDE DEF v
  <2>24. Keeps(v, Rendered(v))
    BY <2>19, RenderedKeeps
  <2> QED
    BY <2>1, <2>23, <2>24, CoversTransitive DEF Keeps
<1> QED
  BY <1>1, <1>2

(* The key of a new thread is nobody else's: fewer threads than suffixes.  *)
LEMMA FreshKeyIsFresh ==
  ASSUME NEW t \in Threads, Len(t) < MaxThreads, NEW key \in Seq(Nat)
  PROVE  FreshKey(KeysOf(t), key) \in Seq(Nat) /\ FreshKey(KeysOf(t), key) \notin KeysOf(t)
<1> DEFINE used == KeysOf(t)
<1>1. CASE key \notin used
  BY <1>1 DEF FreshKey
<1>2. CASE key \in used
  <2> DEFINE A == 2..(MaxThreads + 1)
             F == {n \in A : Append(key, n) \notin used}
  <2>1. MaxThreads \in Nat /\ Len(t) \in Nat /\ DOMAIN t = 1..Len(t)
    BY IndexAssumption DEF Threads
  <2>2. F # {}
    <3> SUFFICES ASSUME F = {}
                 PROVE  FALSE
      OBVIOUS
    <3>1. \A n \in A : \E i \in 1..Len(t) : t[i].key = Append(key, n)
      BY <2>1 DEF KeysOf
    <3> DEFINE f == [n \in A |-> CHOOSE i \in 1..Len(t) : t[i].key = Append(key, n)]
    <3>2. f \in [A -> 1..Len(t)] /\ \A n \in A : t[f[n]].key = Append(key, n)
      BY <3>1
    <3>3. IsFiniteSet(A) /\ Cardinality(A) = MaxThreads
      <4>1. \A b \in Int : IsFiniteSet(2..b) /\ Cardinality(2..b) = IF 2 > b THEN 0 ELSE b - 2 + 1
        BY FS_Interval
      <4>2. MaxThreads + 1 \in Int
        BY <2>1
      <4> QED
        BY <2>1, <4>1, <4>2
    <3>4. IsFiniteSet(1..Len(t)) /\ Cardinality(1..Len(t)) = Len(t)
      <4>1. \A b \in Int : IsFiniteSet(1..b) /\ Cardinality(1..b) = IF 1 > b THEN 0 ELSE b - 1 + 1
        BY FS_Interval
      <4> QED
        BY <2>1, <4>1
    <3> HIDE DEF f, A
    <3>5. PICK x \in A, y \in A : x # y /\ f[x] = f[y]
      BY <3>2, <3>3, <3>4, FS_PigeonHole
    <3>6. Append(key, x) = Append(key, y)
      BY <3>2, <3>5
    <3>7. Append(key, x)[Len(key) + 1] = x /\ Append(key, y)[Len(key) + 1] = y
      OBVIOUS
    <3> QED
      BY <3>5, <3>6, <3>7
  <2>3. F \subseteq Nat
    OBVIOUS
  <2>4. PICK n \in F : \A m \in F : ~(<<m, n>> \in OpToRel(<, Nat))
    <3> HIDE DEF F
    <3> QED
      BY <2>2, <2>3, WFMin, NatLessThanWellFounded
  <2>5. \A m \in F : ~(m < n)
    <3> HIDE DEF F
    <3> QED
      BY <2>3, <2>4 DEF OpToRel
  <2>6. n \in A /\ Append(key, n) \notin used /\ \A m \in 2..(n - 1) : Append(key, m) \in used
    <3> SUFFICES ASSUME NEW m \in 2..(n - 1), Append(key, m) \notin used
                 PROVE  FALSE
      OBVIOUS
    <3>1. n \in 2..(MaxThreads + 1)
      OBVIOUS
    <3>2. m \in 2..(MaxThreads + 1) /\ m < n
      BY <2>1, <3>1
    <3> HIDE DEF used
    <3> QED
      BY <2>5, <3>2
  <2> DEFINE c == CHOOSE m \in 2..(MaxThreads + 1) :
                     /\ Append(key, m) \notin used
                     /\ \A l \in 2..(m - 1) : Append(key, l) \in used
  <2>7. c \in 2..(MaxThreads + 1) /\ Append(key, c) \notin used
    <3> HIDE DEF used
    <3> QED
      BY <2>6
  <2>8. FreshKey(used, key) = Append(key, c)
    BY <1>2 DEF FreshKey
  <2> HIDE DEF c, used
  <2>9. Append(key, c) \in Seq(Nat)
    BY <2>1, <2>7
  <2> QED
    BY <2>7, <2>8, <2>9 DEF used
<1> QED
  BY <1>1, <1>2

(* The cold start, for an answer of at most MaxThreads threads. *)
LEMMA DistilledHasUniqueKeys ==
  ASSUME today \in Days, NEW n \in 0..MaxThreads, NEW answer \in [1..n -> Answer]
  PROVE  Distilled(answer) \in Threads /\ UniqueKeys(Distilled(answer))
<1> DEFINE b == FoldLeft(DistillStep, <<>>, answer)
           S == [i \in 0..n |-> {x \in Threads : UniqueKeys(x) /\ Len(x) = i}]
<1>1. n \in Nat /\ n <= MaxThreads /\ MaxThreads \in Nat
  BY IndexAssumption
<1>2. b = DistillFold!Folded(<<>>, answer)
  BY DEF DistillFold!Folded, FoldLeft, MapThenFoldSet, Max,
         DistillFold!FoldLeft, DistillFold!MapThenFoldSet, DistillFold!Max
<1>3. <<>> \in S[0]
  BY <1>1 DEF UniqueKeys, Threads
<1>4. ASSUME NEW i \in 0..(n - 1), NEW x \in S[i]
      PROVE  DistillStep(x, answer[i + 1]) \in S[i + 1]
  <2>1. x \in Threads /\ UniqueKeys(x) /\ Len(x) = i /\ i < MaxThreads /\ i + 1 \in 0..n /\ i \in Nat
    BY <1>1
  <2> DEFINE t == answer[i + 1]
             k == FreshKey(KeysOf(x), t.key)
             block == [key |-> k, archived |-> FALSE, last |-> t.day, lines |-> {<<t.day, "model">>}]
  <2>2. t \in Answer
    BY <1>1
  <2>3. t.key \in Seq(Nat) /\ t.day \in 1..LastDay
    BY <2>2, IndexAssumption DEF Answer, Days
  <2> HIDE DEF t
  <2>4. k \in Seq(Nat) /\ k \notin KeysOf(x)
    BY <2>1, <2>3, FreshKeyIsFresh
  <2> HIDE DEF k
  <2>5. block \in Thread /\ block.key = k
    <3>1. {<<t.day, "model">>} \in SUBSET Line /\ t.day \in 0..LastDay
      BY <2>3 DEF Line, Days
    <3> QED
      BY <2>4, <3>1 DEF Thread
  <2>6. DistillStep(x, t) = Append(x, block)
    BY DEF DistillStep, k
  <2> HIDE DEF block
  <2>7. Append(x, block) \in Threads /\ UniqueKeys(Append(x, block))
    BY <2>1, <2>4, <2>5, AppendKeeps
  <2>8. Len(Append(x, block)) = i + 1
    BY <2>1 DEF Threads
  <2> QED
    BY <2>1, <2>6, <2>7, <2>8 DEF t
<1>5. DOMAIN answer = 1..n
  OBVIOUS
<1> HIDE DEF S, b
<1>6. b \in S[n]
  BY <1>1, <1>2, <1>3, <1>4, <1>5, DistillFold!FoldStays
<1>7. b \in Threads /\ UniqueKeys(b)
  BY <1>1, <1>6 DEF S
<1> QED
  BY <1>7, RenderedKeeps DEF Distilled, Keeps, b

IndexInv == IndexTypeOK /\ index \in Threads

LEMMA IndexInitial == IndexInit => IndexInv
<1> SUFFICES ASSUME IndexInit PROVE IndexInv
  OBVIOUS
<1>1. LastDay \in Nat \ {0} /\ MaxWrites \in Nat
  BY IndexAssumption
<1>2. index \in Threads /\ DOMAIN index = {}
  BY DEF IndexInit, Threads
<1> QED
  BY <1>1, <1>2 DEF IndexInit, IndexInv, IndexTypeOK, Days

(* What each write does. *)
WriteFacts ==
  /\ IndexInv'
  /\ writes' # writes /\ ~UniqueKeys(index') =>
        author' = "dashboard" \/ (author' = "ingest" /\ ~UniqueKeys(index))
  /\ author' \in {"ingest", "lint"} /\ writes' # writes /\ UniqueKeys(index) =>
        Covers(index, index') /\ orphans \subseteq orphans'

(* A write leaves a file, and the rest of the state of its type. *)
LEMMA WriteKeepsTypes ==
  ASSUME IndexInv, writes < MaxWrites, NEW threads \in Threads,
         NEW identity \in {"ingest", "lint", "rebuild", "dashboard"},
         Write(threads, identity), orphans' \in SUBSET Line, today' = today
  PROVE  IndexInv'
<1>1. writes' \in 0..MaxWrites
  BY IndexAssumption DEF Write, IndexInv, IndexTypeOK
<1>2. index' \in Threads /\ \A i \in DOMAIN index' : index'[i] \in Thread
  BY DEF Write, Threads
<1> QED
  BY <1>1, <1>2 DEF Write, IndexInv, IndexTypeOK

LEMMA IndexStep == IndexInv /\ [IndexNext]_indexVars => WriteFacts
<1> SUFFICES ASSUME IndexInv, [IndexNext]_indexVars
             PROVE  WriteFacts
  OBVIOUS
<1>1. index \in Threads /\ today \in Days /\ orphans \in SUBSET Line
  BY DEF IndexInv, IndexTypeOK
<1>2. ASSUME writes < MaxWrites, NEW updates \in BoundedSeq(Update, 2), Ingest(updates)
      PROVE  WriteFacts
  <2>1. PICK n \in 0..2 : updates \in [1..n -> Update]
    BY DEF BoundedSeq, SeqOf
  <2>2. Keeps(index, Merged(index, updates))
    BY <1>1, <2>1, MergedKeeps
  <2>3. Write(Merged(index, updates), "ingest") /\ orphans' = orphans /\ today' = today
    BY <1>2 DEF Ingest
  <2>4. IndexInv'
    BY <1>1, <1>2, <2>2, <2>3, WriteKeepsTypes DEF Keeps
  <2> QED
    BY <2>2, <2>3, <2>4 DEF WriteFacts, Write, Keeps
<1>3. ASSUME writes < MaxWrites, NEW group, NEW canonical, Lint(group, canonical)
      PROVE  WriteFacts
  <2> DEFINE a == Parsed(index)
             b == Grouped(a, group, canonical)
             c == Linted(b)
  <2>1. Keeps(index, a)
    BY <1>1, ParsedKeeps
  <2>2. a \in Threads
    BY <2>1 DEF Keeps
  <2> HIDE DEF a
  <2>3. b \in Threads /\ (UniqueKeys(a) => Covers(a, b))
    BY <2>2, GroupedKeeps
  <2> HIDE DEF b
  <2>4. Keeps(b, c) /\ UniqueKeys(c) /\ c \in Threads
    BY <2>3, LintedKeeps DEF Keeps
  <2>5. UniqueKeys(index) => Covers(index, c)
    BY <2>1, <2>3, <2>4, CoversTransitive DEF Keeps
  <2> HIDE DEF c
  <2>6. Write(c, "lint") /\ orphans' = orphans /\ today' = today
    BY <1>3 DEF Lint, a, b, c
  <2>7. IndexInv'
    BY <1>1, <1>3, <2>4, <2>6, WriteKeepsTypes
  <2> QED
    BY <2>4, <2>5, <2>6, <2>7 DEF WriteFacts, Write
<1>4. ASSUME writes < MaxWrites, NEW answer \in BoundedSeq(Answer, MaxThreads), Rebuild(answer)
      PROVE  WriteFacts
  <2>1. PICK n \in 0..MaxThreads : answer \in [1..n -> Answer]
    BY DEF BoundedSeq, SeqOf
  <2>2. Distilled(answer) \in Threads /\ UniqueKeys(Distilled(answer))
    BY <1>1, <2>1, DistilledHasUniqueKeys
  <2>3. Write(Distilled(answer), "rebuild") /\ orphans' = {} /\ today' = today
    BY <1>4 DEF Rebuild
  <2>4. IndexInv'
    BY <1>4, <2>2, <2>3, WriteKeepsTypes
  <2> QED
    BY <2>2, <2>3, <2>4 DEF WriteFacts, Write
<1>5. ASSUME writes < MaxWrites, NEW key \in Keys, NEW day \in 1..today, PasteBlock(key, day)
      PROVE  WriteFacts
  <2> DEFINE block == [key |-> key, archived |-> FALSE, last |-> 0, lines |-> {<<day, "hand">>}]
  <2>1. block \in Thread
    <3>1. day \in Days /\ 0 \in 0..LastDay /\ key \in Seq(Nat)
      BY <1>1, IndexAssumption DEF Days
    <3>2. {<<day, "hand">>} \in SUBSET Line
      BY <3>1 DEF Line
    <3> QED
      BY <3>1, <3>2 DEF Thread
  <2>2. Write(Append(index, block), "dashboard") /\ orphans' = orphans /\ today' = today
    BY <1>5 DEF PasteBlock
  <2> HIDE DEF block
  <2>3. Append(index, block) \in Threads
    BY <1>1, <2>1, AppendKeeps
  <2>4. IndexInv'
    BY <1>1, <1>5, <2>2, <2>3, WriteKeepsTypes
  <2> QED
    BY <2>2, <2>4 DEF WriteFacts, Write
<1>6. ASSUME writes < MaxWrites, NEW i \in DOMAIN index, LoseKey(i)
      PROVE  WriteFacts
  <2>1. i \in 1..Len(index) /\ Len(index) \in Nat /\ index[i] \in Thread
    BY <1>1 DEF Threads
  <2>2. RemoveAt(index, i) \in Threads
    <3>1. SubSeq(index, 1, i - 1) \in Threads /\ SubSeq(index, i + 1, Len(index)) \in Threads
      BY <1>1, <2>1 DEF Threads
    <3> QED
      BY <3>1 DEF RemoveAt, Threads
  <2>3. orphans' \in SUBSET Line
    BY <1>1, <1>6, <2>1 DEF LoseKey, Thread
  <2>4. Write(RemoveAt(index, i), "dashboard") /\ today' = today
    BY <1>6 DEF LoseKey
  <2>5. IndexInv'
    BY <1>6, <2>2, <2>3, <2>4, WriteKeepsTypes
  <2> QED
    BY <2>4, <2>5 DEF WriteFacts, Write
<1>7. CASE NextDay
  <2>1. today' \in Days
    BY <1>1, <1>7, IndexAssumption DEF NextDay, Days
  <2> QED
    BY <1>7, <2>1 DEF NextDay, WriteFacts, IndexInv, IndexTypeOK
<1>8. CASE UNCHANGED indexVars
  BY <1>8 DEF indexVars, WriteFacts, IndexInv, IndexTypeOK
<1> QED
  BY <1>2, <1>3, <1>4, <1>5, <1>6, <1>7, <1>8 DEF IndexNext

(* The threads of the file are of their type, whatever the model picked    *)
(* and the user pasted.                                                    *)
THEOREM IndexTypesHold == IndexSpec => []IndexTypeOK
<1>1. IndexInv => IndexTypeOK
  BY DEF IndexInv
<1>2. IndexInv /\ [IndexNext]_indexVars => IndexInv'
  BY IndexStep DEF WriteFacts
<1> QED
  BY <1>1, <1>2, IndexInitial, PTL DEF IndexSpec

(* Neither the daily merge nor the lint loses a day of a thread, whichever *)
(* threads the model updates or joins (kb/merge, kb/lint).                 *)
THEOREM MergeAndLintLoseNothing == IndexSpec => TimelinesKept
<1>1. IndexInv /\ [IndexNext]_indexVars => IndexInv'
  BY IndexStep DEF WriteFacts
<1>2. IndexInv /\ [IndexNext]_indexVars =>
        [author' \in {"ingest", "lint"} /\ writes' # writes /\ UniqueKeys(index) =>
          /\ \A i \in DOMAIN index : \E j \in DOMAIN index' :
                DaysOf(index[i]) \subseteq DaysOf(index'[j])
          /\ orphans \subseteq orphans']_indexVars
  BY IndexStep DEF WriteFacts, Covers
<1> QED
  BY <1>1, <1>2, IndexInitial, PTL DEF IndexSpec, TimelinesKept

(* The lint and the cold start leave no key on two blocks, and the merge   *)
(* makes none (kb/lint dedup_threads, kb/distill render_threads, kb/merge  *)
(* apply_updates).                                                         *)
THEOREM NoKeyIsDoubled == IndexSpec => KeysStayUnique
<1>1. IndexInv /\ [IndexNext]_indexVars => IndexInv'
  BY IndexStep DEF WriteFacts
<1>2. IndexInv /\ [IndexNext]_indexVars =>
        [writes' # writes /\ ~UniqueKeys(index') =>
          author' = "dashboard" \/ (author' = "ingest" /\ ~UniqueKeys(index))]_indexVars
  BY IndexStep DEF WriteFacts
<1> QED
  BY <1>1, <1>2, IndexInitial, PTL DEF IndexSpec, KeysStayUnique
=============================================================================
