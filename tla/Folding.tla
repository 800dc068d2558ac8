------------------------------- MODULE Folding -------------------------------
(***************************************************************************)
(* What FoldLeft computes, for any operator: the last of the values that   *)
(* the operator leads to, element by element.  A module that folds with an *)
(* operator of its own instantiates this one with it.                      *)
(***************************************************************************)
EXTENDS Integers, Sequences, SequencesExt, WellFoundedInduction, TLAPS

CONSTANT Op(_, _)

(* The natural numbers up to n, one after the other. *)
THEOREM UpTo ==
  ASSUME NEW n \in Nat, NEW N, 0 \in N, \A i \in 0..(n - 1) : i \in N => i + 1 \in N
  PROVE  0..n \subseteq N
<1> DEFINE T == (0..n) \ N
<1> SUFFICES ASSUME T # {} PROVE FALSE
  OBVIOUS
<1>1. T \subseteq Nat
  OBVIOUS
<1> HIDE DEF T
<1>2. PICK m \in T : \A k \in T : ~(<<k, m>> \in OpToRel(<, Nat))
  BY <1>1, WFMin, NatLessThanWellFounded
<1>3. \A k \in T : ~(k < m)
  BY <1>1, <1>2 DEF OpToRel
<1>4. m \in 1..n /\ m \notin N
  <2>1. m \in T
    BY <1>2
  <2>2. m \in 0..n /\ m \notin N /\ m # 0
    BY <2>1 DEF T
  <2> QED
    BY <2>2
<1>5. m - 1 \in 0..(n - 1) /\ m - 1 \notin T
  BY <1>3, <1>4
<1>6. m - 1 \in N
  BY <1>4, <1>5 DEF T
<1>7. (m - 1) + 1 \in N
  BY <1>5, <1>6
<1> QED
  BY <1>4, <1>7

(* Max of a set of indices. *)
LEMMA MaxOfIndices ==
  ASSUME NEW n \in Nat, NEW S \in SUBSET (1..n), S # {}
  PROVE  Max(S) \in S /\ \A i \in S : i <= Max(S)
<1> DEFINE D == {k \in Nat : n - k \in S}
<1>1. \A i \in S : n - i \in D /\ n - (n - i) = i
  OBVIOUS
<1>2. D \subseteq Nat /\ D # {}
  BY <1>1
<1> HIDE DEF D
<1>3. PICK d \in D : \A e \in D : ~(<<e, d>> \in OpToRel(<, Nat))
  BY <1>2, WFMin, NatLessThanWellFounded
<1>4. \A e \in D : ~(e < d)
  BY <1>2, <1>3 DEF OpToRel
<1>5. n - d \in S /\ \A i \in S : n - d >= i
  BY <1>1, <1>2, <1>4 DEF D
<1> QED
  BY <1>5 DEF Max

(* The recursive function FoldLeft is defined with. *)
Follows(h, s, b, n) ==
  h = [S \in SUBSET (1..n) |-> IF S = {} THEN b ELSE Op(h[S \ {Max(S)}], s[Max(S)])]

LEMMA FunctionExists ==
  ASSUME NEW s, NEW b, NEW n \in Nat
  PROVE  \E h : Follows(h, s, b, n)
<1> DEFINE N == {i \in 0..n : \E h : Follows(h, s, b, i)}
<1>1. 0 \in N
  <2> DEFINE h == [S \in SUBSET (1..0) |-> b]
  <2>1. 1..0 = {} /\ \A S \in SUBSET (1..0) : S = {}
    OBVIOUS
  <2>2. Follows(h, s, b, 0)
    BY <2>1 DEF Follows
  <2> QED
    BY <2>2
<1>2. ASSUME NEW i \in 0..(n - 1), i \in N
      PROVE  i + 1 \in N
  <2>1. PICK h : Follows(h, s, b, i)
    BY <1>2
  <2> DEFINE g == [S \in SUBSET (1..(i + 1)) |->
                     IF S = {} THEN b ELSE Op(h[S \ {Max(S)}], s[Max(S)])]
  <2>2. ASSUME NEW S \in SUBSET (1..(i + 1)), S # {}
        PROVE  S \ {Max(S)} \in SUBSET (1..i)
    <3>1. Max(S) \in S /\ \A j \in S : j <= Max(S)
      BY <2>2, i + 1 \in Nat, MaxOfIndices
    <3>2. PICK m \in S : m = Max(S) /\ \A j \in S : j <= m
      BY <3>1
    <3>3. \A j \in S : j # m => j \in 1..i
      BY <3>2
    <3> QED
      BY <3>2, <3>3
  <2>3. ASSUME NEW R \in SUBSET (1..i)
        PROVE  g[R] = h[R]
    <3>1. R \in SUBSET (1..(i + 1))
      OBVIOUS
    <3>2. g[R] = IF R = {} THEN b ELSE Op(h[R \ {Max(R)}], s[Max(R)])
      BY <3>1
    <3>3. h[R] = IF R = {} THEN b ELSE Op(h[R \ {Max(R)}], s[Max(R)])
      BY <2>1 DEF Follows
    <3> QED
      BY <3>2, <3>3
  <2>4. \A S \in SUBSET (1..(i + 1)) : S # {} => g[S \ {Max(S)}] = h[S \ {Max(S)}]
    BY <2>2, <2>3
  <2>5. g = [S \in SUBSET (1..(i + 1)) |->
               IF S = {} THEN b ELSE Op(g[S \ {Max(S)}], s[Max(S)])]
    <3> DEFINE k == [S \in SUBSET (1..(i + 1)) |->
                       IF S = {} THEN b ELSE Op(g[S \ {Max(S)}], s[Max(S)])]
    <3>1. \A S \in SUBSET (1..(i + 1)) : g[S] = k[S]
      BY <2>4
    <3> QED
      BY <3>1
  <2>6. Follows(g, s, b, i + 1)
    BY <2>5 DEF Follows
  <2> QED
    BY <2>6
<1> HIDE DEF N
<1>3. 0..n \subseteq N
  BY <1>1, <1>2, UpTo
<1> QED
  BY <1>3 DEF N

(* The fold of s. *)
Folded(b, s) == FoldLeft(Op, b, s)

(* The values of a fold, from the first to the last. *)
THEOREM FoldChain ==
  ASSUME NEW s, NEW b, NEW n \in Nat, DOMAIN s = 1..n
  PROVE  \E c : /\ c[0] = b /\ c[n] = Folded(b, s)
                /\ \A i \in 0..(n - 1) : c[i + 1] = Op(c[i], s[i + 1])
<1> DEFINE g == CHOOSE h : Follows(h, s, b, n)
<1>1. FoldLeft(Op, b, s) = g[1..n]
  BY DEF FoldLeft, MapThenFoldSet, Follows
<1>2. Follows(g, s, b, n)
  BY FunctionExists
<1> HIDE DEF g
<1> DEFINE c == [i \in 0..n |-> g[1..i]]
<1>3. c[0] = b
  <2>1. 1..0 = {} /\ 1..0 \in SUBSET (1..n)
    OBVIOUS
  <2> QED
    BY <1>2, <2>1 DEF Follows
<1>4. ASSUME NEW i \in 0..(n - 1)
      PROVE  c[i + 1] = Op(c[i], s[i + 1])
  <2>1. /\ i + 1 \in 1..n /\ 1..(i + 1) \in SUBSET (1..n) /\ 1..(i + 1) # {}
        /\ (1..(i + 1)) \ {i + 1} = 1..i
    OBVIOUS
  <2>2. Max(1..(i + 1)) = i + 1
    <3>1. Max(1..(i + 1)) \in 1..(i + 1) /\ i + 1 <= Max(1..(i + 1))
      <4>1. i + 1 \in 1..(i + 1) /\ i + 1 \in Nat /\ 1..(i + 1) \in SUBSET (1..(i + 1))
        OBVIOUS
      <4> QED
        BY <2>1, <4>1, MaxOfIndices
    <3> QED
      BY <3>1
  <2>3. g[1..(i + 1)] = Op(g[1..i], s[i + 1])
    BY <1>2, <2>1, <2>2 DEF Follows
  <2> QED
    BY <2>1, <2>3
<1>5. c[n] = Folded(b, s)
  BY <1>1 DEF Folded
<1> HIDE DEF c
<1> QED
  BY <1>3, <1>4, <1>5

(* The fold of nothing. *)
THEOREM FoldOfNothing ==
  ASSUME NEW b, NEW s, DOMAIN s = {}
  PROVE  Folded(b, s) = b
<1>1. DOMAIN s = 1..0 /\ 0 \in Nat
  OBVIOUS
<1> QED
  BY <1>1, FoldChain

(* One element more is one step more. *)
THEOREM FoldOneMore ==
  ASSUME NEW n \in Nat, NEW s, NEW t, NEW b, DOMAIN s = 1..n, DOMAIN t = 1..(n + 1),
         \A i \in 1..n : t[i] = s[i]
  PROVE  Folded(b, t) = Op(Folded(b, s), t[n + 1])
<1>1. PICK c : /\ c[0] = b /\ c[n] = Folded(b, s)
               /\ \A i \in 0..(n - 1) : c[i + 1] = Op(c[i], s[i + 1])
  BY FoldChain
<1>2. PICK d : /\ d[0] = b /\ d[n + 1] = Folded(b, t)
               /\ \A i \in 0..((n + 1) - 1) : d[i + 1] = Op(d[i], t[i + 1])
  BY n + 1 \in Nat, FoldChain
<1> DEFINE N == {i \in 0..n : c[i] = d[i]}
<1>3. 0 \in N
  BY <1>1, <1>2
<1>4. ASSUME NEW i \in 0..(n - 1), i \in N
      PROVE  i + 1 \in N
  <2>1. i \in 0..((n + 1) - 1) /\ i + 1 \in 1..n /\ i + 1 \in 0..n
    OBVIOUS
  <2>2. c[i + 1] = Op(c[i], s[i + 1]) /\ d[i + 1] = Op(d[i], t[i + 1]) /\ c[i] = d[i]
    BY <1>1, <1>2, <1>4, <2>1
  <2> QED
    BY <2>1, <2>2
<1> HIDE DEF N
<1>5. 0..n \subseteq N
  BY <1>3, <1>4, UpTo
<1>6. c[n] = d[n]
  BY <1>5 DEF N
<1>7. n \in 0..((n + 1) - 1)
  OBVIOUS
<1> QED
  BY <1>1, <1>2, <1>6, <1>7

(* What every step brings from one set to the next. *)
THEOREM FoldStays ==
  ASSUME NEW n \in Nat, NEW s, NEW b, NEW S, DOMAIN s = 1..n,
         b \in S[0],
         \A i \in 0..(n - 1) : \A x \in S[i] : Op(x, s[i + 1]) \in S[i + 1]
  PROVE  Folded(b, s) \in S[n]
<1>1. PICK c : /\ c[0] = b /\ c[n] = Folded(b, s)
               /\ \A i \in 0..(n - 1) : c[i + 1] = Op(c[i], s[i + 1])
  BY FoldChain
<1> DEFINE N == {i \in 0..n : c[i] \in S[i]}
<1>2. 0 \in N
  BY <1>1
<1>3. ASSUME NEW i \in 0..(n - 1), i \in N
      PROVE  i + 1 \in N
  BY <1>1, <1>3
<1> HIDE DEF N
<1>4. 0..n \subseteq N
  BY <1>2, <1>3, UpTo
<1> QED
  BY <1>1, <1>4 DEF N
=============================================================================
