----------------------------- MODULE FoldLemmas -----------------------------
(***************************************************************************)
(* Induction over the natural numbers, and over a sequence what it gives:  *)
(* a fold from the left is the last of a row of values, each made of the   *)
(* one before it and of an element.  The proof modules cite these lemmas,  *)
(* with what is folded as a function: an operator cannot be their          *)
(* parameter.                                                              *)
(***************************************************************************)
EXTENDS Integers, Sequences, FiniteSetsExt, SequenceTheorems, WellFoundedInduction, TLAPS

-----------------------------------------------------------------------------
\* A set of naturals has a least one.
LEMMA LeastNatural ==
  ASSUME NEW T, T \subseteq Nat, T # {}
  PROVE  \E n \in T : \A m \in T : n <= m
<1>1. PICK n \in T : \A m \in T : <<m, n>> \notin OpToRel(<, Nat)
  BY WFMin, NatLessThanWellFounded, Zenon
<1>2. \A m \in T : ~(m < n)
  BY <1>1, Zenon DEF OpToRel
<1>. QED BY <1>2

\* Induction, over a set in place of a predicate.
LEMMA InductionOverSet ==
  ASSUME NEW T, T \subseteq Nat, 0 \in T, \A n \in T : n + 1 \in T
  PROVE  T = Nat
<1> SUFFICES ASSUME Nat \ T # {} PROVE FALSE
  OBVIOUS
<1>1. PICK n \in Nat \ T : \A m \in Nat \ T : n <= m
  BY LeastNatural
<1>2. n - 1 \in T
  BY <1>1
<1>. QED BY <1>1, <1>2

\* The same, up to a number.
LEMMA InductionUpTo ==
  ASSUME NEW n \in Nat, NEW T, 0 \in T, \A k \in 0 .. n - 1 : k \in T => k + 1 \in T
  PROVE  \A k \in 0 .. n : k \in T
<1> DEFINE S == {k \in Nat : k <= n => k \in T}
<1>1. /\ S \subseteq Nat
      /\ 0 \in S
      /\ \A k \in S : k + 1 \in S
  OBVIOUS
<1> HIDE DEF S
<1>2. S = Nat
  BY <1>1, InductionOverSet, Zenon
<1>. QED BY <1>2 DEF S

\* Some numbers up to n have a greatest one.
LEMMA GreatestOfSome ==
  ASSUME NEW n \in Nat, NEW T \in SUBSET (0 .. n), T # {}
  PROVE  Max(T) \in T /\ \A m \in T : m <= Max(T)
<1> DEFINE S == {n - m : m \in T}
<1>1. S \subseteq Nat
  OBVIOUS
<1>2. S # {}
  BY Zenon
<1>3. PICK d \in S : \A e \in S : d <= e
  BY <1>1, <1>2, LeastNatural
<1>4. PICK x \in T : d = n - x
  BY <1>3
<1>5. \A m \in T : x >= m
  <2>. TAKE m \in T
  <2>1. d <= n - m
    BY <1>3
  <2>. QED BY <1>4, <2>1
<1>. QED BY <1>5 DEF Max

LEMMA GreatestUpTo ==
  ASSUME NEW n \in Nat, NEW T \in SUBSET (1 .. n), T # {}
  PROVE  Max(T) \in T /\ \A m \in T : m <= Max(T)
<1>1. T \in SUBSET (0 .. n)
  OBVIOUS
<1>. QED BY <1>1, GreatestOfSome

LEMMA GreatestOfAll ==
  ASSUME NEW k \in Nat, k # 0
  PROVE  Max(1 .. k) = k /\ (1 .. k) \ {Max(1 .. k)} = 1 .. k - 1
<1>1. 1 .. k \in SUBSET (0 .. k) /\ 1 .. k # {}
  OBVIOUS
<1>2. Max(1 .. k) \in 1 .. k /\ \A m \in 1 .. k : m <= Max(1 .. k)
  BY <1>1, GreatestOfSome
<1>3. Max(1 .. k) = k
  BY <1>2
<1>. QED BY <1>3

\* A row of numbers has a greatest one.
LEMMA GreatestOfRow ==
  ASSUME NEW n \in Nat, n # 0, NEW f \in [1 .. n -> Nat]
  PROVE  /\ Max({f[j] : j \in 1 .. n}) \in Nat
         /\ \A j \in 1 .. n : f[j] <= Max({f[i] : i \in 1 .. n})
<1> DEFINE Good == {k \in 0 .. n : \E m \in Nat : \A j \in 1 .. k : f[j] <= m}
<1>1. 0 \in Good
  OBVIOUS
<1>2. ASSUME NEW k \in 0 .. n - 1, k \in Good PROVE k + 1 \in Good
  <2>1. PICK m \in Nat : \A j \in 1 .. k : f[j] <= m
    BY <1>2
  <2>2. k + 1 \in 1 .. n /\ f[k + 1] \in Nat
    OBVIOUS
  <2>3. \A j \in 1 .. k + 1 : f[j] <= IF f[k + 1] <= m THEN m ELSE f[k + 1]
    BY <2>1, <2>2
  <2>4. (IF f[k + 1] <= m THEN m ELSE f[k + 1]) \in Nat
    BY <2>2
  <2>. QED BY <2>2, <2>3, <2>4
<1> HIDE DEF Good
<1>3. \A k \in 0 .. n : k \in Good
  BY <1>1, <1>2, InductionUpTo
<1>4. PICK m \in Nat : \A j \in 1 .. n : f[j] <= m
  <2>1. n \in Good
    BY <1>3
  <2>. QED BY <2>1 DEF Good
<1> DEFINE T == {f[j] : j \in 1 .. n}
<1>5. T \in SUBSET (0 .. m) /\ f[1] \in T
  BY <1>4
<1>6. Max(T) \in T /\ \A x \in T : x <= Max(T)
  BY <1>5, GreatestOfSome
<1>. QED BY <1>6

\* Induction over the sequences of a set, from the left.
LEMMA InductionOverSeq ==
  ASSUME NEW S, NEW T, <<>> \in T, \A s \in Seq(S), x \in S : s \in T => Append(s, x) \in T
  PROVE  Seq(S) \subseteq T
<1> SUFFICES ASSUME NEW s \in Seq(S) PROVE s \in T
  OBVIOUS
<1> DEFINE n == Len(s)
           Good == {k \in 0 .. n : SubSeq(s, 1, k) \in T}
<1>0. n \in Nat
  BY LenProperties
<1>1. 0 \in Good
  <2>1. SubSeq(s, 1, 0) = <<>>
    BY SubSeqEmpty
  <2>2. 0 \in 0 .. n
    BY <1>0
  <2>. QED BY <2>1, <2>2, Zenon
<1>2. ASSUME NEW k \in 0 .. n - 1, k \in Good PROVE k + 1 \in Good
  <2>1. k + 1 \in 1 .. Len(s) /\ k \in 0 .. Len(s) /\ (k + 1) - 1 = k /\ 1 \in 1 .. Len(s)
        /\ k + 1 \in 1 .. n /\ k + 1 \in 0 .. n
    BY <1>0
  <2>2. SubSeq(s, 1, k + 1) = SubSeq(s, 1, k) \o <<s[k + 1]>>
    BY <2>1, SubSeqRecursiveSecond
  <2>3. SubSeq(s, 1, k) \in Seq(S) /\ s[k + 1] \in S
    <3>1. \A i \in 1 .. k : s[i] \in S
      BY <2>1, ElementOfSeq
    <3>2. k \in Int
      BY <2>1
    <3>. QED BY <2>1, <3>1, <3>2, SubSeqProperties, ElementOfSeq
  <2>4. SubSeq(s, 1, k + 1) = Append(SubSeq(s, 1, k), s[k + 1])
    BY <2>2, <2>3, AppendIsConcat
  <2>5. SubSeq(s, 1, k) \in T
    BY <1>2
  <2>. QED BY <2>1, <2>3, <2>4, <2>5
<1> HIDE DEF Good
<1>3. \A k \in 0 .. n : k \in Good
  BY <1>0, <1>1, <1>2, InductionUpTo
<1>4. SubSeq(s, 1, n) \in T
  BY <1>0, <1>3 DEF Good
<1>. QED BY <1>4, SubSeqFull

-----------------------------------------------------------------------------
\* what is folded, where it starts, and what it stays in
Foldable(St, El, step, base, seq) ==
  step \in [St \X El -> St] /\ base \in St /\ seq \in Seq(El)

\* g computes the fold of step over any of the first n elements of seq
Folds(g, n, step, base, seq) ==
  \A T \in SUBSET (1 .. n) :
      g[T] = IF T = {} THEN base ELSE step[<<g[T \ {Max(T)}], seq[Max(T)]>>]

\* Some function does.
LEMMA FoldsExist ==
  ASSUME NEW St, NEW El, NEW step, NEW base, NEW seq, Foldable(St, El, step, base, seq)
  PROVE  \E g \in [SUBSET (1 .. Len(seq)) -> St] : Folds(g, Len(seq), step, base, seq)
<1> USE DEF Foldable
<1> DEFINE Has(n) == \E g \in [SUBSET (1 .. n) -> St] : Folds(g, n, step, base, seq)
           Good == {n \in Nat : Has(n)}
<1>0. Len(seq) \in Nat /\ seq \in [1 .. Len(seq) -> El]
  BY LenProperties
<1>1. Has(0)
  <2> DEFINE g == [T \in SUBSET (1 .. 0) |-> base]
  <2>1. \A T \in SUBSET (1 .. 0) : T = {}
    OBVIOUS
  <2>2. g \in [SUBSET (1 .. 0) -> St]
    OBVIOUS
  <2>3. Folds(g, 0, step, base, seq)
    BY <2>1 DEF Folds
  <2>. QED BY <2>2, <2>3
<1>2. ASSUME NEW n \in 0 .. Len(seq) - 1, Has(n) PROVE Has(n + 1)
  <2>1. n \in Nat /\ n + 1 \in 1 .. Len(seq)
    BY <1>0
  <2>2. PICK g \in [SUBSET (1 .. n) -> St] : Folds(g, n, step, base, seq)
    BY <1>2
  <2> DEFINE more(T) == step[<<g[T \ {Max(T)}], seq[Max(T)]>>]
             all == [T \in SUBSET (1 .. n + 1) |-> IF T \subseteq 1 .. n THEN g[T] ELSE more(T)]
  <2>3. ASSUME NEW T \in SUBSET (1 .. n + 1), ~(T \subseteq 1 .. n)
        PROVE  T # {} /\ Max(T) = n + 1 /\ T \ {Max(T)} \in SUBSET (1 .. n)
    <3>1. n + 1 \in T
      BY <2>1, <2>3
    <3>2. n + 1 \in Nat /\ T # {} /\ T \in SUBSET (0 .. n + 1)
      BY <2>1, <3>1
    <3>3. Max(T) \in T /\ \A m \in T : m <= Max(T)
      BY <3>2, GreatestOfSome
    <3>4. n + 1 <= Max(T) /\ Max(T) \in 1 .. n + 1
      BY <3>1, <3>3
    <3>5. Max(T) = n + 1
      BY <2>1, <3>4
    <3>. QED BY <2>1, <3>1, <3>5
  <2>4. all \in [SUBSET (1 .. n + 1) -> St]
    <3>1. ASSUME NEW T \in SUBSET (1 .. n + 1), ~(T \subseteq 1 .. n) PROVE more(T) \in St
      <4>1. g[T \ {Max(T)}] \in St /\ seq[Max(T)] \in El
        BY <1>0, <2>1, <2>3, <3>1
      <4>. QED BY <4>1
    <3> HIDE DEF more
    <3>. QED BY <3>1
  <2>5. ASSUME NEW T \in SUBSET (1 .. n + 1)
        PROVE  all[T] = IF T = {} THEN base ELSE step[<<all[T \ {Max(T)}], seq[Max(T)]>>]
    <3>1. CASE T = {}
      BY <2>2, <3>1 DEF Folds
    <3>2. CASE T # {} /\ T \subseteq 1 .. n
      <4>1. T \ {Max(T)} \in SUBSET (1 .. n) /\ T \ {Max(T)} \in SUBSET (1 .. n + 1)
        BY <3>2
      <4>2. all[T] = g[T] /\ all[T \ {Max(T)}] = g[T \ {Max(T)}]
        BY <3>2, <4>1
      <4>. QED BY <2>2, <3>2, <4>2 DEF Folds
    <3>3. CASE ~(T \subseteq 1 .. n)
      <4>1. T # {} /\ T \ {Max(T)} \in SUBSET (1 .. n)
        BY <2>3, <3>3
      <4>2. T \ {Max(T)} \in SUBSET (1 .. n + 1)
        BY <4>1
      <4>3. all[T] = more(T) /\ all[T \ {Max(T)}] = g[T \ {Max(T)}]
        BY <3>3, <4>1, <4>2
      <4>. QED BY <4>1, <4>3
    <3>. QED BY <3>1, <3>2, <3>3
  <2>6. Folds(all, n + 1, step, base, seq)
    <3> HIDE DEF all
    <3>. QED BY <2>5 DEF Folds
  <2> HIDE DEF all
  <2>. QED BY <2>4, <2>6
<1> HIDE DEF Has
<1>3. 0 \in Good /\ \A n \in 0 .. Len(seq) - 1 : n \in Good => n + 1 \in Good
  BY <1>1, <1>2
<1> HIDE DEF Good
<1>4. \A n \in 0 .. Len(seq) : n \in Good
  BY <1>0, <1>3, InductionUpTo
<1>5. Len(seq) \in Good
  BY <1>0, <1>4
<1>. QED BY <1>5 DEF Good, Has

\* g goes as the fold does, wherever it was in St
Follows(g, n, St, step, base, seq) ==
  /\ g[{}] = base
  /\ \A T \in (SUBSET (1 .. n)) \ {{}} :
        g[T \ {Max(T)}] \in St => g[T] = step[<<g[T \ {Max(T)}], seq[Max(T)]>>]

\* the values it goes through, one a prefix of seq
Row(g, n) == [k \in 0 .. n |-> g[1 .. k]]
IsRow(F, St, step, base, seq) ==
  /\ F \in [0 .. Len(seq) -> St] /\ F[0] = base
  /\ \A k \in 1 .. Len(seq) : F[k] = step[<<F[k - 1], seq[k]>>]

\* Each is made of the one before it, and is in St.
LEMMA RowOfAFold ==
  ASSUME NEW St, NEW El, NEW step, NEW base, NEW seq, Foldable(St, El, step, base, seq),
         NEW g, Follows(g, Len(seq), St, step, base, seq)
  PROVE  /\ IsRow(Row(g, Len(seq)), St, step, base, seq)
         /\ Row(g, Len(seq))[Len(seq)] = g[DOMAIN seq]
<1> USE DEF Foldable
<1> DEFINE n == Len(seq)
           T == {k \in 0 .. n : g[1 .. k] \in St}
<1>0. n \in Nat /\ seq \in [1 .. n -> El] /\ DOMAIN seq = 1 .. n
  BY LenProperties
<1>1. g[1 .. 0] = base
  <2>1. 1 .. 0 = {}
    OBVIOUS
  <2>. QED BY <2>1 DEF Follows
<1>2. ASSUME NEW k \in 1 .. n, g[1 .. k - 1] \in St
      PROVE  g[1 .. k] = step[<<g[1 .. k - 1], seq[k]>>] /\ g[1 .. k] \in St
  <2>1. k \in Nat /\ k # 0 /\ 1 .. k \in (SUBSET (1 .. n)) \ {{}}
    BY <1>0
  <2>2. Max(1 .. k) = k /\ (1 .. k) \ {Max(1 .. k)} = 1 .. k - 1
    BY <2>1, GreatestOfAll
  <2>3. g[1 .. k] = step[<<g[1 .. k - 1], seq[k]>>]
    BY <1>2, <2>1, <2>2 DEF Follows
  <2>4. seq[k] \in El
    BY <1>0
  <2>. QED BY <1>2, <2>3, <2>4
<1> HIDE DEF n
<1>3. \A k \in 0 .. n : g[1 .. k] \in St
  <2>1. 0 \in T
    BY <1>0, <1>1
  <2>2. ASSUME NEW k \in 0 .. n - 1, k \in T PROVE k + 1 \in T
    <3>1. k + 1 \in 1 .. n /\ (k + 1) - 1 = k /\ k + 1 \in 0 .. n
      BY <1>0
    <3>. QED BY <1>2, <2>2, <3>1
  <2> HIDE DEF T
  <2>3. \A k \in 0 .. n : k \in T
    BY <1>0, <2>1, <2>2, InductionUpTo
  <2>. QED BY <2>3 DEF T
<1>4. ASSUME NEW k \in 1 .. n PROVE Row(g, n)[k] = step[<<Row(g, n)[k - 1], seq[k]>>]
  <2>1. k - 1 \in 0 .. n /\ k \in 0 .. n
    BY <1>0
  <2>2. g[1 .. k] = step[<<g[1 .. k - 1], seq[k]>>]
    BY <1>2, <1>3, <2>1
  <2>. QED BY <2>1, <2>2 DEF Row
<1>5. Row(g, n) \in [0 .. n -> St]
  BY <1>3 DEF Row
<1>6. Row(g, n)[0] = base /\ Row(g, n)[n] = g[DOMAIN seq]
  BY <1>0, <1>1 DEF Row
<1>. QED BY <1>4, <1>5, <1>6 DEF n, IsRow
=============================================================================
