---------------------------- MODULE SequenceLemmas ----------------------------
(***************************************************************************)
(* What filtering and folding make of a sequence, for a sequence of any    *)
(* length.  The library's theorems on induction take an operator, which no *)
(* prover here can instantiate; that a set of naturals has a least member  *)
(* can be had without one (WFMin), and induction over sets with it.  A     *)
(* fold is the value of a function chosen by its equation: first that      *)
(* there is one, then what it is on 1 .. i for each i.                     *)
(***************************************************************************)
EXTENDS Filtering, SequenceTheorems, WellFoundedInduction, TLAPS

\* Numbers have a least one among them.
LEMMA LeastNatural ==
    ASSUME NEW T \in SUBSET Nat, T # {}
    PROVE  \E x \in T : \A y \in T : x <= y
<1>. DEFINE R == {ss \in Nat \X Nat : ss[1] < ss[2]}
<1>1. IsWellFoundedOn(R, Nat)
  BY NatLessThanWellFounded DEF OpToRel
<1>2. \A y, x \in Nat : y < x => <<y, x>> \in R
  OBVIOUS
<1>. HIDE DEF R
<1>3. PICK x \in T : \A y \in T : ~ (<<y, x>> \in R)
  BY <1>1, WFMin
<1>4. \A y \in T : ~(y < x)
  BY <1>2, <1>3
<1>. QED  BY <1>4

\* Induction: a set of numbers that has 0 and with each number the next has all.
LEMMA Induction ==
    ASSUME NEW T, 0 \in T, \A n \in Nat : n \in T => n + 1 \in T
    PROVE  Nat \subseteq T
<1>. SUFFICES ASSUME Nat \ T # {} PROVE FALSE
  OBVIOUS
<1>1. PICK x \in Nat \ T : \A y \in Nat \ T : x <= y
  BY LeastNatural
<1>2. x # 0 /\ x - 1 \in Nat
  BY <1>1
<1>3. x - 1 \in T
  BY <1>1, <1>2
<1>4. (x - 1) + 1 \in T
  BY <1>2, <1>3
<1>. QED  BY <1>1, <1>4

\* Bounded ones have a greatest.
LEMMA MaxOfSome ==
    ASSUME NEW n \in Nat, NEW T \in SUBSET (1 .. n), T # {}
    PROVE  Max(T) \in T /\ \A y \in T : y <= Max(T)
<1>. DEFINE D == {d \in Nat : \E x \in T : d = n - x}
<1>0. \A x \in T : n - x \in D
  <2>. SUFFICES ASSUME NEW x \in T PROVE n - x \in Nat
    OBVIOUS
  <2>1. x \in 1 .. n
    OBVIOUS
  <2>. QED  BY <2>1
<1>1. D \subseteq Nat /\ D # {}
  BY <1>0
<1>2. PICK d \in D : \A e \in D : d <= e
  BY <1>1, LeastNatural
<1>3. PICK x \in T : d = n - x
  OBVIOUS
<1>4. ASSUME NEW y \in T PROVE x >= y
  <2>1. d <= n - y
    BY <1>0, <1>2
  <2>2. x \in 1 .. n /\ y \in 1 .. n
    OBVIOUS
  <2>. QED  BY <1>3, <2>1, <2>2
<1>. HIDE DEF D
<1>. QED  BY <1>4 DEF Max

-----------------------------------------------------------------------------

\* The equation of a fold over 1 .. n, one number at a time from the greatest.
Iterates(iter, V, base, n, step) ==
    /\ iter \in [SUBSET (1 .. n) -> V]
    /\ \A s \in SUBSET (1 .. n) :
           iter[s] = IF s = {} THEN base
                     ELSE step[<<Max(s), iter[s \ {Max(s)}]>>]

\* It has a solution: one for 1 .. k extends to one for 1 .. k + 1.
LEMMA IterationExists ==
    ASSUME NEW V, NEW base \in V, NEW n \in Nat, NEW step \in [(1 .. n) \X V -> V]
    PROVE  \E iter : Iterates(iter, V, base, n, step)
<1>. DEFINE Done(k, iter) ==
               \A s \in SUBSET (1 .. k) :
                   iter[s] = IF s = {} THEN base
                             ELSE step[<<Max(s), iter[s \ {Max(s)}]>>]
            Can(k) == \E iter \in [SUBSET (1 .. k) -> V] : Done(k, iter)
<1>1. Can(0)
  <2>. DEFINE iter == [s \in SUBSET (1 .. 0) |-> base]
  <2>1. \A s \in SUBSET (1 .. 0) : s = {}
    OBVIOUS
  <2>2. iter \in [SUBSET (1 .. 0) -> V] /\ Done(0, iter)
    BY <2>1
  <2>. HIDE DEF iter, Done
  <2>. QED  BY <2>2
<1>2. ASSUME NEW k \in Nat, k + 1 <= n, Can(k) PROVE Can(k + 1)
  <2>1. PICK f \in [SUBSET (1 .. k) -> V] : Done(k, f)
    BY <1>2
  <2>. DEFINE iter == [s \in SUBSET (1 .. k + 1) |->
                          IF k + 1 \in s THEN step[<<k + 1, f[s \ {k + 1}]>>]
                          ELSE f[s]]
  <2>2. \A s \in SUBSET (1 .. k + 1) : s \ {k + 1} \in SUBSET (1 .. k)
    OBVIOUS
  <2>3. iter \in [SUBSET (1 .. k + 1) -> V]
    <3>1. k + 1 \in 1 .. n
      BY <1>2
    <3>2. ASSUME NEW s \in SUBSET (1 .. k + 1)
          PROVE  (IF k + 1 \in s THEN step[<<k + 1, f[s \ {k + 1}]>>] ELSE f[s]) \in V
      BY <2>2, <3>1
    <3>. QED  BY <3>2
  <2>4. \A s \in SUBSET (1 .. k) : iter[s] = f[s]
    OBVIOUS
  <2>5. ASSUME NEW s \in SUBSET (1 .. k + 1)
        PROVE  iter[s] = IF s = {} THEN base
                         ELSE step[<<Max(s), iter[s \ {Max(s)}]>>]
    <3>1. CASE k + 1 \in s
      <4>1. Max(s) = k + 1
        <5>1. k + 1 \in Nat /\ s # {}
          BY <3>1
        <5>2. Max(s) \in s /\ \A y \in s : y <= Max(s)
          BY <5>1, MaxOfSome
        <5>3. Max(s) \in 1 .. k + 1 /\ k + 1 <= Max(s)
          BY <3>1, <5>2
        <5>. QED  BY <5>3
      <4>2. iter[s \ {k + 1}] = f[s \ {k + 1}]
        BY <2>2, <2>4
      <4>3. iter[s] = step[<<k + 1, f[s \ {k + 1}]>>]
        BY <3>1
      <4>. QED  BY <3>1, <4>1, <4>2, <4>3
    <3>2. CASE k + 1 \notin s
      <4>1. s \in SUBSET (1 .. k)
        BY <3>2, <2>2
      <4>2. CASE s = {}
        BY <4>1, <4>2, <2>1, <2>4
      <4>3. CASE s # {}
        <5>1. Max(s) \in s /\ s \ {Max(s)} \in SUBSET (1 .. k)
          BY <4>1, <4>3, MaxOfSome
        <5>2. f[s] = step[<<Max(s), f[s \ {Max(s)}]>>]
          BY <4>1, <4>3, <2>1
        <5>. QED  BY <4>1, <4>3, <5>1, <5>2, <2>4
      <4>. QED  BY <4>2, <4>3
    <3>. QED  BY <3>1, <3>2
  <2>. HIDE DEF iter
  <2>. QED  BY <2>3, <2>5
<1>3. Can(n)
  <2>. HIDE DEF Can
  <2>. DEFINE T == {k \in Nat : k <= n => Can(k)}
  <2>1. 0 \in T
    BY <1>1
  <2>2. ASSUME NEW k \in Nat, k \in T PROVE k + 1 \in T
    BY <1>2, <2>2
  <2>. HIDE DEF T
  <2>3. n \in T
    BY <2>1, <2>2, Induction
  <2>. QED  BY <2>3 DEF T
<1>. QED  BY <1>3 DEF Iterates

-----------------------------------------------------------------------------

\* Filter goes through the sequence once and keeps what is in the set.
LEMMA FilterUnfolds ==
    ASSUME NEW V, NEW seq \in Seq(V), NEW S
    PROVE  \E kept :
               /\ kept[0] = <<>>
               /\ \A i \in 1 .. Len(seq) :
                      kept[i] = IF seq[i] \in S THEN Append(kept[i - 1], seq[i])
                                ELSE kept[i - 1]
               /\ Filter(seq, S) = kept[Len(seq)]
<1>. DEFINE n == Len(seq)
            Next(x, k) == IF x \in S THEN Append(k, x) ELSE k
            Fold(iter) ==
                iter = [s \in SUBSET (DOMAIN seq) |->
                           IF s = {} THEN <<>>
                           ELSE Next(seq[Max(s)], iter[s \ {Max(s)}])]
            all == CHOOSE iter : Fold(iter)
<1>0. n \in Nat /\ DOMAIN seq = 1 .. n
  BY LenProperties
<1>1. \E iter : Fold(iter)
  <2>. DEFINE W == Seq(V)
              step == [p \in (1 .. n) \X W |-> Next(seq[p[1]], p[2])]
  <2>1. \A i \in 1 .. n : seq[i] \in V
    BY <1>0, LenProperties
  <2>2. step \in [(1 .. n) \X W -> W]
    <3>. SUFFICES ASSUME NEW i \in 1 .. n, NEW k \in W
                  PROVE  Next(seq[i], k) \in W
      OBVIOUS
    <3>. QED  BY <2>1, AppendProperties
  <2>3. \A i \in 1 .. n, k \in W : step[<<i, k>>] = Next(seq[i], k)
    OBVIOUS
  <2>4. <<>> \in W
    OBVIOUS
  <2>. HIDE DEF step, Next, n, W
  <2>5. PICK iter : Iterates(iter, W, <<>>, n, step)
    BY <1>0, <2>2, <2>4, IterationExists
  <2>6. ASSUME NEW s \in SUBSET (1 .. n)
        PROVE  iter[s] = IF s = {} THEN <<>>
                         ELSE Next(seq[Max(s)], iter[s \ {Max(s)}])
    <3>1. CASE s # {}
      <4>1. Max(s) \in 1 .. n
        BY <1>0, <3>1, MaxOfSome
      <4>2. iter[s \ {Max(s)}] \in W
        BY <2>5 DEF Iterates
      <4>. QED  BY <3>1, <4>1, <4>2, <2>3, <2>5 DEF Iterates
    <3>. QED  BY <3>1, <2>5 DEF Iterates
  <2>7. Fold(iter)
    BY <1>0, <2>5, <2>6 DEF Iterates
  <2>. QED  BY <2>7
<1>2. Filter(seq, S) = all[DOMAIN seq]
  BY DEF Filter, FoldLeft, MapThenFoldSet
<1>3. Fold(all)
  BY <1>1
<1>. HIDE DEF all
<1>. DEFINE kept == [i \in 0 .. n |-> all[1 .. i]]
<1>4. kept[0] = <<>>
  BY <1>0, <1>3
<1>5. ASSUME NEW i \in 1 .. n
      PROVE  kept[i] = Next(seq[i], kept[i - 1])
  <2>0. i \in Nat /\ 1 .. i # {} /\ i \in 1 .. i
    BY <1>0
  <2>1. Max(1 .. i) = i
    <3>1. Max(1 .. i) \in 1 .. i /\ \A y \in 1 .. i : y <= Max(1 .. i)
      BY <2>0, MaxOfSome
    <3>. QED  BY <2>0, <3>1
  <2>2. (1 .. i) \ {i} = 1 .. i - 1
    OBVIOUS
  <2>3. 1 .. i \in SUBSET (1 .. n)
    BY <1>0, <2>0
  <2>4. kept[i] = all[1 .. i] /\ kept[i - 1] = all[1 .. i - 1]
    BY <1>0, <2>0
  <2>5. all[1 .. i] = Next(seq[Max(1 .. i)], all[(1 .. i) \ {Max(1 .. i)}])
    <3>. HIDE DEF Next
    <3>. QED  BY <1>0, <1>3, <2>0, <2>3
  <2>. QED  BY <2>1, <2>2, <2>4, <2>5
<1>6. Filter(seq, S) = kept[n]
  BY <1>0, <1>2
<1>. QED  BY <1>4, <1>5, <1>6

-----------------------------------------------------------------------------

\* What is left of a sequence when its first k are dropped.
Dropped(seq, k) == [j \in 1 .. Len(seq) - k |-> seq[j + k]]

\* If what comes after a kept one is kept, only a beginning is dropped.
LEMMA FilterDrops ==
    ASSUME NEW V, NEW seq \in Seq(V), NEW S,
           \A i, j \in 1 .. Len(seq) : i < j /\ seq[i] \in S => seq[j] \in S
    PROVE  \E k \in 0 .. Len(seq) :
               /\ Filter(seq, S) = Dropped(seq, k)
               /\ \A i \in 1 .. Len(seq) : seq[i] \in S <=> i > k
<1>. DEFINE n == Len(seq)
            At(k, i) == [j \in 1 .. i - k |-> seq[j + k]]
<1>0. n \in Nat /\ \A i \in 1 .. n : seq[i] \in V
  BY LenProperties
<1>1. PICK kept :
          /\ kept[0] = <<>>
          /\ \A i \in 1 .. Len(seq) :
                 kept[i] = IF seq[i] \in S THEN Append(kept[i - 1], seq[i])
                           ELSE kept[i - 1]
          /\ Filter(seq, S) = kept[Len(seq)]
  BY FilterUnfolds
<1>. DEFINE Drops(i) == \E k \in 0 .. i :
                            /\ kept[i] = At(k, i)
                            /\ \A h \in 1 .. i : seq[h] \in S <=> h > k
<1>2. Drops(0)
  <2>1. kept[0] = At(0, 0)
    BY <1>1
  <2>. QED  BY <2>1
<1>3. ASSUME NEW i \in Nat, i + 1 <= n, Drops(i) PROVE Drops(i + 1)
  <2>1. PICK k \in 0 .. i : /\ kept[i] = At(k, i)
                            /\ \A h \in 1 .. i : seq[h] \in S <=> h > k
    BY <1>3
  <2>2. i + 1 \in 1 .. n /\ (i + 1) - 1 = i
    BY <1>3
  <2>3. CASE seq[i + 1] \in S
    <3>1. kept[i + 1] = Append(At(k, i), seq[i + 1])
      BY <1>1, <2>1, <2>2, <2>3
    <3>2. At(k, i) \in Seq(V) /\ Len(At(k, i)) = i - k
      BY <1>0, <2>1, <2>2
    <3>3. Append(At(k, i), seq[i + 1]) = At(k, i + 1)
      BY <2>1, <3>2
    <3>4. ASSUME NEW h \in 1 .. i + 1 PROVE seq[h] \in S <=> h > k
      <4>1. CASE h = i + 1
        BY <2>1, <2>3, <4>1
      <4>2. CASE h \in 1 .. i
        BY <2>1, <4>2
      <4>. QED  BY <4>1, <4>2
    <3>5. k \in 0 .. i + 1
      BY <2>1
    <3>. HIDE DEF At
    <3>. QED  BY <3>1, <3>3, <3>4, <3>5
  <2>4. CASE seq[i + 1] \notin S
    <3>1. \A h \in 1 .. i : seq[h] \notin S
      BY <2>2, <2>4
    <3>2. k = i
      BY <2>1, <3>1
    <3>3. kept[i + 1] = At(i + 1, i + 1)
      BY <1>1, <2>1, <2>2, <2>4, <3>2
    <3>4. \A h \in 1 .. i + 1 : seq[h] \in S <=> h > i + 1
      BY <2>4, <3>1
    <3>5. i + 1 \in 0 .. i + 1
      OBVIOUS
    <3>. HIDE DEF At
    <3>. QED  BY <3>3, <3>4, <3>5
  <2>. QED  BY <2>3, <2>4
<1>4. Drops(n)
  <2>. HIDE DEF Drops
  <2>. DEFINE T == {i \in Nat : i <= n => Drops(i)}
  <2>1. 0 \in T
    BY <1>2
  <2>2. ASSUME NEW i \in Nat, i \in T PROVE i + 1 \in T
    BY <1>0, <1>3, <2>2
  <2>. HIDE DEF T
  <2>3. n \in T
    BY <1>0, <2>1, <2>2, Induction
  <2>. QED  BY <2>3 DEF T
<1>. QED  BY <1>1, <1>4 DEF Dropped

\* What is kept was there, and in the same order.
LEMMA FilterKeeps ==
    ASSUME NEW V, NEW seq \in Seq(V), NEW S
    PROVE  /\ Filter(seq, S) \in Seq(V)
           /\ \A a \in 1 .. Len(Filter(seq, S)) : Filter(seq, S)[a] \in S
           /\ \A a, b \in 1 .. Len(Filter(seq, S)) :
                  a < b => \E c, d \in 1 .. Len(seq) :
                               /\ c < d
                               /\ Filter(seq, S)[a] = seq[c]
                               /\ Filter(seq, S)[b] = seq[d]
<1>. DEFINE n == Len(seq)
<1>0. n \in Nat /\ \A i \in 1 .. n : seq[i] \in V
  BY LenProperties
<1>1. PICK kept :
          /\ kept[0] = <<>>
          /\ \A i \in 1 .. Len(seq) :
                 kept[i] = IF seq[i] \in S THEN Append(kept[i - 1], seq[i])
                           ELSE kept[i - 1]
          /\ Filter(seq, S) = kept[Len(seq)]
  BY FilterUnfolds
<1>. DEFINE Known(i) ==
              /\ kept[i] \in Seq(V)
              /\ \A a \in 1 .. Len(kept[i]) :
                     kept[i][a] \in S /\ \E c \in 1 .. i : kept[i][a] = seq[c]
              /\ \A a, b \in 1 .. Len(kept[i]) :
                     a < b => \E c, d \in 1 .. i :
                         c < d /\ kept[i][a] = seq[c] /\ kept[i][b] = seq[d]
<1>2. Known(0)
  BY <1>1
<1>3. ASSUME NEW i \in Nat, i + 1 <= n, Known(i) PROVE Known(i + 1)
  <2>1. i + 1 \in 1 .. n /\ (i + 1) - 1 = i
    BY <1>3
  <2>2. CASE seq[i + 1] \notin S
    <3>1. kept[i + 1] = kept[i]
      BY <1>1, <2>1, <2>2
    <3>2. \A c \in 1 .. i : c \in 1 .. i + 1
      OBVIOUS
    <3>. QED  BY <1>3, <3>1, <3>2
  <2>3. CASE seq[i + 1] \in S
    <3>. DEFINE m == Len(kept[i])
    <3>1. kept[i + 1] = Append(kept[i], seq[i + 1])
      BY <1>1, <2>1, <2>3
    <3>2. /\ m \in Nat
          /\ kept[i + 1] \in Seq(V)
          /\ Len(kept[i + 1]) = m + 1
          /\ \A a \in 1 .. m : kept[i + 1][a] = kept[i][a]
          /\ kept[i + 1][m + 1] = seq[i + 1]
      BY <1>0, <1>3, <2>1, <3>1, AppendProperties, LenProperties
    <3>3. \A a \in 1 .. m + 1 : a \in 1 .. m \/ a = m + 1
      BY <3>2
    <3>4. \A c \in 1 .. i : c \in 1 .. i + 1 /\ c < i + 1
      OBVIOUS
    <3>5. ASSUME NEW a \in 1 .. m + 1
          PROVE  /\ kept[i + 1][a] \in S
                 /\ \E c \in 1 .. i + 1 : kept[i + 1][a] = seq[c]
      <4>1. CASE a \in 1 .. m
        <5>1. PICK c \in 1 .. i : kept[i][a] = seq[c]
          BY <1>3, <4>1
        <5>. QED  BY <1>3, <3>2, <3>4, <4>1, <5>1
      <4>2. CASE a = m + 1
        <5>1. i + 1 \in 1 .. i + 1
          OBVIOUS
        <5>. QED  BY <2>3, <3>2, <4>2, <5>1
      <4>. QED  BY <3>3, <4>1, <4>2
    <3>6. ASSUME NEW a \in 1 .. m + 1, NEW b \in 1 .. m + 1, a < b
          PROVE  \E c, d \in 1 .. i + 1 :
                     /\ c < d
                     /\ kept[i + 1][a] = seq[c]
                     /\ kept[i + 1][b] = seq[d]
      <4>1. a \in 1 .. m
        BY <3>2, <3>3, <3>6
      <4>2. CASE b \in 1 .. m
        <5>1. PICK c, d \in 1 .. i :
                  c < d /\ kept[i][a] = seq[c] /\ kept[i][b] = seq[d]
          BY <1>3, <3>6, <4>1, <4>2
        <5>. QED  BY <3>2, <3>4, <4>1, <4>2, <5>1
      <4>3. CASE b = m + 1
        <5>1. PICK c \in 1 .. i : kept[i][a] = seq[c]
          BY <1>3, <4>1
        <5>2. c \in 1 .. i + 1 /\ i + 1 \in 1 .. i + 1 /\ c < i + 1
          BY <3>4
        <5>. QED  BY <3>2, <4>1, <4>3, <5>1, <5>2
      <4>. QED  BY <3>3, <4>2, <4>3
    <3>7. 1 .. Len(kept[i + 1]) = 1 .. m + 1
      BY <3>2
    <3>. HIDE DEF m
    <3>. QED  BY <3>2, <3>5, <3>6, <3>7
  <2>. QED  BY <2>2, <2>3
<1>4. Known(n)
  <2>. HIDE DEF Known
  <2>. DEFINE T == {i \in Nat : i <= n => Known(i)}
  <2>1. 0 \in T
    BY <1>2
  <2>2. ASSUME NEW i \in Nat, i \in T PROVE i + 1 \in T
    BY <1>0, <1>3, <2>2
  <2>. HIDE DEF T
  <2>3. n \in T
    BY <1>0, <2>1, <2>2, Induction
  <2>. QED  BY <2>3 DEF T
<1>. QED  BY <1>1, <1>4

-----------------------------------------------------------------------------

\* What dropping does to what it is a part of.
LEMMA DroppedIsSeq ==
    ASSUME NEW V, NEW seq \in Seq(V), NEW k \in 0 .. Len(seq)
    PROVE  /\ Dropped(seq, k) \in Seq(V)
           /\ Len(Dropped(seq, k)) = Len(seq) - k
           /\ \A j \in 1 .. Len(seq) - k : Dropped(seq, k)[j] = seq[j + k]
<1>1. \A i \in 1 .. Len(seq) : seq[i] \in V
  BY LenProperties
<1>2. \A j \in 1 .. Len(seq) - k : seq[j + k] \in V
  BY <1>1, LenProperties
<1>3. Len(seq) - k \in Nat
  BY LenProperties
<1>. QED  BY <1>2, <1>3 DEF Dropped

LEMMA DroppedAppend ==
    ASSUME NEW V, NEW seq \in Seq(V), NEW k \in 0 .. Len(seq), NEW x \in V
    PROVE  /\ k \in 0 .. Len(Append(seq, x))
           /\ Append(Dropped(seq, k), x) = Dropped(Append(seq, x), k)
<1>. DEFINE n == Len(seq)
<1>1. n \in Nat /\ Append(seq, x) \in Seq(V) /\ Len(Append(seq, x)) = n + 1
  BY LenProperties, AppendProperties
<1>2. k \in 0 .. n + 1
  BY <1>1
<1>3. /\ Append(Dropped(seq, k), x) \in Seq(V)
      /\ Len(Append(Dropped(seq, k), x)) = (n + 1) - k
      /\ \A j \in 1 .. n - k : Append(Dropped(seq, k), x)[j] = seq[j + k]
      /\ Append(Dropped(seq, k), x)[n - k + 1] = x
  <2>1. /\ Dropped(seq, k) \in Seq(V)
        /\ Len(Dropped(seq, k)) = n - k
        /\ \A j \in 1 .. n - k : Dropped(seq, k)[j] = seq[j + k]
    BY DroppedIsSeq
  <2>. QED  BY <1>1, <2>1, AppendProperties
<1>4. /\ Dropped(Append(seq, x), k) \in Seq(V)
      /\ Len(Dropped(Append(seq, x), k)) = (n + 1) - k
      /\ \A j \in 1 .. (n + 1) - k :
             Dropped(Append(seq, x), k)[j] = Append(seq, x)[j + k]
  <2>. DEFINE app == Append(seq, x)
  <2>1. app \in Seq(V) /\ Len(app) = n + 1 /\ k \in 0 .. Len(app)
    BY <1>1, <1>2
  <2>. HIDE DEF app
  <2>2. /\ Dropped(app, k) \in Seq(V)
        /\ Len(Dropped(app, k)) = (n + 1) - k
        /\ \A j \in 1 .. (n + 1) - k : Dropped(app, k)[j] = app[j + k]
    BY <2>1, DroppedIsSeq
  <2>. QED  BY <2>2 DEF app
<1>5. ASSUME NEW j \in 1 .. (n + 1) - k
      PROVE  Append(Dropped(seq, k), x)[j] = Dropped(Append(seq, x), k)[j]
  <2>1. CASE j = n - k + 1
    <3>1. j + k = n + 1
      BY <1>1, <2>1
    <3>2. Append(seq, x)[n + 1] = x
      BY AppendProperties
    <3>3. Dropped(Append(seq, x), k)[j] = Append(seq, x)[j + k]
      BY <1>4
    <3>. QED  BY <1>3, <2>1, <3>1, <3>2, <3>3
  <2>2. CASE j \in 1 .. n - k
    <3>1. j + k \in 1 .. n
      BY <1>1, <2>2
    <3>2. Append(seq, x)[j + k] = seq[j + k]
      BY <3>1, AppendProperties
    <3>3. Dropped(Append(seq, x), k)[j] = Append(seq, x)[j + k]
      BY <1>4
    <3>. QED  BY <1>3, <2>2, <3>2, <3>3
  <2>3. j = n - k + 1 \/ j \in 1 .. n - k
    BY <1>1
  <2>. QED  BY <2>1, <2>2, <2>3
<1>6. Append(Dropped(seq, k), x) = Dropped(Append(seq, x), k)
  <2>. DEFINE one == Append(Dropped(seq, k), x)
              other == Dropped(Append(seq, x), k)
  <2>1. /\ one \in Seq(V) /\ other \in Seq(V)
        /\ Len(one) = (n + 1) - k /\ Len(one) = Len(other)
        /\ \A j \in 1 .. (n + 1) - k : one[j] = other[j]
    BY <1>3, <1>4, <1>5
  <2>. HIDE DEF one, other
  <2>2. one = other
    BY <2>1, SeqEqual
  <2>. QED  BY <2>2 DEF one, other
<1>. QED  BY <1>1, <1>2, <1>6

LEMMA DroppedTwice ==
    ASSUME NEW V, NEW seq \in Seq(V), NEW k \in 0 .. Len(seq),
           NEW m \in 0 .. Len(seq) - k
    PROVE  /\ k + m \in 0 .. Len(seq)
           /\ Dropped(Dropped(seq, k), m) = Dropped(seq, k + m)
<1>1. Len(seq) \in Nat /\ k + m \in 0 .. Len(seq)
  BY LenProperties
<1>2. Len(Dropped(seq, k)) = Len(seq) - k
  BY DroppedIsSeq
<1>3. \A j \in 1 .. (Len(seq) - k) - m : Dropped(seq, k)[j + m] = seq[j + (k + m)]
  <2>. SUFFICES ASSUME NEW j \in 1 .. (Len(seq) - k) - m
                PROVE  Dropped(seq, k)[j + m] = seq[j + (k + m)]
    OBVIOUS
  <2>1. j + m \in 1 .. Len(seq) - k /\ (j + m) + k = j + (k + m)
    BY <1>1
  <2>. QED  BY <2>1, DroppedIsSeq
<1>4. Len(seq) - (k + m) = (Len(seq) - k) - m
  BY <1>1
<1>. QED  BY <1>1, <1>2, <1>3, <1>4 DEF Dropped

\* Who drops more has an end of what is left to who drops less.
LEMMA DroppedIsSuffix ==
    ASSUME NEW V, NEW seq \in Seq(V), NEW k \in 0 .. Len(seq), NEW m \in k .. Len(seq)
    PROVE  IsSuffix(Dropped(seq, m), Dropped(seq, k))
<1>. DEFINE n == Len(seq)
            short == Reverse(Dropped(seq, m))
            long == Reverse(Dropped(seq, k))
<1>0. n \in Nat /\ m \in 0 .. n
  BY LenProperties
<1>1. /\ short = [i \in 1 .. n - m |-> seq[n - i + 1]]
      /\ long = [i \in 1 .. n - k |-> seq[n - i + 1]]
  <2>. SUFFICES ASSUME NEW h \in 0 .. n
                PROVE  Reverse(Dropped(seq, h)) = [i \in 1 .. n - h |-> seq[n - i + 1]]
    BY <1>0
  <2>1. Len(Dropped(seq, h)) = n - h
    BY DroppedIsSeq
  <2>2. ASSUME NEW i \in 1 .. n - h
        PROVE  Dropped(seq, h)[((n - h) - i) + 1] = seq[n - i + 1]
    <3>1. /\ ((n - h) - i) + 1 \in 1 .. n - h
          /\ (((n - h) - i) + 1) + h = n - i + 1
      BY <1>0
    <3>. QED  BY <3>1, DroppedIsSeq
  <2>. QED  BY <2>1, <2>2 DEF Reverse
<1>. HIDE DEF short, long
<1>2. /\ \A i \in 1 .. n - m : n - i + 1 \in 1 .. n
      /\ \A i \in 1 .. n - k : n - i + 1 \in 1 .. n
      /\ n - m \in Nat /\ n - k \in Nat /\ n - m <= n - k
  BY <1>0
<1>3. \A i \in 1 .. n : seq[i] \in V
  BY LenProperties
<1>4. /\ short \in Seq(V) /\ Len(short) = n - m
      /\ long \in Seq(V) /\ Len(long) = n - k
  <2>. SUFFICES ASSUME NEW h \in Nat, \A i \in 1 .. h : n - i + 1 \in 1 .. n,
                       NEW s, s = [i \in 1 .. h |-> seq[n - i + 1]]
                PROVE  s \in Seq(V) /\ Len(s) = h
    BY <1>1, <1>2
  <2>1. \A i \in 1 .. h : seq[n - i + 1] \in V
    BY <1>3
  <2>. QED  BY <2>1
<1>5. \A i \in 1 .. n - m : short[i] \in V /\ long[i] = short[i]
  BY <1>1, <1>2, <1>3
<1>6. SubSeq(short, 1, n - m) = SubSeq(long, 1, n - m)
  <2>. DEFINE one == SubSeq(short, 1, n - m)
              other == SubSeq(long, 1, n - m)
  <2>1. /\ one \in Seq(V)
        /\ Len(one) = IF 1 <= n - m THEN n - m - 1 + 1 ELSE 0
        /\ \A i \in 1 .. n - m - 1 + 1 : one[i] = short[1 + i - 1]
    BY <1>2, <1>5, SubSeqProperties
  <2>2. /\ other \in Seq(V)
        /\ Len(other) = IF 1 <= n - m THEN n - m - 1 + 1 ELSE 0
        /\ \A i \in 1 .. n - m - 1 + 1 : other[i] = long[1 + i - 1]
    <3>1. \A i \in 1 .. n - m : long[i] \in V
      BY <1>5
    <3>. QED  BY <1>2, <3>1, SubSeqProperties
  <2>. HIDE DEF one, other
  <2>3. Len(one) = Len(other) /\ \A i \in 1 .. Len(one) : one[i] = other[i]
    <3>1. Len(one) = n - m /\ Len(other) = n - m
      BY <1>2, <2>1, <2>2
    <3>2. ASSUME NEW i \in 1 .. n - m PROVE one[i] = other[i]
      <4>1. i \in 1 .. n - m - 1 + 1 /\ 1 + i - 1 = i
        BY <1>2
      <4>. QED  BY <1>5, <2>1, <2>2, <4>1
    <3>. QED  BY <3>1, <3>2
  <2>4. one = other
    BY <2>1, <2>2, <2>3, SeqEqual
  <2>. QED  BY <2>4 DEF one, other
<1>. QED  BY <1>2, <1>4, <1>6 DEF IsSuffix, IsPrefix, short, long

=============================================================================
