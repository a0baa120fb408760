------------------------- MODULE Calculations_proofs -------------------------
(***************************************************************************)
(* Proofs about ByteStreams, HistoryMigration and Calculations: that the   *)
(* algorithms are right for inputs of any size.  What a loop computes is a *)
(* recursive function; that it exists, and what holds of it after every    *)
(* turn, is shown by taking the least turn at which it would not.          *)
(***************************************************************************)
EXTENDS Calculations, ByteStreams, HistoryMigration, SequenceTheorems, WellFoundedInduction,
        NaturalsInduction, TLAPS

(* Induction, with sets of numbers in the place of predicates.             *)
LEMMA LeastOf ==
  ASSUME NEW T \in SUBSET Nat, T # {}
  PROVE  \E x \in T : \A y \in T : x <= y
<1>1. PICK x \in T : \A y \in T : ~(<<y, x>> \in OpToRel(<, Nat))
  BY WFMin, NatLessThanWellFounded
<1>2. \A y \in T : ~(y < x)
  BY <1>1 DEF OpToRel
<1> QED BY <1>2

LEMMA Induction ==
  ASSUME NEW T, 0 \in T, \A n \in Nat : n \in T => n + 1 \in T
  PROVE  Nat \subseteq T
<1> SUFFICES ASSUME Nat \ T # {} PROVE FALSE
  OBVIOUS
<1>1. PICK x \in Nat \ T : \A y \in Nat \ T : x <= y
  BY LeastOf
<1>2. x - 1 \in Nat
  BY <1>1
<1>3. x - 1 \in T
  BY <1>1, <1>2
<1> QED BY <1>2, <1>3

(* A loop of m turns, the n-th of which does F[n], has a state before and  *)
(* after each.                                                             *)
IsLoop(f, m, c, F) == f[0] = c /\ \A n \in 1..m : f[n] = F[n][f[n - 1]]

LEMMA LoopExists ==
  ASSUME NEW m \in Nat, NEW S, NEW c \in S, NEW F \in [1..m -> [S -> S]]
  PROVE  \E f \in [0..m -> S] : IsLoop(f, m, c, F)
<1> DEFINE Upto(k) == {f \in [0..k -> S] : f[0] = c /\ \A n \in 1..k : f[n] = F[n][f[n - 1]]}
           T == {k \in Nat : k <= m => Upto(k) # {}}
<1>1. 0 \in T
  <2>1. [n \in 0..0 |-> c] \in Upto(0)
    OBVIOUS
  <2> QED BY <2>1
<1>2. ASSUME NEW k \in Nat, k \in T PROVE k + 1 \in T
  <2> SUFFICES ASSUME k + 1 <= m PROVE Upto(k + 1) # {}
    OBVIOUS
  <2>1. PICK f \in Upto(k) : TRUE
    BY <1>2
  <2>2. k + 1 \in 1..m /\ k \in 0..k
    OBVIOUS
  <2>3. F[k + 1] \in [S -> S] /\ f[k] \in S
    BY <2>1, <2>2
  <2> DEFINE v == F[k + 1][f[k]]
             g == [n \in 0..(k + 1) |-> IF n = k + 1 THEN v ELSE f[n]]
  <2>4. v \in S
    BY <2>3
  <2> HIDE DEF v
  <2>5. g \in [0..(k + 1) -> S]
    BY <2>1, <2>4
  <2>6. g[0] = c
    BY <2>1
  <2>7. \A n \in 1..k : g[n] = F[n][g[n - 1]]
    BY <2>1
  <2>8. g[k + 1] = F[k + 1][g[k]]
    BY DEF v
  <2>9. g \in Upto(k + 1)
    BY <2>5, <2>6, <2>7, <2>8
  <2> QED BY <2>9
<1>3. m \in T
  <2> HIDE DEF T
  <2>1. Nat \subseteq T
    BY <1>1, <1>2, Induction
  <2> QED BY <2>1
<1>4. PICK f \in Upto(m) : TRUE
  BY <1>3
<1> QED BY <1>4 DEF IsLoop

(* Induction up to a bound. *)
LEMMA InductionUpto ==
  ASSUME NEW m \in Nat, NEW T, 0 \in T, \A k \in 1..m : k - 1 \in T => k \in T
  PROVE  0..m \subseteq T
<1> DEFINE U == {k \in Nat : k <= m => k \in T}
<1>1. 0 \in U
  OBVIOUS
<1>2. ASSUME NEW k \in Nat, k \in U PROVE k + 1 \in U
  <2> SUFFICES ASSUME k + 1 <= m PROVE k + 1 \in T
    OBVIOUS
  <2>1. k + 1 \in 1..m /\ (k + 1) - 1 = k /\ k \in T
    BY <1>2
  <2> QED BY <2>1
<1>3. Nat \subseteq U
  <2> HIDE DEF U
  <2> QED BY <1>1, <1>2, Induction
<1> QED BY <1>3

(* What a loop starts in and each turn stays in, it ends in. *)
LEMMA LoopType ==
  ASSUME NEW m \in Nat, NEW S, NEW f, f[0] \in S, \A k \in 1..m : f[k - 1] \in S => f[k] \in S
  PROVE  \A k \in 0..m : f[k] \in S
<1> DEFINE T == {k \in 0..m : f[k] \in S}
<1>1. 0 \in T
  OBVIOUS
<1>2. ASSUME NEW k \in 1..m, k - 1 \in T PROVE k \in T
  <2>1. f[k] \in S
    BY <1>2
  <2> QED BY <2>1
<1> HIDE DEF T
<1>3. 0..m \subseteq T
  BY <1>1, <1>2, InductionUpto
<1> QED BY <1>3 DEF T

-----------------------------------------------------------------------------
(* Parts of sequences. *)
LEMMA FromFacts ==
  ASSUME NEW S, NEW s \in Seq(S), NEW i \in 1..(Len(s) + 1)
  PROVE  /\ From(s, i) \in Seq(S)
         /\ Len(From(s, i)) = Len(s) - i + 1
         /\ \A j \in 1..(Len(s) - i + 1) : From(s, i)[j] = s[i + j - 1]
<1>1. Len(s) \in Nat /\ \A j \in i..Len(s) : s[j] \in S
  BY LenProperties, ElementOfSeq
<1> QED BY <1>1, SubSeqProperties DEF From

LEMMA FromFrom ==
  ASSUME NEW S, NEW s \in Seq(S), NEW i \in 1..(Len(s) + 1), NEW j \in 1..(Len(s) - i + 2)
  PROVE  From(From(s, i), j) = From(s, i + j - 1)
<1>1. Len(s) \in Nat
  BY LenProperties
<1>2. /\ From(s, i) \in Seq(S)
      /\ Len(From(s, i)) = Len(s) - i + 1
      /\ \A k \in 1..(Len(s) - i + 1) : From(s, i)[k] = s[i + k - 1]
  BY FromFacts
<1>3. j \in 1..(Len(From(s, i)) + 1) /\ i + j - 1 \in 1..(Len(s) + 1)
  BY <1>1, <1>2
<1> DEFINE u == From(s, i)
<1>a. u \in Seq(S) /\ Len(u) = Len(s) - i + 1 /\ j \in 1..(Len(u) + 1)
  BY <1>2, <1>3
<1> HIDE DEF u
<1>b. /\ From(u, j) \in Seq(S)
      /\ Len(From(u, j)) = Len(u) - j + 1
      /\ \A k \in 1..(Len(u) - j + 1) : From(u, j)[k] = u[j + k - 1]
  BY <1>a, FromFacts
<1>c. /\ From(u, j) \in Seq(S)
      /\ Len(From(u, j)) = Len(s) - i + 1 - j + 1
      /\ \A k \in 1..(Len(s) - i + 1 - j + 1) : From(u, j)[k] = u[j + k - 1]
  BY <1>a, <1>b
<1>4. /\ From(From(s, i), j) \in Seq(S)
      /\ Len(From(From(s, i), j)) = Len(s) - i + 1 - j + 1
      /\ \A k \in 1..(Len(s) - i + 1 - j + 1) : From(From(s, i), j)[k] = From(s, i)[j + k - 1]
  BY <1>c DEF u
<1>5. /\ From(s, i + j - 1) \in Seq(S)
      /\ Len(From(s, i + j - 1)) = Len(s) - (i + j - 1) + 1
      /\ \A k \in 1..(Len(s) - (i + j - 1) + 1) : From(s, i + j - 1)[k] = s[i + j - 1 + k - 1]
  BY <1>3, FromFacts
<1>6. \A k \in 1..Len(From(From(s, i), j)) : From(From(s, i), j)[k] = From(s, i + j - 1)[k]
  <2> TAKE k \in 1..Len(From(From(s, i), j))
  <2>1. k \in 1..(Len(s) - i + 1 - j + 1) /\ j + k - 1 \in 1..(Len(s) - i + 1)
        /\ k \in 1..(Len(s) - (i + j - 1) + 1)
    BY <1>1, <1>4
  <2>2. i + (j + k - 1) - 1 = i + j - 1 + k - 1
    BY <1>1, <2>1
  <2> QED BY <2>1, <2>2, <1>2, <1>4, <1>5
<1>7. Len(From(From(s, i), j)) = Len(From(s, i + j - 1))
  BY <1>1, <1>4, <1>5
<1> QED BY <1>4, <1>5, <1>6, <1>7, SeqEqual

LEMMA FromConcat ==
  ASSUME NEW S, NEW s \in Seq(S), NEW t \in Seq(S), NEW i \in 1..(Len(s) + 1)
  PROVE  From(s \o t, i) = From(s, i) \o t
<1>1. Len(s) \in Nat /\ Len(t) \in Nat
  BY LenProperties
<1>2. /\ s \o t \in Seq(S)
      /\ Len(s \o t) = Len(s) + Len(t)
      /\ \A k \in 1..(Len(s) + Len(t)) : (s \o t)[k] = IF k <= Len(s) THEN s[k] ELSE t[k - Len(s)]
  BY ConcatProperties
<1>3. /\ From(s, i) \in Seq(S)
      /\ Len(From(s, i)) = Len(s) - i + 1
      /\ \A k \in 1..(Len(s) - i + 1) : From(s, i)[k] = s[i + k - 1]
  BY FromFacts
<1>4. i \in 1..(Len(s \o t) + 1)
  BY <1>1, <1>2
<1> DEFINE w == s \o t
           u == From(s, i)
<1>a. w \in Seq(S) /\ Len(w) = Len(s) + Len(t) /\ i \in 1..(Len(w) + 1)
      /\ u \in Seq(S) /\ Len(u) = Len(s) - i + 1
  BY <1>2, <1>3, <1>4
<1> HIDE DEF w, u
<1>b. /\ From(w, i) \in Seq(S)
      /\ Len(From(w, i)) = Len(w) - i + 1
      /\ \A k \in 1..(Len(w) - i + 1) : From(w, i)[k] = w[i + k - 1]
  BY <1>a, FromFacts
<1>c. /\ From(w, i) \in Seq(S)
      /\ Len(From(w, i)) = Len(s) + Len(t) - i + 1
      /\ \A k \in 1..(Len(s) + Len(t) - i + 1) : From(w, i)[k] = w[i + k - 1]
  BY <1>a, <1>b
<1>d. /\ u \o t \in Seq(S)
      /\ Len(u \o t) = Len(u) + Len(t)
      /\ \A k \in 1..(Len(u) + Len(t)) : (u \o t)[k] =
           IF k <= Len(u) THEN u[k] ELSE t[k - Len(u)]
  BY <1>a, ConcatProperties
<1>e. /\ u \o t \in Seq(S)
      /\ Len(u \o t) = Len(s) - i + 1 + Len(t)
      /\ \A k \in 1..(Len(s) - i + 1 + Len(t)) : (u \o t)[k] =
           IF k <= Len(s) - i + 1 THEN u[k] ELSE t[k - (Len(s) - i + 1)]
  BY <1>a, <1>d
<1>5. /\ From(s \o t, i) \in Seq(S)
      /\ Len(From(s \o t, i)) = Len(s) + Len(t) - i + 1
      /\ \A k \in 1..(Len(s) + Len(t) - i + 1) : From(s \o t, i)[k] = (s \o t)[i + k - 1]
  BY <1>c DEF w
<1>6. /\ From(s, i) \o t \in Seq(S)
      /\ Len(From(s, i) \o t) = Len(s) - i + 1 + Len(t)
      /\ \A k \in 1..(Len(s) - i + 1 + Len(t)) : (From(s, i) \o t)[k] =
           IF k <= Len(s) - i + 1 THEN From(s, i)[k] ELSE t[k - (Len(s) - i + 1)]
  BY <1>e DEF u
<1>7. ASSUME NEW k \in 1..Len(From(s \o t, i))
      PROVE  From(s \o t, i)[k] = (From(s, i) \o t)[k]
  <2>1. /\ k \in 1..(Len(s) + Len(t) - i + 1) /\ k \in 1..(Len(s) - i + 1 + Len(t))
        /\ i + k - 1 \in 1..(Len(s) + Len(t))
        /\ i + k - 1 - Len(s) = k - (Len(s) - i + 1)
        /\ i + k - 1 <= Len(s) <=> k <= Len(s) - i + 1
        /\ k <= Len(s) - i + 1 => k \in 1..(Len(s) - i + 1)
    BY <1>1, <1>5
  <2> QED BY <2>1, <1>2, <1>3, <1>5, <1>6
<1>8. Len(From(s \o t, i)) = Len(From(s, i) \o t)
  BY <1>1, <1>5, <1>6
<1> QED BY <1>5, <1>6, <1>7, <1>8, SeqEqual

-----------------------------------------------------------------------------
(* Where a pattern occurs, symbol by symbol. *)
LEMMA OccursPointwise ==
  ASSUME NEW S, NEW p \in Seq(S), NEW s \in Seq(S), NEW i \in Nat \ {0}
  PROVE  Occurs(p, s, i) <=>
           /\ i + Len(p) - 1 <= Len(s)
           /\ \A j \in 1..Len(p) : s[i + j - 1] = p[j]
<1>1. Len(s) \in Nat /\ Len(p) \in Nat
  BY LenProperties
<1> SUFFICES ASSUME i + Len(p) - 1 <= Len(s)
             PROVE  SubSeq(s, i, i + Len(p) - 1) = p <=>
                      \A j \in 1..Len(p) : s[i + j - 1] = p[j]
  BY DEF Occurs
<1> DEFINE n == i + Len(p) - 1
           u == SubSeq(s, i, n)
<1>2. n \in Int /\ \A j \in i..n : s[j] \in S
  BY <1>1, ElementOfSeq
<1>3. n - i + 1 = Len(p) /\ (IF i <= n THEN n - i + 1 ELSE 0) = Len(p)
  BY <1>1
<1>4. /\ u \in Seq(S)
      /\ Len(u) = IF i <= n THEN n - i + 1 ELSE 0
      /\ \A j \in 1..(n - i + 1) : u[j] = s[i + j - 1]
  <2> HIDE DEF n
  <2> QED BY <1>2, SubSeqProperties
<1>5. u \in Seq(S) /\ Len(u) = Len(p) /\ \A j \in 1..Len(p) : u[j] = s[i + j - 1]
  BY <1>3, <1>4
<1> HIDE DEF u
<1>6. (\A j \in 1..Len(p) : u[j] = p[j]) => u = p
  BY <1>5, SeqEqual
<1>7. u = p <=> \A j \in 1..Len(p) : s[i + j - 1] = p[j]
  BY <1>5, <1>6
<1> QED BY <1>7 DEF u

(* Where it does in the rest of a sequence, it does in the whole. *)
LEMMA OccursInRest ==
  ASSUME NEW S, NEW p \in Seq(S), NEW s \in Seq(S), NEW k \in 1..(Len(s) + 1),
         NEW i \in Nat \ {0}
  PROVE  Occurs(p, From(s, k), i) <=> Occurs(p, s, k + i - 1)
<1>1. Len(s) \in Nat /\ Len(p) \in Nat
  BY LenProperties
<1> DEFINE u == From(s, k)
<1>2. u \in Seq(S) /\ Len(u) = Len(s) - k + 1 /\ \A j \in 1..(Len(s) - k + 1) : u[j] = s[k + j - 1]
  BY FromFacts
<1> HIDE DEF u
<1>3. k + i - 1 \in Nat \ {0}
  BY <1>1
<1>4. Occurs(p, u, i) <=>
        i + Len(p) - 1 <= Len(u) /\ \A j \in 1..Len(p) : u[i + j - 1] = p[j]
  <2>1. u \in Seq(S)
    BY <1>2
  <2> QED BY <2>1, OccursPointwise, Zenon
<1>5. Occurs(p, s, k + i - 1) <=>
        /\ (k + i - 1) + Len(p) - 1 <= Len(s)
        /\ \A j \in 1..Len(p) : s[(k + i - 1) + j - 1] = p[j]
  BY <1>3, OccursPointwise
<1>6. i + Len(p) - 1 <= Len(u) <=> (k + i - 1) + Len(p) - 1 <= Len(s)
  BY <1>1, <1>2
<1>7. ASSUME i + Len(p) - 1 <= Len(u), NEW j \in 1..Len(p)
      PROVE  u[i + j - 1] = s[(k + i - 1) + j - 1]
  <2>1. i + j - 1 \in 1..(Len(s) - k + 1) /\ k + (i + j - 1) - 1 = (k + i - 1) + j - 1
    BY <1>1, <1>2, <1>7
  <2> QED BY <2>1, <1>2
<1>8. Occurs(p, u, i) <=> Occurs(p, s, k + i - 1)
  BY <1>4, <1>5, <1>6, <1>7
<1> QED BY <1>8 DEF u

(* What comes behind does not change what is there. *)
LEMMA OccursBefore ==
  ASSUME NEW S, NEW p \in Seq(S), NEW s \in Seq(S), NEW t \in Seq(S), NEW i \in Nat \ {0},
         i + Len(p) - 1 <= Len(s)
  PROVE  Occurs(p, s \o t, i) <=> Occurs(p, s, i)
<1>1. Len(s) \in Nat /\ Len(p) \in Nat /\ Len(t) \in Nat
  BY LenProperties
<1> DEFINE w == s \o t
<1>2. /\ w \in Seq(S)
      /\ Len(w) = Len(s) + Len(t)
      /\ \A k \in 1..(Len(s) + Len(t)) : w[k] = IF k <= Len(s) THEN s[k] ELSE t[k - Len(s)]
  BY ConcatProperties
<1> HIDE DEF w
<1>3. Occurs(p, w, i) <=>
        i + Len(p) - 1 <= Len(w) /\ \A j \in 1..Len(p) : w[i + j - 1] = p[j]
  <2>1. w \in Seq(S)
    BY <1>2
  <2> QED BY <2>1, OccursPointwise
<1>4. Occurs(p, s, i) <=>
        i + Len(p) - 1 <= Len(s) /\ \A j \in 1..Len(p) : s[i + j - 1] = p[j]
  BY OccursPointwise
<1>5. \A j \in 1..Len(p) : w[i + j - 1] = s[i + j - 1]
  BY <1>1, <1>2
<1>6. i + Len(p) - 1 <= Len(w)
  BY <1>1, <1>2
<1>7. Occurs(p, w, i) <=> Occurs(p, s, i)
  BY <1>3, <1>4, <1>5, <1>6
<1> QED BY <1>7 DEF w

-----------------------------------------------------------------------------
(* indexOf finds the first of the places there are. *)
LEMMA IndexFacts ==
  ASSUME NEW p, NEW s, Len(s) \in Nat, NEW from \in Nat \ {0}
  PROVE  LET k == IndexFrom(p, s, from) IN
         \/ k = 0 /\ \A i \in from..Len(s) : ~Occurs(p, s, i)
         \/ /\ k \in from..Len(s)
            /\ Occurs(p, s, k)
            /\ \A i \in from..(k - 1) : ~Occurs(p, s, i)
<1> DEFINE at == {i \in from..Len(s) : Occurs(p, s, i)}
<1>1. CASE at = {}
  BY <1>1 DEF IndexFrom
<1>2. CASE at # {}
  <2>1. at \subseteq Nat
    OBVIOUS
  <2>2. PICK m \in at : \A j \in at : m <= j
    <3> HIDE DEF at
    <3> QED BY <1>2, <2>1, LeastOf
  <2> DEFINE k == CHOOSE i \in at : \A j \in at : i <= j
  <2>3. k \in at /\ \A j \in at : k <= j
    <3> HIDE DEF at
    <3> QED BY <2>2
  <2>4. IndexFrom(p, s, from) = k
    BY <1>2 DEF IndexFrom
  <2> HIDE DEF k
  <2>5. k \in from..Len(s) /\ Occurs(p, s, k)
    BY <2>3
  <2>6. ASSUME NEW i \in from..(k - 1) PROVE ~Occurs(p, s, i)
    BY <2>3, <2>5
  <2> QED BY <2>4, <2>5, <2>6
<1> QED BY <1>1, <1>2

LEMMA IndexType ==
  ASSUME NEW p, NEW s, Len(s) \in Nat, NEW from \in Nat \ {0}
  PROVE  IndexFrom(p, s, from) # 0 => IndexFrom(p, s, from) \in from..Len(s)
<1> DEFINE k == IndexFrom(p, s, from)
<1>1. k = 0 \/ k \in from..Len(s)
  BY IndexFacts
<1> QED BY <1>1

LEMMA NotFound ==
  ASSUME NEW p, NEW s, Len(s) \in Nat, NEW from \in Nat \ {0}, IndexFrom(p, s, from) = 0
  PROVE  \A i \in from..Len(s) : ~Occurs(p, s, i)
<1> DEFINE k == IndexFrom(p, s, from)
<1>1. ~(k \in from..Len(s))
  BY Len(s) \in Nat
<1> QED BY <1>1, IndexFacts

LEMMA IndexIs ==
  ASSUME NEW p, NEW s, Len(s) \in Nat, NEW from \in Nat \ {0}, NEW k \in from..Len(s),
         Occurs(p, s, k), \A i \in from..(k - 1) : ~Occurs(p, s, i)
  PROVE  IndexFrom(p, s, from) = k
<1> DEFINE m == IndexFrom(p, s, from)
<1>1. \/ m = 0 /\ \A i \in from..Len(s) : ~Occurs(p, s, i)
      \/ /\ m \in from..Len(s)
         /\ Occurs(p, s, m)
         /\ \A i \in from..(m - 1) : ~Occurs(p, s, i)
  BY IndexFacts
<1> HIDE DEF m
<1>2. m \in from..Len(s) /\ ~(m < k) /\ ~(k < m)
  BY <1>1
<1>3. m = k
  BY <1>2
<1> QED BY <1>3 DEF m

LEMMA IndexIsNot ==
  ASSUME NEW p, NEW s, Len(s) \in Nat, NEW from \in Nat \ {0},
         \A i \in from..Len(s) : ~Occurs(p, s, i)
  PROVE  IndexFrom(p, s, from) = 0
BY DEF IndexFrom

(* A pattern that has been found stays where it was found. *)
LEMMA IndexStays ==
  ASSUME NEW S, NEW p \in Seq(S), p # <<>>, NEW s \in Seq(S), NEW t \in Seq(S),
         NEW from \in Nat \ {0}, IndexFrom(p, s, from) # 0
  PROVE  IndexFrom(p, s \o t, from) = IndexFrom(p, s, from)
<1> DEFINE k == IndexFrom(p, s, from)
<1>1. Len(s) \in Nat /\ Len(t) \in Nat /\ Len(p) \in Nat \ {0}
  BY LenProperties, EmptySeq
<1>2. s \o t \in Seq(S) /\ Len(s \o t) = Len(s) + Len(t)
  BY ConcatProperties
<1>3. /\ k \in from..Len(s)
      /\ Occurs(p, s, k)
      /\ \A i \in from..(k - 1) : ~Occurs(p, s, i)
  BY <1>1, IndexFacts
<1>4. k + Len(p) - 1 <= Len(s)
  BY <1>3 DEF Occurs
<1> HIDE DEF k
<1>5. Occurs(p, s \o t, k)
  BY <1>1, <1>3, <1>4, OccursBefore
<1>6. ASSUME NEW i \in from..(k - 1) PROVE ~Occurs(p, s \o t, i)
  <2>1. i \in Nat \ {0} /\ i + Len(p) - 1 <= Len(s)
    BY <1>1, <1>3, <1>4
  <2> QED BY <2>1, <1>3, OccursBefore
<1>7. k \in from..Len(s \o t) /\ Len(s \o t) \in Nat
  BY <1>1, <1>2, <1>3
<1>8. IndexFrom(p, s \o t, from) = k
  BY <1>5, <1>6, <1>7, IndexIs
<1> QED BY <1>8 DEF k

(* In the rest of a sequence there is what there is in the whole. *)
LEMMA IndexInRest ==
  ASSUME NEW S, NEW p \in Seq(S), NEW s \in Seq(S), NEW k \in 1..(Len(s) + 1),
         NEW from \in Nat \ {0}
  PROVE  LET i == IndexFrom(p, From(s, k), from)
             j == IndexFrom(p, s, k + from - 1)
         IN  /\ i = 0 => j = 0
             /\ i # 0 => j = k + i - 1
<1> DEFINE u == From(s, k)
           i == IndexFrom(p, u, from)
<1>1. Len(s) \in Nat /\ u \in Seq(S) /\ Len(u) = Len(s) - k + 1 /\ Len(u) \in Nat
  BY LenProperties, FromFacts
<1>2. \A n \in Nat \ {0} : Occurs(p, u, n) <=> Occurs(p, s, k + n - 1)
  BY OccursInRest
<1>3. \/ i = 0 /\ \A n \in from..Len(u) : ~Occurs(p, u, n)
      \/ /\ i \in from..Len(u)
         /\ Occurs(p, u, i)
         /\ \A n \in from..(i - 1) : ~Occurs(p, u, n)
  BY <1>1, IndexFacts
<1> HIDE DEF u, i
<1>4. \A n \in (k + from - 1)..Len(s) :
        /\ n - k + 1 \in Nat \ {0} /\ n - k + 1 \in from..Len(u)
        /\ k + (n - k + 1) - 1 = n
  BY <1>1
<1>5. CASE i = 0
  <2>1. \A n \in from..Len(u) : ~Occurs(p, u, n)
    BY <1>3, <1>5
  <2>2. \A n \in (k + from - 1)..Len(s) : ~Occurs(p, s, n)
    <3> TAKE n \in (k + from - 1)..Len(s)
    <3> DEFINE o == n - k + 1
    <3>1. o \in Nat \ {0} /\ o \in from..Len(u) /\ k + o - 1 = n
      BY <1>4
    <3> HIDE DEF o
    <3> QED BY <3>1, <2>1, <1>2
  <2>3. k + from - 1 \in Nat \ {0}
    BY <1>1
  <2>4. IndexFrom(p, s, k + from - 1) = 0
    BY <1>1, <2>2, <2>3, IndexIsNot
  <2> QED BY <1>5, <2>4 DEF u, i
<1>6. CASE i # 0
  <2>1. /\ i \in from..Len(u) /\ i \in Nat \ {0}
        /\ k + i - 1 \in (k + from - 1)..Len(s)
        /\ k + from - 1 \in Nat \ {0}
    BY <1>1, <1>3, <1>6
  <2>2. Occurs(p, s, k + i - 1)
    BY <1>2, <1>3, <1>6, <2>1
  <2>3. ASSUME NEW n \in (k + from - 1)..(k + i - 1 - 1) PROVE ~Occurs(p, s, n)
    <3>1. n \in (k + from - 1)..Len(s) /\ n - k + 1 \in from..(i - 1)
      BY <1>1, <2>1
    <3> QED BY <3>1, <1>2, <1>3, <1>4, <1>6
  <2>4. IndexFrom(p, s, k + from - 1) = k + i - 1
    BY <1>1, <2>1, <2>2, <2>3, IndexIs
  <2> QED BY <1>6, <2>4 DEF u, i
<1> QED BY <1>5, <1>6

-----------------------------------------------------------------------------
(* ByteStreams: a viewer's stream.                                         *)
Bytes == Symbols \union {"FF", "D8", "D9"}

LEMMA PatternFacts ==
  /\ PartStart \in Seq(Bytes) /\ PartStart # <<>> /\ Len(PartStart) \in Nat \ {0}
  /\ SOI \in Seq(Bytes) /\ SOI # <<>> /\ Len(SOI) = 2
  /\ EOI \in Seq(Bytes) /\ EOI # <<>> /\ Len(EOI) = 2
<1>1. PartStart \in Seq(Bytes)
  BY PartStartAssumption, SeqMonotonic DEF Bytes
<1>2. Len(PartStart) \in Nat \ {0}
  BY <1>1, PartStartAssumption, EmptySeq
<1>3. SOI \in Seq(Bytes) /\ SOI # <<>> /\ Len(SOI) = 2
  BY DEF SOI, Bytes
<1>4. EOI \in Seq(Bytes) /\ EOI # <<>> /\ Len(EOI) = 2
  BY DEF EOI, Bytes
<1> QED BY <1>1, <1>2, <1>3, <1>4, PartStartAssumption

(* A viewer that has seen no boundary has been given nothing, and what is  *)
(* kept for it is the end of the stream; one that has, has everything from *)
(* the first on.                                                           *)
ViewerInv ==
  /\ stream \in Seq(Bytes) /\ aligned \in BOOLEAN
  /\ ~aligned =>
       tail = Kept(stream) /\ written = <<>> /\ IndexFrom(PartStart, stream, 1) = 0
  /\ aligned =>
       LET at == IndexFrom(PartStart, stream, 1) IN at # 0 /\ written = From(stream, at)

(* From where Kept keeps. *)
KeptFrom(n) == IF n > Len(PartStart) - 1 THEN n - (Len(PartStart) - 1) + 1 ELSE 1

LEMMA KeptIsFrom ==
  ASSUME NEW s \in Seq(Bytes)
  PROVE  Kept(s) = From(s, KeptFrom(Len(s))) /\ KeptFrom(Len(s)) \in 1..(Len(s) + 1)
<1>1. Len(s) \in Nat /\ Len(PartStart) \in Nat \ {0}
  BY LenProperties, PatternFacts
<1> QED BY <1>1 DEF Kept, KeptFrom, LastOf

(* What is kept is all that may begin a boundary. *)
LEMMA KeptIsEnough ==
  ASSUME NEW s \in Seq(Bytes), NEW t \in Seq(Bytes), IndexFrom(PartStart, s, 1) = 0
  PROVE  LET data == Kept(s) \o t
             at == IndexFrom(PartStart, data, 1)
             first == IndexFrom(PartStart, s \o t, 1)
         IN  /\ data \in Seq(Bytes)
             /\ at = 0 => first = 0 /\ Kept(data) = Kept(s \o t)
             /\ at # 0 => first # 0 /\ From(data, at) = From(s \o t, first)
<1> DEFINE k == KeptFrom(Len(s))
           w == s \o t
           data == Kept(s) \o t
           at == IndexFrom(PartStart, data, 1)
           n == Len(PartStart)
<1>1. /\ Len(s) \in Nat /\ Len(t) \in Nat /\ n \in Nat \ {0}
      /\ w \in Seq(Bytes) /\ Len(w) = Len(s) + Len(t)
  BY LenProperties, PatternFacts, ConcatProperties
<1>2. Kept(s) = From(s, k) /\ k \in 1..(Len(s) + 1)
  BY KeptIsFrom
<1>3. data = From(w, k)
  BY <1>2, FromConcat
<1>4. k \in 1..(Len(w) + 1)
  BY <1>1, <1>2
<1>5. data \in Seq(Bytes) /\ Len(data) = Len(w) - k + 1 /\ Len(data) \in Nat
  <2>1. w \in Seq(Bytes)
    BY <1>1
  <2>2. data = From(w, k)
    BY <1>3
  <2> HIDE DEF data, w, k
  <2>3. From(w, k) \in Seq(Bytes) /\ Len(From(w, k)) = Len(w) - k + 1
    BY <2>1, <1>4, FromFacts
  <2>4. Len(From(w, k)) \in Nat
    BY <2>3, LenProperties
  <2> QED BY <2>2, <2>3, <2>4
<1>6. k = IF Len(s) > n - 1 THEN Len(s) - (n - 1) + 1 ELSE 1
  BY DEF KeptFrom
<1>7. ASSUME NEW i \in 1..(k - 1) PROVE ~Occurs(PartStart, w, i)
  <2>1. i \in Nat \ {0} /\ i + n - 1 <= Len(s) /\ i \in 1..Len(s)
    BY <1>1, <1>6
  <2>2. ~Occurs(PartStart, s, i)
    <3>1. \A m \in 1..Len(s) : ~Occurs(PartStart, s, m)
      <4>1. 1 \in Nat \ {0} /\ Len(s) \in Nat
        BY <1>1
      <4> QED BY <4>1, NotFound
    <3> QED BY <2>1, <3>1
  <2> QED BY <2>1, <2>2, PatternFacts, OccursBefore
<1> DEFINE j == IndexFrom(PartStart, w, k)
<1>8. /\ at = 0 => j = 0
      /\ at # 0 => j = k + at - 1
  <2>1. k + 1 - 1 = k /\ 1 \in Nat \ {0}
    BY <1>1, <1>2
  <2> HIDE DEF k, w, n
  <2>2. LET a == IndexFrom(PartStart, From(w, k), 1)
            b == IndexFrom(PartStart, w, k + 1 - 1)
        IN  (a = 0 => b = 0) /\ (a # 0 => b = k + a - 1)
    <3>1. w \in Seq(Bytes) /\ PartStart \in Seq(Bytes)
      BY <1>1, PatternFacts
    <3> QED BY <3>1, <1>4, <2>1, IndexInRest
  <2>3. /\ IndexFrom(PartStart, From(w, k), 1) = 0 => IndexFrom(PartStart, w, k) = 0
        /\ IndexFrom(PartStart, From(w, k), 1) # 0 =>
             IndexFrom(PartStart, w, k) = k + IndexFrom(PartStart, From(w, k), 1) - 1
    BY <2>1, <2>2
  <2> QED BY <1>3, <2>3
<1>9. \/ j = 0 /\ \A i \in k..Len(w) : ~Occurs(PartStart, w, i)
      \/ /\ j \in k..Len(w)
         /\ Occurs(PartStart, w, j)
         /\ \A i \in k..(j - 1) : ~Occurs(PartStart, w, i)
  <2>1. Len(w) \in Nat /\ k \in Nat \ {0}
    BY <1>1, <1>2
  <2> HIDE DEF k, w
  <2> QED BY <2>1, IndexFacts
<1>10. at # 0 => at \in 1..Len(data)
  <2> HIDE DEF data
  <2> QED BY <1>5, IndexType
<1>11. ASSUME at = 0 PROVE IndexFrom(PartStart, w, 1) = 0 /\ Kept(data) = Kept(w)
  <2>1. j = 0
    BY <1>8, <1>11
  <2>2. \A i \in 1..Len(w) : ~Occurs(PartStart, w, i)
    <3> HIDE DEF w, k, j
    <3> QED BY <1>1, <1>2, <1>7, <1>9, <2>1
  <2>3. IndexFrom(PartStart, w, 1) = 0
    <3> HIDE DEF w
    <3> QED BY <1>1, <2>2, IndexIsNot
  <2> DEFINE d == KeptFrom(Len(data))
  <2>4. Kept(data) = From(data, d) /\ d \in 1..(Len(data) + 1)
    <3> HIDE DEF data
    <3> QED BY <1>5, KeptIsFrom
  <2>5. Kept(w) = From(w, KeptFrom(Len(w)))
    BY <1>1, KeptIsFrom
  <2>6. d = IF Len(data) > n - 1 THEN Len(data) - (n - 1) + 1 ELSE 1
    BY DEF KeptFrom
  <2>7. KeptFrom(Len(w)) = IF Len(w) > n - 1 THEN Len(w) - (n - 1) + 1 ELSE 1
    BY DEF KeptFrom
  <2> HIDE DEF d, k, w, n, data
  <2>8. k + d - 1 = KeptFrom(Len(w))
    <3>1. k \in Int
      BY <1>2, <1>1
    <3>2. CASE Len(s) > n - 1
      <4>1. k = Len(s) - (n - 1) + 1 /\ Len(data) = Len(t) + n - 1
        BY <1>1, <1>5, <1>6, <3>2
      <4>2. Len(w) > n - 1 /\ KeptFrom(Len(w)) = Len(s) + Len(t) - (n - 1) + 1
        BY <1>1, <2>7, <3>2
      <4>3. d = Len(t) + 1
        BY <1>1, <2>6, <4>1
      <4> QED BY <1>1, <4>1, <4>2, <4>3
    <3>3. CASE ~(Len(s) > n - 1)
      <4>1. k = 1 /\ Len(data) = Len(w)
        BY <1>1, <1>5, <1>6, <3>3
      <4>2. d = KeptFrom(Len(w))
        BY <4>1, <2>6, <2>7
      <4> QED BY <1>1, <2>7, <4>1, <4>2
    <3> QED BY <3>2, <3>3
  <2>9. d \in 1..(Len(w) - k + 2)
    BY <1>1, <1>4, <1>5, <2>4
  <2>10. From(data, d) = From(w, k + d - 1)
    BY <1>1, <1>3, <1>4, <2>9, FromFrom
  <2> QED BY <2>3, <2>4, <2>5, <2>8, <2>10
<1>12. ASSUME at # 0
       PROVE  LET first == IndexFrom(PartStart, w, 1) IN
              first # 0 /\ From(data, at) = From(w, first)
  <2>1. j = k + at - 1
    BY <1>8, <1>12
  <2> HIDE DEF w, k, j, data, at, n
  <2>2. at \in 1..Len(data)
    BY <1>10, <1>12
  <2>3. j # 0
    BY <1>4, <2>1, <2>2, <1>5, <1>1
  <2>4. j \in k..Len(w) /\ Occurs(PartStart, w, j) /\ \A i \in k..(j - 1) : ~Occurs(PartStart, w, i)
    BY <1>9, <2>3
  <2>5. j \in 1..Len(w) /\ Len(w) \in Nat
    BY <1>1, <1>4, <2>4
  <2>6. ASSUME NEW i \in 1..(j - 1) PROVE ~Occurs(PartStart, w, i)
    BY <1>4, <1>7, <1>1, <2>4, <2>5
  <2>7. IndexFrom(PartStart, w, 1) = j
    BY <2>4, <2>5, <2>6, IndexIs
  <2>8. at \in 1..(Len(w) - k + 2)
    BY <1>1, <1>4, <1>5, <2>2
  <2>9. From(data, at) = From(w, k + at - 1)
    BY <1>1, <1>3, <1>4, <2>8, FromFrom
  <2> QED BY <2>1, <2>3, <2>7, <2>9
<1> QED BY <1>5, <1>11, <1>12

LEMMA DeliverKeeps ==
  ASSUME ViewerInv, NEW chunk \in Seq(Bytes), DeliverChunk(chunk), stream' = stream \o chunk
  PROVE  ViewerInv'
<1> DEFINE w == stream \o chunk
           first == IndexFrom(PartStart, stream, 1)
<1>1. /\ Len(stream) \in Nat
      /\ w \in Seq(Bytes)
  BY LenProperties, ConcatProperties DEF ViewerInv
<1>2. CASE aligned
  <2>1. first # 0 /\ written = From(stream, first)
    BY <1>2 DEF ViewerInv
  <2>2. IndexFrom(PartStart, w, 1) = first
    BY <2>1, PatternFacts, IndexStays DEF ViewerInv
  <2>3. first \in 1..Len(stream)
    BY <1>1, <2>1, IndexType
  <2>4. first \in 1..(Len(stream) + 1)
    BY <1>1, <2>3
  <2>5. From(w, first) = written \o chunk
    <3> HIDE DEF first
    <3> QED BY <2>1, <2>4, FromConcat DEF ViewerInv
  <2>6. aligned' /\ written' = written \o chunk
    BY <1>2 DEF DeliverChunk
  <2>7. IndexFrom(PartStart, stream, 1)' = first /\ stream' \in Seq(Bytes)
    BY <1>1, <2>2
  <2>8. written' = From(stream', first)
    BY <2>5, <2>6
  <2> HIDE DEF first
  <2> QED BY <1>2, <2>1, <2>6, <2>7, <2>8 DEF ViewerInv, DeliverChunk
<1>3. CASE ~aligned
  <2> DEFINE data == tail \o chunk
             at == IndexFrom(PartStart, data, 1)
  <2>1. tail = Kept(stream) /\ written = <<>> /\ first = 0
    BY <1>3 DEF ViewerInv
  <2>2. /\ at = 0 => IndexFrom(PartStart, w, 1) = 0 /\ Kept(data) = Kept(w)
        /\ at # 0 => IndexFrom(PartStart, w, 1) # 0
                     /\ From(data, at) = From(w, IndexFrom(PartStart, w, 1))
    BY <2>1, KeptIsEnough DEF ViewerInv
  <2>3. CASE at = 0
    <3>1. aligned' = FALSE /\ tail' = Kept(data) /\ written' = <<>>
      BY <1>3, <2>1, <2>3 DEF DeliverChunk, ViewerInv
    <3>2. IndexFrom(PartStart, w, 1) = 0 /\ tail' = Kept(w)
      BY <2>2, <2>3, <3>1
    <3>3. IndexFrom(PartStart, stream, 1)' = IndexFrom(PartStart, w, 1) /\ Kept(stream)' = Kept(w)
      BY DEF Kept
    <3>4. stream' \in Seq(Bytes)
      BY <1>1
    <3> QED BY <3>1, <3>2, <3>3, <3>4 DEF ViewerInv
  <2>4. CASE at # 0
    <3>1. aligned' = TRUE /\ written' = From(data, at)
      BY <1>3, <2>4 DEF DeliverChunk
    <3>2. IndexFrom(PartStart, w, 1) # 0 /\ written' = From(w, IndexFrom(PartStart, w, 1))
      BY <2>2, <2>4, <3>1
    <3>3. IndexFrom(PartStart, stream, 1)' = IndexFrom(PartStart, w, 1)
      OBVIOUS
    <3>4. stream' \in Seq(Bytes)
      BY <1>1
    <3>5. LET m == IndexFrom(PartStart, stream, 1)' IN m # 0 /\ written' = From(stream', m)
      BY <3>2, <3>3
    <3> QED BY <3>1, <3>4, <3>5 DEF ViewerInv
  <2> QED BY <2>3, <2>4
<1> QED BY <1>2, <1>3

(* A viewer who joins in the middle of a stream is given nothing until a   *)
(* part begins, and from there everything, however the camera's bytes are  *)
(* cut into chunks (camera-proxy.ts: deliver).                             *)
THEOREM StreamJoins == StreamSpec => []JoinsAtAPart
<1>1. StreamInit => ViewerInv
  <2> SUFFICES ASSUME StreamInit PROVE ViewerInv
    OBVIOUS
  <2>1. stream = <<>> /\ aligned = FALSE /\ tail = <<>> /\ written = <<>>
    BY DEF StreamInit
  <2>2. stream \in Seq(Bytes) /\ Len(stream) = 0
    BY <2>1
  <2>3. IndexFrom(PartStart, stream, 1) = 0
    BY <2>2, IndexIsNot
  <2>4. Kept(stream) = <<>>
    <3>0. Kept(stream) = From(stream, KeptFrom(Len(stream))) /\ KeptFrom(Len(stream)) \in 1..(Len(stream) + 1)
      BY <2>2, KeptIsFrom
    <3>1. Kept(stream) = From(stream, KeptFrom(Len(stream))) /\ KeptFrom(Len(stream)) = 1
      BY <2>2, <3>0
    <3>2. From(stream, 1) = <<>>
      BY <2>1 DEF From
    <3> QED BY <3>1, <3>2
  <2> QED BY <2>1, <2>2, <2>3, <2>4 DEF ViewerInv
<1>2. ViewerInv /\ [Chunk]_streamVars => ViewerInv'
  <2> SUFFICES ASSUME ViewerInv, [Chunk]_streamVars PROVE ViewerInv'
    OBVIOUS
  <2>1. CASE Chunk
    <3>a. PICK n \in 1..MaxChunk : \E chunk \in [1..n -> Symbols] :
            stream' = stream \o chunk /\ DeliverChunk(chunk)
      BY <2>1 DEF Chunk
    <3>1. PICK chunk \in [1..n -> Symbols] : stream' = stream \o chunk /\ DeliverChunk(chunk)
      BY <3>a
    <3>2. chunk \in Seq(Bytes)
      <4>1. n \in Nat
        BY BoundsAssumption
      <4> QED BY <4>1, SeqDef DEF Bytes
    <3> QED BY <3>1, <3>2, DeliverKeeps
  <2>2. CASE UNCHANGED streamVars
    <3>1. UNCHANGED <<stream, aligned, tail, written>>
      BY <2>2 DEF streamVars, deliverVars
    <3> QED BY <3>1 DEF ViewerInv, Kept
  <2> QED BY <2>1, <2>2
<1>3. ViewerInv => JoinsAtAPart
  BY DEF ViewerInv, JoinsAtAPart
<1> QED BY <1>1, <1>2, <1>3, PTL DEF StreamSpec

-----------------------------------------------------------------------------
(* ByteStreams: the latest frame. *)
Whole(f, w) ==
  f # <<>> =>
    \E i \in 1..Len(w) :
      LET end == IndexFrom(EOI, w, i + 2) IN
      Occurs(SOI, w, i) /\ end # 0 /\ f = SubSeq(w, i, end + 1)

States == [going : BOOLEAN, pending : Seq(Bytes), frame : Seq(Bytes)]
Good(w) ==
  {s \in States :
     /\ \E k \in 1..(Len(w) + 1) : s.pending = From(w, k)
     /\ Whole(s.frame, w)
     /\ ~s.going => Len(s.pending) <= MaxPending}

LEMMA TurnKeeps ==
  ASSUME NEW w \in Seq(Bytes), NEW s \in Good(w)
  PROVE  /\ Turn(s) \in Good(w)
         /\ Turn(s).going => s.going /\ Len(Turn(s).pending) < Len(s.pending)
<1> DEFINE p == s.pending
           start == IndexFrom(SOI, p, 1)
           end == IndexFrom(EOI, p, start + 2)
           t == Turn(s)
<1>1. s \in States /\ p \in Seq(Bytes) /\ Len(p) \in Nat /\ Len(w) \in Nat
  BY LenProperties DEF Good, States
<1>2. PICK k \in 1..(Len(w) + 1) : p = From(w, k)
  BY DEF Good
<1>3. Len(p) = Len(w) - k + 1
  BY <1>2, FromFacts
<1>4. Whole(s.frame, w)
  BY DEF Good
<1>5. \A i \in 1..(Len(p) + 1) : /\ From(p, i) \in Seq(Bytes)
                                 /\ Len(From(p, i)) = Len(p) - i + 1
                                 /\ From(p, i) = From(w, k + i - 1)
                                 /\ k + i - 1 \in 1..(Len(w) + 1)
  <2> TAKE i \in 1..(Len(p) + 1)
  <2>1. i \in 1..(Len(w) - k + 2)
    BY <1>1, <1>3
  <2>2. From(p, i) = From(w, k + i - 1)
    BY <1>2, <2>1, FromFrom
  <2>3. From(p, i) \in Seq(Bytes) /\ Len(From(p, i)) = Len(p) - i + 1
    <3> HIDE DEF p
    <3> QED BY <1>1, FromFacts
  <2> QED BY <1>1, <1>3, <2>1, <2>2, <2>3
<1>6. start # 0 => start \in 1..Len(p) /\ Occurs(SOI, p, start)
  <2> HIDE DEF p
  <2>1. 1 \in Nat \ {0}
    OBVIOUS
  <2> QED BY <1>1, <2>1, IndexFacts
<1>7. start # 0 /\ end # 0 => /\ end \in (start + 2)..Len(p) /\ Occurs(EOI, p, end)
                              /\ end + 1 <= Len(p)
  <2> SUFFICES ASSUME start # 0, end # 0 PROVE /\ end \in (start + 2)..Len(p) /\ Occurs(EOI, p, end)
                                               /\ end + 1 <= Len(p)
    OBVIOUS
  <2>1. start + 2 \in Nat \ {0}
    <3> HIDE DEF p, start
    <3> QED BY <1>6
  <2> HIDE DEF p
  <2> DEFINE from == start + 2
  <2>2. end = IndexFrom(EOI, p, from)
    OBVIOUS
  <2> HIDE DEF start, from, end
  <2>3. end \in from..Len(p) /\ Occurs(EOI, p, end)
    <3>1. from \in Nat \ {0}
      BY <2>1 DEF from
    <3> QED BY <1>1, <2>2, <3>1, IndexFacts
  <2>4. end + Len(EOI) - 1 <= Len(p)
    BY <2>3 DEF Occurs
  <2> QED BY <1>1, <2>1, <2>3, <2>4, PatternFacts DEF from
<1>8. CASE ~s.going
  BY <1>8 DEF Turn, Good
<1>9. CASE s.going /\ start = 0
  <2>1. t = [s EXCEPT !.going = FALSE, !.pending = <<>>]
    BY <1>9 DEF Turn
  <2>a. <<>> \in Seq(Bytes)
    OBVIOUS
  <2> HIDE DEF t
  <2>2. t \in States /\ t.going = FALSE /\ t.pending = <<>> /\ t.frame = s.frame
    BY <1>1, <2>1, <2>a DEF States
  <2>3. From(w, Len(w) + 1) = <<>> /\ Len(w) + 1 \in 1..(Len(w) + 1)
    BY <1>1 DEF From
  <2>4. Len(t.pending) <= MaxPending
    BY <2>2, BoundsAssumption
  <2>5. t \in Good(w)
    BY <1>4, <2>2, <2>3, <2>4 DEF Good
  <2> QED BY <2>2, <2>5 DEF t
<1>10. CASE s.going /\ start # 0 /\ end = 0
  <2> DEFINE rest == From(p, start)
             keep == IF Len(rest) > MaxPending THEN <<>> ELSE rest
  <2>1. t = [s EXCEPT !.going = FALSE, !.pending = keep]
    BY <1>10 DEF Turn, StillOpen
  <2>2. /\ rest \in Seq(Bytes) /\ Len(rest) \in Nat
        /\ \E i \in 1..(Len(w) + 1) : rest = From(w, i)
    <3>1. start \in 1..(Len(p) + 1)
      BY <1>1, <1>6, <1>10
    <3> HIDE DEF p, start
    <3> QED BY <1>1, <1>5, <3>1, LenProperties
  <2> HIDE DEF rest
  <2>3. keep \in Seq(Bytes) /\ Len(keep) <= MaxPending /\ \E i \in 1..(Len(w) + 1) : keep = From(w, i)
    <3>1. From(w, Len(w) + 1) = <<>> /\ Len(w) + 1 \in 1..(Len(w) + 1)
      BY <1>1 DEF From
    <3> QED BY <2>2, <3>1, BoundsAssumption
  <2> HIDE DEF keep
  <2>4. t \in States /\ t.going = FALSE /\ t.pending = keep /\ t.frame = s.frame
    BY <1>1, <2>1, <2>3 DEF States
  <2> QED BY <1>4, <2>3, <2>4 DEF Good
<1>11. CASE s.going /\ start # 0 /\ end # 0
  <2> DEFINE rest == From(p, end + 2)
             f == SubSeq(p, start, end + 1)
  <2>1. t = [s EXCEPT !.frame = f, !.pending = rest]
    BY <1>11 DEF Turn, FrameAt
  <2>2. /\ start \in 1..Len(p) /\ Occurs(SOI, p, start)
        /\ end \in (start + 2)..Len(p) /\ end + 1 <= Len(p)
    BY <1>6, <1>7, <1>11
  <2>3. /\ rest \in Seq(Bytes) /\ Len(rest) < Len(p)
        /\ \E i \in 1..(Len(w) + 1) : rest = From(w, i)
    <3>1. end + 2 \in 1..(Len(p) + 1)
      BY <1>1, <2>2
    <3> HIDE DEF p, start, end
    <3> QED BY <1>1, <1>5, <2>2, <3>1
  <2>4. f \in Seq(Bytes)
    <3> HIDE DEF p, start, end
    <3>1. \A i \in start..(end + 1) : p[i] \in Bytes
      BY <1>1, <2>2, ElementOfSeq
    <3>2. start \in Int /\ end + 1 \in Int
      BY <1>1, <2>2
    <3> QED BY <3>1, <3>2, SubSeqProperties
  <2>5. Whole(f, w)
    <3> DEFINE a == k + start - 1
               b == k + end - 1
    <3>1. a \in 1..Len(w) /\ a + 2 = k + (start + 2) - 1 /\ start + 2 \in Nat \ {0}
      <4> HIDE DEF p, start, end
      <4> QED BY <1>1, <1>3, <2>2
    <3>2. Occurs(SOI, w, a)
      <4> HIDE DEF start
      <4>1. start \in Nat \ {0}
        BY <2>2, <1>1
      <4> QED BY <1>2, <2>2, <4>1, OccursInRest, PatternFacts
    <3>3. IndexFrom(EOI, w, a + 2) = b
      <4>1. /\ IndexFrom(EOI, From(w, k), start + 2) # 0 =>
                 IndexFrom(EOI, w, k + (start + 2) - 1) = k + IndexFrom(EOI, From(w, k), start + 2) - 1
        <5> DEFINE from == start + 2
        <5>1. from \in Nat \ {0}
          BY <3>1
        <5> HIDE DEF start, from
        <5>2. IndexFrom(EOI, From(w, k), from) # 0 =>
                IndexFrom(EOI, w, k + from - 1) = k + IndexFrom(EOI, From(w, k), from) - 1
          BY <5>1, IndexInRest, PatternFacts
        <5> QED BY <5>2 DEF from
      <4>2. IndexFrom(EOI, From(w, k), start + 2) = end
        BY <1>2
      <4> HIDE DEF start, end, p
      <4> QED BY <1>11, <3>1, <4>1, <4>2
    <3>4. f = SubSeq(w, a, b + 1)
      <4> HIDE DEF start, end
      <4>1. /\ \A i \in 1..(Len(w) - k + 1) : p[i] = w[k + i - 1]
        BY <1>2, FromFacts
      <4> HIDE DEF p
      <4>2. (\A i \in start..(end + 1) : p[i] \in Bytes) /\ \A i \in a..(b + 1) : w[i] \in Bytes
        BY <1>1, <1>3, <2>2, ElementOfSeq
      <4>3. start \in Int /\ end + 1 \in Int /\ a \in Int /\ b + 1 \in Int
            /\ start <= end + 1 /\ a <= b + 1
            /\ (b + 1) - a + 1 = end - start + 2 /\ (end + 1) - start + 1 = end - start + 2
        BY <1>1, <1>3, <2>2
      <4> DEFINE q == end + 1
                 c == b + 1
      <4>4. /\ Len(f) = end - start + 2
            /\ \A i \in 1..(end - start + 2) : f[i] = p[start + i - 1]
        <5>1. f = SubSeq(p, start, q)
          OBVIOUS
        <5>2. q - start + 1 = end - start + 2 /\ start <= q /\ q \in Int
          BY <4>3
        <5> HIDE DEF f, q
        <5> QED BY <4>2, <4>3, <5>1, <5>2, SubSeqProperties DEF q
      <4> DEFINE g == SubSeq(w, a, c)
      <4>5. /\ g \in Seq(Bytes)
            /\ Len(g) = end - start + 2
            /\ \A i \in 1..(end - start + 2) : g[i] = w[a + i - 1]
        <5>1. c - a + 1 = end - start + 2 /\ a <= c /\ c \in Int /\ a \in Int
          BY <4>3
        <5>2. \A i \in a..c : w[i] \in Bytes
          BY <4>2
        <5> HIDE DEF c, a
        <5> QED BY <5>1, <5>2, SubSeqProperties
      <4>6. \A i \in 1..Len(f) : f[i] = g[i]
        <5> TAKE i \in 1..Len(f)
        <5>1. i \in 1..(end - start + 2) /\ start + i - 1 \in 1..(Len(w) - k + 1)
              /\ k + (start + i - 1) - 1 = a + i - 1
          BY <1>1, <1>3, <2>2, <4>4
        <5> HIDE DEF f, g, a
        <5> QED BY <4>1, <4>4, <4>5, <5>1
      <4> HIDE DEF f, g
      <4>7. f = g
        BY <2>4, <4>4, <4>5, <4>6, SeqEqual
      <4> QED BY <4>7 DEF g
    <3>5. b # 0
      BY <1>1, <2>2
    <3> HIDE DEF f, a, b
    <3> QED BY <3>1, <3>2, <3>3, <3>4, <3>5 DEF Whole
  <2> HIDE DEF rest, f
  <2>6. t \in States /\ t.going = s.going /\ t.pending = rest /\ t.frame = f
    BY <1>1, <2>1, <2>3, <2>4 DEF States
  <2> QED BY <1>11, <2>3, <2>5, <2>6 DEF Good
<1>12. s.going \in BOOLEAN
  BY <1>1 DEF States
<1> QED BY <1>8, <1>9, <1>10, <1>11, <1>12

LEMMA PushedIsGood ==
  ASSUME NEW w \in Seq(Bytes), NEW data \in Seq(Bytes), NEW last \in Seq(Bytes),
         \E k \in 1..(Len(w) + 1) : data = From(w, k), Whole(last, w)
  PROVE  Pushed(data, last) \in Good(w) /\ ~Pushed(data, last).going
<1> DEFINE m == Len(data) + 1
           c == [going |-> TRUE, pending |-> data, frame |-> last]
           F == [n \in 1..m |-> [s \in Good(w) |-> Turn(s)]]
           f == CHOOSE f : f = [n \in 0..m |-> IF n = 0 THEN c ELSE Turn(f[n - 1])]
<1>1. m \in Nat /\ Len(data) \in Nat
  BY LenProperties
<1>2. c \in Good(w)
  BY DEF Good, States
<1>3. F \in [1..m -> [Good(w) -> Good(w)]]
  BY TurnKeeps
<1> HIDE DEF m, c
<1>4. PICK h \in [0..m -> Good(w)] : h[0] = c /\ \A n \in 1..m : h[n] = F[n][h[n - 1]]
  <2> HIDE DEF F, f
  <2>1. PICK h \in [0..m -> Good(w)] : IsLoop(h, m, c, F)
    BY <1>1, <1>2, <1>3, LoopExists
  <2> QED BY <2>1 DEF IsLoop
<1>5. h = [n \in 0..m |-> IF n = 0 THEN c ELSE Turn(h[n - 1])]
  <2>1. \A n \in 1..m : h[n - 1] \in Good(w)
    <3> HIDE DEF F, f
    <3> QED BY <1>1
  <2>2. \A n \in 1..m : F[n][h[n - 1]] = Turn(h[n - 1])
    BY <2>1
  <2>3. \A n \in 0..m : n # 0 => n \in 1..m
    BY <1>1
  <2> HIDE DEF F, f
  <2> QED BY <1>4, <2>2, <2>3
<1>6. f = [n \in 0..m |-> IF n = 0 THEN c ELSE Turn(f[n - 1])]
  BY <1>5
<1>7. Pushed(data, last) = f[m]
  BY DEF Pushed, m, c
<1> HIDE DEF f
<1>8. f[0] = c /\ \A n \in Nat : n + 1 <= m => f[n + 1] = Turn(f[n])
  BY <1>1, <1>6
<1> DEFINE T == {n \in Nat : n <= m => f[n] \in Good(w) /\ (f[n].going => Len(f[n].pending) <= Len(data) - n)}
<1>9. 0 \in T
  BY <1>1, <1>2, <1>8 DEF c
<1>10. ASSUME NEW n \in Nat, n \in T PROVE n + 1 \in T
  <2> SUFFICES ASSUME n + 1 <= m
               PROVE  f[n + 1] \in Good(w) /\ (f[n + 1].going => Len(f[n + 1].pending) <= Len(data) - (n + 1))
    OBVIOUS
  <2>1. n <= m /\ f[n] \in Good(w) /\ (f[n].going => Len(f[n].pending) <= Len(data) - n)
    BY <1>1, <1>10
  <2>2. f[n + 1] = Turn(f[n])
    BY <1>8
  <2>3. f[n + 1] \in Good(w) /\ (f[n + 1].going => f[n].going /\ Len(f[n + 1].pending) < Len(f[n].pending))
    BY <2>1, <2>2, TurnKeeps
  <2>4. Len(f[n + 1].pending) \in Nat /\ Len(f[n].pending) \in Nat
    BY <2>1, <2>3, LenProperties DEF Good, States
  <2> HIDE DEF T
  <2>5. CASE f[n + 1].going
    <3>1. Len(f[n + 1].pending) < Len(f[n].pending) /\ Len(f[n].pending) <= Len(data) - n
      BY <2>1, <2>3, <2>5
    <3>2. Len(f[n + 1].pending) <= Len(data) - (n + 1)
      <4> DEFINE x == Len(f[n + 1].pending)
                 y == Len(f[n].pending)
                 z == Len(data)
      <4>1. x \in Nat /\ y \in Nat /\ z \in Nat /\ x < y /\ y <= z - n
        BY <2>4, <3>1, LenProperties
      <4> HIDE DEF x, y, z
      <4>2. x <= z - (n + 1)
        BY <4>1
      <4> QED BY <4>2 DEF x, y, z
    <3> QED BY <2>3, <3>2
  <2> QED BY <2>3, <2>5
<1>11. m \in T
  <2> HIDE DEF T
  <2> QED BY <1>1, <1>9, <1>10, Induction
<1>12. f[m] \in Good(w) /\ (f[m].going => Len(f[m].pending) <= Len(data) - m)
  BY <1>1, <1>11
<1>13. Len(f[m].pending) \in Nat
  BY <1>12, LenProperties DEF Good, States
<1> QED BY <1>1, <1>7, <1>12, <1>13 DEF m

FrameInv ==
  /\ stream \in Seq(Bytes) /\ frame \in Seq(Bytes)
  /\ \E k \in 1..(Len(stream) + 1) : pending = From(stream, k)
  /\ FrameIsWhole
  /\ PendingIsBounded

LEMMA PushKeeps ==
  ASSUME FrameInv, NEW chunk \in Seq(Bytes), Push(chunk), stream' = stream \o chunk
  PROVE  FrameInv'
<1> DEFINE w == stream \o chunk
           data == pending \o chunk
           after == Pushed(data, frame)
<1>1. w \in Seq(Bytes) /\ Len(stream) \in Nat /\ Len(w) = Len(stream) + Len(chunk) /\ Len(chunk) \in Nat
  BY LenProperties, ConcatProperties DEF FrameInv
<1>2. PICK k \in 1..(Len(stream) + 1) : pending = From(stream, k)
  BY DEF FrameInv
<1>3. data = From(w, k) /\ k \in 1..(Len(w) + 1)
  <2>1. From(w, k) = From(stream, k) \o chunk
    BY FromConcat DEF FrameInv
  <2> QED BY <1>1, <1>2, <2>1
<1>4. data \in Seq(Bytes)
  BY <1>1, <1>3, FromFacts
<1>5. Whole(frame, w)
  <2> SUFFICES ASSUME frame # <<>> PROVE Whole(frame, w)
    BY DEF Whole
  <2>1. PICK i \in 1..Len(stream) :
          LET end == IndexFrom(EOI, stream, i + 2) IN
          /\ Occurs(SOI, stream, i) /\ end # 0
          /\ frame = SubSeq(stream, i, end + 1)
    BY DEF FrameInv, FrameIsWhole
  <2> DEFINE from == i + 2
             end == IndexFrom(EOI, stream, from)
  <2>2. from \in Nat \ {0} /\ i \in 1..Len(w) /\ i \in Nat \ {0}
    BY <1>1
  <2>3. Occurs(SOI, stream, i) /\ end # 0 /\ frame = SubSeq(stream, i, end + 1)
    BY <2>1
  <2> HIDE DEF from
  <2>4. IndexFrom(EOI, w, from) = end
    BY <2>2, <2>3, IndexStays, PatternFacts DEF FrameInv
  <2>5. end \in from..Len(stream) /\ Occurs(EOI, stream, end)
    BY <1>1, <2>2, <2>3, IndexFacts
  <2>6. end + 1 <= Len(stream)
    BY <1>1, <2>5, PatternFacts DEF Occurs
  <2>7. Occurs(SOI, w, i)
    <3>1. i + Len(SOI) - 1 <= Len(stream)
      BY <2>3 DEF Occurs
    <3> QED BY <2>2, <2>3, <3>1, OccursBefore, PatternFacts DEF FrameInv
  <2> HIDE DEF end
  <2>8. SubSeq(w, i, end + 1) = SubSeq(stream, i, end + 1)
    <3>1. end + 1 \in Nat /\ end + 1 <= Len(stream) /\ stream \in Seq(Bytes) /\ i <= end + 1
      BY <2>2, <2>5, <2>6, <1>1 DEF FrameInv, from
    <3> QED BY <2>2, <3>1, SubSeqOfConcat1
  <2>9. IndexFrom(EOI, w, i + 2) = end
    BY <2>4 DEF from
  <2> HIDE DEF w
  <2> QED BY <2>2, <2>3, <2>7, <2>8, <2>9 DEF Whole
<1> HIDE DEF data, w
<1>6. after \in Good(w) /\ ~after.going
  BY <1>1, <1>3, <1>4, <1>5, PushedIsGood DEF FrameInv
<1>7. pending' = after.pending /\ frame' = after.frame /\ stream' = w
  BY DEF Push, data, w
<1> HIDE DEF after
<1>8. frame' \in Seq(Bytes) /\ (\E i \in 1..(Len(w) + 1) : pending' = From(w, i))
      /\ Whole(frame', w) /\ Len(pending') <= MaxPending
  BY <1>6, <1>7 DEF Good, States
<1>9. FrameIsWhole'
  BY <1>7, <1>8 DEF Whole, FrameIsWhole
<1> QED BY <1>1, <1>7, <1>8, <1>9 DEF FrameInv, PendingIsBounded

LEMMA FrameInvHolds == StreamSpec => []FrameInv
<1>1. StreamInit => FrameInv
  <2> SUFFICES ASSUME StreamInit PROVE FrameInv
    OBVIOUS
  <2>1. stream = <<>> /\ pending = <<>> /\ frame = <<>>
    BY DEF StreamInit
  <2>2. From(<<>>, 1) = <<>> /\ 1 \in 1..(Len(stream) + 1)
    BY <2>1 DEF From
  <2>3. Len(pending) <= MaxPending
    BY <2>1, BoundsAssumption
  <2> QED BY <2>1, <2>2, <2>3 DEF FrameInv, FrameIsWhole, PendingIsBounded
<1>2. FrameInv /\ [Chunk]_streamVars => FrameInv'
  <2> SUFFICES ASSUME FrameInv, [Chunk]_streamVars PROVE FrameInv'
    OBVIOUS
  <2>1. CASE Chunk
    <3>a. PICK n \in 1..MaxChunk : \E chunk \in [1..n -> Symbols] :
            stream' = stream \o chunk /\ Push(chunk)
      BY <2>1 DEF Chunk
    <3>1. PICK chunk \in [1..n -> Symbols] : stream' = stream \o chunk /\ Push(chunk)
      BY <3>a
    <3>2. chunk \in Seq(Bytes)
      <4>1. n \in Nat
        BY BoundsAssumption
      <4> QED BY <4>1, SeqDef DEF Bytes
    <3> QED BY <3>1, <3>2, PushKeeps
  <2>2. CASE UNCHANGED streamVars
    <3>1. UNCHANGED <<stream, pending, frame>>
      BY <2>2 DEF streamVars, latestVars
    <3> QED BY <3>1 DEF FrameInv, FrameIsWhole, PendingIsBounded
  <2> QED BY <2>1, <2>2
<1> QED BY <1>1, <1>2, PTL DEF StreamSpec

(* What is handed out as the latest frame is a whole one, however the      *)
(* bytes came; and what is pending never outgrows what a frame may have    *)
(* (latest-frame.ts:12-36).                                                *)
THEOREM LatestRight == StreamSpec => []LatestIsRight
BY FrameInvHolds, PTL DEF FrameInv, LatestIsRight

-----------------------------------------------------------------------------
(* HistoryMigration.                                                       *)

(* Two rows of one key are both nameless or neither.                       *)
LEMMA KeysName ==
  ASSUME NEW r \in Row, NEW q \in Row, RowKey(r) = RowKey(q)
  PROVE  Nameless(r) <=> Nameless(q)
BY DEF RowKey, Nameless, Row

LEMMA AppendRow ==
  ASSUME NEW table \in Seq(Row), NEW row \in Row
  PROVE  /\ Append(table, row) \in Seq(Row)
         /\ Len(table) \in Nat /\ Len(Append(table, row)) = Len(table) + 1
         /\ DOMAIN table = 1..Len(table) /\ DOMAIN Append(table, row) = 1..(Len(table) + 1)
         /\ \A i \in 1..Len(table) : Append(table, row)[i] = table[i] /\ table[i] \in Row
         /\ Append(table, row)[Len(table) + 1] = row
BY AppendProperties, LenProperties, ElementOfSeq

(* What a pass has seen is what stood in the table when it began and what  *)
(* passes have copied; it has dealt with every row before the next.        *)
Keys == {RowKey(row) : row \in Row}

Passes == [at : {"tasks", "starts", "rows"}, rows : Seq(Row), next : Nat \ {0},
           seen : SUBSET Keys, began : Nat]

Knows(p, j) == ~Nameless(prints[j]) => RowKey(prints[j]) \in p.seen

InTable(row, n) == \E j \in 1..n : RowKey(prints[j]) = RowKey(row)

PassInv(p) ==
  /\ p \in Passes
  /\ Len(p.rows) <= Len(sqlite) /\ \A i \in 1..Len(p.rows) : p.rows[i] = sqlite[i]
  /\ p.next <= Len(p.rows) + 1 /\ p.began <= Len(prints)
  /\ \A i \in 1..migrated : InTable(sqlite[i], p.began)
  /\ \A key \in p.seen : \E j \in 1..Len(prints) : RowKey(prints[j]) = key
  /\ p.at # "rows" => p.next = 1 /\ copied \subseteq 1..p.began
  /\ p.at = "starts" => \A j \in 1..p.began : prints[j].task # Null => Knows(p, j)
  /\ p.at = "rows" => \A j \in (1..p.began) \union copied : Knows(p, j)
  /\ \A i \in 1..(p.next - 1) : InTable(p.rows[i], Len(prints))

MigrationInv ==
  /\ sqlite \in Seq(Row) /\ prints \in Seq(Row)
  /\ copied \subseteq 1..Len(prints)
  /\ migrated \in Nat /\ migrated <= Len(sqlite)
  /\ CopiedOnce /\ AllCopied
  /\ pass # Null => PassInv(pass)

LEMMA SizesKnown ==
  ASSUME MigrationInv
  PROVE  /\ Len(sqlite) \in Nat /\ DOMAIN sqlite = 1..Len(sqlite)
         /\ Len(prints) \in Nat /\ DOMAIN prints = 1..Len(prints)
         /\ \A i \in 1..Len(sqlite) : sqlite[i] \in Row
         /\ \A i \in 1..Len(prints) : prints[i] \in Row
BY LenProperties, ElementOfSeq DEF MigrationInv

LEMMA MigrationInvHolds == MigrationSpec => []MigrationInv
<1>1. MigrationInit => MigrationInv
  BY DEF MigrationInit, MigrationInv, CopiedOnce, AllCopied
<1>2. MigrationInv /\ [MigrationNext]_migrationVars => MigrationInv'
  <2> SUFFICES ASSUME MigrationInv, [MigrationNext]_migrationVars PROVE MigrationInv'
    OBVIOUS
  <2>0. /\ Len(sqlite) \in Nat /\ DOMAIN sqlite = 1..Len(sqlite)
        /\ Len(prints) \in Nat /\ DOMAIN prints = 1..Len(prints)
        /\ \A i \in 1..Len(sqlite) : sqlite[i] \in Row
        /\ \A i \in 1..Len(prints) : prints[i] \in Row
    BY SizesKnown
  <2>1. ASSUME NEW row \in Row, OldServerRecords(row) PROVE MigrationInv'
    <3>1. /\ sqlite' \in Seq(Row) /\ Len(sqlite') = Len(sqlite) + 1
          /\ \A i \in 1..Len(sqlite) : sqlite'[i] = sqlite[i]
      BY <2>1, AppendRow DEF OldServerRecords, MigrationInv
    <3>2. UNCHANGED <<prints, pass, copied, migrated>>
      BY <2>1 DEF OldServerRecords
    <3>3. CopiedOnce'
      BY <3>2 DEF MigrationInv, CopiedOnce
    <3>4. AllCopied' /\ migrated' <= Len(sqlite')
      BY <2>0, <3>1, <3>2 DEF MigrationInv, AllCopied
    <3>5. ASSUME pass # Null PROVE PassInv(pass)'
      <4>1. PassInv(pass) /\ pass' = pass
        BY <3>2, <3>5 DEF MigrationInv
      <4>2. Len(pass.rows) \in Nat /\ migrated \in Nat /\ migrated <= Len(sqlite)
        BY <4>1, LenProperties DEF PassInv, Passes, MigrationInv
      <4>3. Len(pass.rows) <= Len(sqlite') /\ \A i \in 1..Len(pass.rows) : pass.rows[i] = sqlite'[i]
        BY <2>0, <3>1, <4>1, <4>2 DEF PassInv
      <4>4. \A i \in 1..migrated : InTable(sqlite'[i], pass.began)
        BY <2>0, <3>1, <4>1, <4>2 DEF PassInv
      <4> QED BY <3>2, <4>1, <4>3, <4>4 DEF PassInv, InTable, Knows
    <3> QED BY <3>1, <3>2, <3>3, <3>4, <3>5 DEF MigrationInv
  <2>2. ASSUME NEW row \in Row, NewServerRecords(row) PROVE MigrationInv'
    <3>1. /\ prints' \in Seq(Row) /\ Len(prints') = Len(prints) + 1 /\ Len(prints') \in Nat
          /\ \A i \in 1..Len(prints) : prints'[i] = prints[i]
          /\ DOMAIN prints' = 1..(Len(prints) + 1)
      BY <2>2, AppendRow DEF NewServerRecords, MigrationInv
    <3>2. UNCHANGED <<sqlite, pass, copied, migrated>>
      BY <2>2 DEF NewServerRecords
    <3>3. CopiedOnce' /\ copied' \subseteq 1..Len(prints')
      BY <2>0, <3>1, <3>2 DEF MigrationInv, CopiedOnce
    <3>4. AllCopied'
      BY <2>0, <3>1, <3>2, SMTT(20) DEF MigrationInv, AllCopied
    <3>5. ASSUME pass # Null PROVE PassInv(pass)'
      <4>1. PassInv(pass) /\ pass' = pass
        BY <3>2, <3>5 DEF MigrationInv
      <4>2. Len(pass.rows) \in Nat /\ pass.began \in Nat /\ pass.began <= Len(prints)
        BY <4>1, LenProperties DEF PassInv, Passes
      <4>3. \A r : \A n \in 0..Len(prints) : InTable(r, n) => InTable(r, n)'
        BY <2>0, <3>1 DEF InTable
      <4>4. \A r : InTable(r, Len(prints)) => \E j \in 1..Len(prints') : RowKey(prints'[j]) = RowKey(r)
        BY <2>0, <3>1 DEF InTable
      <4>5. \A j \in 1..Len(prints) : Knows(pass, j) <=> Knows(pass, j)'
        BY <3>1, <4>1 DEF Knows
      <4>6. pass'.began <= Len(prints') /\ \A i \in 1..migrated' : InTable(sqlite[i], pass.began)'
        BY <2>0, <3>1, <3>2, <4>1, <4>2, <4>3 DEF PassInv
      <4>7. \A key \in pass.seen : \E j \in 1..Len(prints') : RowKey(prints'[j]) = key
        BY <2>0, <3>1, <4>1 DEF PassInv
      <4>8. pass.at = "starts" => \A j \in 1..pass.began : prints'[j].task # Null => Knows(pass, j)'
        BY <2>0, <3>1, <4>1, <4>2, <4>5 DEF PassInv
      <4>9. pass.at = "rows" => \A j \in (1..pass.began) \union copied : Knows(pass, j)'
        BY <2>0, <3>1, <4>1, <4>2, <4>5 DEF PassInv, MigrationInv
      <4>10. \A i \in 1..(pass.next - 1) : InTable(pass.rows[i], Len(prints))'
        BY <4>1, <4>4 DEF PassInv, InTable
      <4> QED BY <3>2, <4>1, <4>6, <4>7, <4>8, <4>9, <4>10 DEF PassInv
    <3> QED BY <3>1, <3>2, <3>3, <3>4, <3>5 DEF MigrationInv
  <2>3. CASE Begin
    <3>1. pass' = [at |-> "tasks", rows |-> sqlite, next |-> 1, seen |-> {}, began |-> Len(prints)]
          /\ UNCHANGED <<sqlite, prints, copied, migrated>>
      BY <2>3 DEF Begin
    <3>2. pass' \in Passes
      BY <2>0, <3>1 DEF Passes, MigrationInv
    <3>3. \A i \in 1..migrated : InTable(sqlite[i], Len(prints))
      BY <2>0 DEF MigrationInv, AllCopied, InTable
    <3>4. PassInv(pass)'
      BY <2>0, <3>1, <3>2, <3>3 DEF PassInv, InTable, MigrationInv
    <3> QED BY <3>1, <3>4 DEF MigrationInv, CopiedOnce, AllCopied
  <2>4. CASE ReadTasks
    <3>1. pass # Null /\ pass.at = "tasks" /\ PassInv(pass)
          /\ pass' = [pass EXCEPT !.at = "starts", !.seen = TasksSeen(prints)]
          /\ UNCHANGED <<sqlite, prints, copied, migrated>>
      BY <2>4 DEF ReadTasks, MigrationInv
    <3>2. TasksSeen(prints) \subseteq Keys
      BY <2>0 DEF TasksSeen, Keys
    <3>3. pass' \in Passes /\ pass'.at = "starts" /\ pass'.rows = pass.rows /\ pass'.next = pass.next
          /\ pass'.began = pass.began /\ pass'.seen = TasksSeen(prints)
      BY <3>1, <3>2 DEF PassInv, Passes
    <3>4. \A key \in pass'.seen : \E j \in 1..Len(prints) : RowKey(prints[j]) = key
      BY <2>0, <3>3 DEF TasksSeen
    <3>5. \A j \in 1..pass.began : prints[j].task # Null => RowKey(prints[j]) \in pass'.seen
      <4> TAKE j \in 1..pass.began
      <4>1. j \in DOMAIN prints
        BY <2>0, <3>1 DEF PassInv, Passes
      <4> QED BY <3>3, <4>1 DEF TasksSeen
    <3>6. PassInv(pass)'
      BY <3>1, <3>3, <3>4, <3>5 DEF PassInv, InTable, Knows
    <3> QED BY <3>1, <3>6 DEF MigrationInv, CopiedOnce, AllCopied
  <2>5. CASE ReadStarts
    <3> DEFINE all == pass.seen \union StartsSeen(prints)
    <3>1. pass # Null /\ pass.at = "starts" /\ PassInv(pass)
          /\ pass' = [pass EXCEPT !.at = "rows", !.seen = all]
          /\ UNCHANGED <<sqlite, prints, copied, migrated>>
      BY <2>5 DEF ReadStarts, MigrationInv
    <3>2. all \subseteq Keys
      BY <2>0, <3>1 DEF StartsSeen, PassInv, Passes, Keys
    <3> HIDE DEF all
    <3>3. pass' \in Passes /\ pass'.at = "rows" /\ pass'.rows = pass.rows /\ pass'.next = pass.next
          /\ pass'.began = pass.began /\ pass'.seen = all
      BY <3>1, <3>2 DEF PassInv, Passes
    <3>4. \A key \in all : \E j \in 1..Len(prints) : RowKey(prints[j]) = key
      BY <2>0, <3>1 DEF StartsSeen, PassInv, all
    <3>5. ASSUME NEW j \in 1..pass.began, ~Nameless(prints[j]) PROVE RowKey(prints[j]) \in all
      <4>1. j \in DOMAIN prints
        BY <2>0, <3>1 DEF PassInv, Passes
      <4>2. CASE prints[j].task # Null
        BY <3>1, <3>5, <4>2 DEF PassInv, Knows, all
      <4>3. CASE prints[j].task = Null
        BY <3>5, <4>1, <4>3 DEF StartsSeen, Nameless, all
      <4> QED BY <4>2, <4>3
    <3>6. \A j \in (1..pass.began) \union copied : Knows(pass', j)
      BY <3>1, <3>3, <3>5 DEF PassInv, Knows
    <3>7. PassInv(pass)'
      BY <3>1, <3>3, <3>4, <3>6 DEF PassInv, InTable, Knows
    <3> QED BY <3>1, <3>7 DEF MigrationInv, CopiedOnce, AllCopied
  <2>6. CASE SkipRow
    <3> DEFINE row == pass.rows[pass.next]
    <3>1. pass # Null /\ pass.at = "rows" /\ pass.next <= Len(pass.rows) /\ PassInv(pass)
          /\ AlreadyThere(row, pass.seen) /\ pass' = [pass EXCEPT !.next = @ + 1]
          /\ UNCHANGED <<sqlite, prints, copied, migrated>>
      BY <2>6 DEF SkipRow, MigrationInv
    <3>2. pass' \in Passes /\ pass'.at = "rows" /\ pass'.rows = pass.rows /\ pass'.next = pass.next + 1
          /\ pass'.began = pass.began /\ pass'.seen = pass.seen
      BY <3>1 DEF PassInv, Passes
    <3>3. Len(pass.rows) \in Nat /\ pass.next \in Nat \ {0}
      BY <3>1, LenProperties DEF PassInv, Passes
    <3>4. InTable(row, Len(prints))
      BY <3>1 DEF AlreadyThere, PassInv, InTable
    <3>5. \A i \in 1..(pass.next + 1 - 1) : InTable(pass.rows[i], Len(prints))
      <4> TAKE i \in 1..(pass.next + 1 - 1)
      <4>1. i = pass.next \/ i \in 1..(pass.next - 1)
        BY <3>3
      <4> QED BY <3>1, <3>4, <4>1 DEF PassInv
    <3>6. PassInv(pass)'
      BY <3>1, <3>2, <3>3, <3>5 DEF PassInv, InTable, Knows
    <3> QED BY <3>1, <3>6 DEF MigrationInv, CopiedOnce, AllCopied
  <2>7. CASE CopyRow
    <3> DEFINE row == pass.rows[pass.next]
               n == Len(prints)
    <3>1. pass # Null /\ pass.at = "rows" /\ pass.next <= Len(pass.rows) /\ PassInv(pass)
          /\ ~AlreadyThere(row, pass.seen) /\ prints' = Append(prints, row)
          /\ copied' = copied \union {n + 1}
          /\ pass' = [pass EXCEPT !.next = @ + 1, !.seen = Remembered(row, @)]
          /\ UNCHANGED <<sqlite, migrated>>
      BY <2>7 DEF CopyRow, MigrationInv
    <3>2. Len(pass.rows) \in Nat /\ pass.next \in Nat \ {0} /\ row \in Row /\ pass.began \in 0..n
      <4>1. pass.rows \in Seq(Row) /\ pass.next \in Nat \ {0} /\ pass.began \in Nat
        BY <3>1 DEF PassInv, Passes
      <4> QED BY <2>0, <3>1, <4>1, LenProperties, ElementOfSeq DEF PassInv
    <3> HIDE DEF row
    <3>3. /\ prints' \in Seq(Row) /\ Len(prints') = n + 1
          /\ \A i \in 1..n : prints'[i] = prints[i]
          /\ prints'[n + 1] = row
          /\ DOMAIN prints' = 1..(n + 1)
      BY <3>1, <3>2, AppendRow DEF MigrationInv
    <3>4. pass' \in Passes /\ pass'.at = "rows" /\ pass'.rows = pass.rows /\ pass'.next = pass.next + 1
          /\ pass'.began = pass.began /\ pass'.seen = Remembered(row, pass.seen)
      <4>1. Remembered(row, pass.seen) \subseteq Keys
        BY <3>1, <3>2 DEF PassInv, Passes, Remembered, Keys
      <4> DEFINE all == Remembered(row, pass.seen)
                 next == pass.next + 1
      <4>2. pass \in Passes /\ pass' = [pass EXCEPT !.next = next, !.seen = all]
        BY <3>1 DEF PassInv
      <4>5. next \in Nat \ {0}
        BY <3>2
      <4> HIDE DEF all, next
      <4>3. all \in SUBSET Keys
        BY <4>1 DEF all
      <4>4. pass' \in Passes /\ pass'.at = pass.at /\ pass'.rows = pass.rows /\ pass'.next = next
            /\ pass'.began = pass.began /\ pass'.seen = all
        BY <4>2, <4>3, <4>5 DEF Passes
      <4> QED BY <3>1, <4>4 DEF all, next
    <3>5. \A j \in copied : Knows(pass, j) /\ j \in 1..n
      BY <3>1 DEF PassInv, MigrationInv
    <3>6. ASSUME NEW j \in copied, RowKey(prints[j]) = RowKey(row) PROVE Nameless(row)
      <4>1. prints[j] \in Row
        BY <2>0, <3>5
      <4>2. Nameless(prints[j]) <=> Nameless(row)
        BY <3>2, <3>6, <4>1, KeysName
      <4> QED BY <3>1, <3>5, <3>6, <4>2 DEF Knows, AlreadyThere
    <3>7. CopiedOnce'
      <4> SUFFICES ASSUME NEW i \in copied', NEW j \in copied',
                          RowKey(prints'[i]) = RowKey(prints'[j]), ~Nameless(prints'[i])
                   PROVE  i = j
        BY DEF CopiedOnce
      <4>1. CASE i \in copied /\ j \in copied
        BY <3>3, <3>5, <4>1 DEF MigrationInv, CopiedOnce
      <4>2. CASE i \in copied /\ j = n + 1
        <5>1. Nameless(row) /\ prints[i] = prints'[i] /\ prints[i] \in Row /\ RowKey(prints[i]) = RowKey(row)
          BY <2>0, <3>3, <3>5, <3>6, <4>2
        <5> QED BY <3>2, <5>1, KeysName
      <4>3. CASE i = n + 1 /\ j \in copied
        BY <3>3, <3>5, <3>6, <4>3
      <4> QED BY <3>1, <4>1, <4>2, <4>3
    <3>8. AllCopied' /\ copied' \subseteq 1..Len(prints')
      BY <2>0, <3>1, <3>3, <3>5 DEF MigrationInv, AllCopied
    <3>9. \A r : \A k \in 0..n : InTable(r, k) => InTable(r, k)'
      BY <2>0, <3>3 DEF InTable
    <3>10. \A i \in 1..migrated : InTable(sqlite[i], pass.began)'
      BY <3>1, <3>2, <3>9 DEF PassInv
    <3>11. \A key \in pass'.seen : \E j \in 1..(n + 1) : RowKey(prints'[j]) = key
      <4> TAKE key \in pass'.seen
      <4>1. CASE key \in pass.seen
        <5>1. PICK j \in 1..n : RowKey(prints[j]) = key
          BY <3>1, <4>1 DEF PassInv
        <5> QED BY <2>0, <3>3, <5>1
      <4>2. CASE key = RowKey(row)
        BY <2>0, <3>3, <4>2
      <4> QED BY <3>4, <4>1, <4>2 DEF Remembered
    <3>12. \A j \in (1..pass'.began) \union copied' : Knows(pass, j)'
      <4> TAKE j \in (1..pass'.began) \union copied'
      <4>1. CASE j = n + 1
        BY <3>3, <3>4, <4>1 DEF Knows, Remembered
      <4>2. CASE j \in (1..pass.began) \union copied
        <5>1. j \in 1..n /\ Knows(pass, j)
          BY <2>0, <3>1, <3>2, <3>5, <4>2 DEF PassInv
        <5> QED BY <3>3, <3>4, <5>1 DEF Knows, Remembered
      <4> QED BY <3>1, <3>4, <4>1, <4>2
    <3>13. \A i \in 1..(pass'.next - 1) : \E j \in 1..(n + 1) : RowKey(prints'[j]) = RowKey(pass'.rows[i])
      <4> TAKE i \in 1..(pass'.next - 1)
      <4>1. CASE i = pass.next
        BY <2>0, <3>3, <3>4, <4>1 DEF row
      <4>2. CASE i \in 1..(pass.next - 1)
        <5>1. PICK j \in 1..n : RowKey(prints[j]) = RowKey(pass.rows[i])
          BY <3>1, <4>2 DEF PassInv, InTable
        <5> QED BY <2>0, <3>3, <3>4, <5>1
      <4> QED BY <3>2, <3>4, <4>1, <4>2
    <3>14. /\ Len(pass'.rows) <= Len(sqlite') /\ \A i \in 1..Len(pass'.rows) : pass'.rows[i] = sqlite'[i]
           /\ pass'.next <= Len(pass'.rows) + 1 /\ pass'.began <= Len(prints')
      BY <2>0, <3>1, <3>2, <3>3, <3>4 DEF PassInv
    <3>15. PassInv(pass)'
      BY <3>1, <3>3, <3>4, <3>10, <3>11, <3>12, <3>13, <3>14, ZenonT(30) DEF PassInv, InTable
    <3> QED BY <3>1, <3>3, <3>7, <3>8, <3>15 DEF MigrationInv
  <2>8. CASE Finish
    <3>1. pass # Null /\ pass.at = "rows" /\ pass.next > Len(pass.rows) /\ PassInv(pass)
          /\ pass' = Null /\ migrated' = Len(pass.rows) /\ UNCHANGED <<sqlite, prints, copied>>
      BY <2>8 DEF Finish, MigrationInv
    <3>2. Len(pass.rows) \in Nat /\ pass.next \in Nat /\ Len(pass.rows) <= Len(sqlite)
      BY <3>1, LenProperties DEF PassInv, Passes
    <3>3. \A i \in 1..Len(pass.rows) : \E j \in DOMAIN prints : RowKey(prints[j]) = RowKey(sqlite[i])
      <4> TAKE i \in 1..Len(pass.rows)
      <4>1. i \in 1..(pass.next - 1) /\ pass.rows[i] = sqlite[i]
        BY <3>1, <3>2 DEF PassInv
      <4> QED BY <2>0, <3>1, <4>1 DEF PassInv, InTable
    <3> QED BY <3>1, <3>2, <3>3 DEF MigrationInv, CopiedOnce, AllCopied
  <2>9. CASE Stop
    BY <2>9 DEF Stop, MigrationInv, CopiedOnce, AllCopied
  <2>10. CASE UNCHANGED migrationVars
    BY <2>10 DEF migrationVars, MigrationInv, CopiedOnce, AllCopied, PassInv, Knows, InTable
  <2> QED BY <2>1, <2>2, <2>3, <2>4, <2>5, <2>6, <2>7, <2>8, <2>9, <2>10 DEF MigrationNext
<1> QED BY <1>1, <1>2, PTL DEF MigrationSpec

(* Whatever the servers write meanwhile and wherever passes stop: what a   *)
(* finished pass has read is in the new table, and no print that passes    *)
(* copied is there twice (migrate-history.ts:61-106).                      *)
THEOREM MigrationCopiesAll == MigrationSpec => []CopiedExactlyOnce
BY MigrationInvHolds, PTL DEF MigrationInv, CopiedExactlyOnce

(* No pass copies what an earlier one has read to the end, or what stood   *)
(* in the new table when it began (migrate-history.ts:16-20).              *)
THEOREM MigrationIsIdempotent == MigrationSpec => NothingTwice
<1> DEFINE Step == \A i \in copied' \ copied :
                     \/ Nameless(prints'[i])
                     \/ /\ pass.next > migrated
                        /\ \A j \in 1..pass.began : RowKey(prints[j]) # RowKey(prints'[i])
<1>1. MigrationInv /\ [MigrationNext]_migrationVars => [Step]_migrationVars
  <2> SUFFICES ASSUME MigrationInv, MigrationNext, NEW i \in copied' \ copied, ~Nameless(prints'[i])
               PROVE  /\ pass.next > migrated
                      /\ \A j \in 1..pass.began : RowKey(prints[j]) # RowKey(prints'[i])
    BY DEF migrationVars
  <2> DEFINE row == pass.rows[pass.next]
  <2>0. CopyRow
    BY DEF MigrationNext, OldServerRecords, NewServerRecords, Begin, ReadTasks, ReadStarts, SkipRow,
           Finish, Stop
  <2>1. /\ PassInv(pass) /\ pass.at = "rows" /\ pass.next <= Len(pass.rows)
        /\ ~AlreadyThere(row, pass.seen) /\ prints' = Append(prints, row)
        /\ copied' = copied \union {Len(prints) + 1}
    BY <2>0 DEF CopyRow, MigrationInv
  <2>2. /\ pass.rows \in Seq(Row) /\ pass.next \in Nat \ {0} /\ Len(pass.rows) \in Nat
        /\ pass.began \in Nat /\ pass.began <= Len(prints)
    BY <2>1, LenProperties DEF PassInv, Passes
  <2>3. row \in Row /\ row = sqlite[pass.next]
    BY <2>1, <2>2, ElementOfSeq DEF PassInv
  <2> HIDE DEF row
  <2>4. prints'[i] = row /\ ~Nameless(row)
    BY <2>1, <2>3, AppendRow DEF MigrationInv
  <2>5. \A j \in 1..pass.began : prints[j] \in Row /\ Knows(pass, j)
    BY <2>1, <2>2, SizesKnown DEF PassInv
  <2>6. ASSUME NEW j \in 1..pass.began PROVE RowKey(prints[j]) # RowKey(row)
    BY <2>1, <2>3, <2>4, <2>5, KeysName DEF Knows, AlreadyThere
  <2>7. ASSUME pass.next <= migrated PROVE FALSE
    <3>1. pass.next \in 1..migrated
      BY <2>2, <2>7 DEF MigrationInv
    <3>2. InTable(row, pass.began)
      BY <2>1, <2>3, <3>1 DEF PassInv
    <3> QED BY <2>6, <3>2 DEF InTable
  <2> QED BY <2>2, <2>4, <2>6, <2>7 DEF MigrationInv
<1> QED BY <1>1, MigrationInvHolds, PTL DEF MigrationSpec, NothingTwice

-----------------------------------------------------------------------------
(* Calculations: ranges and progress.                                      *)
LEMMA RangeIsRight ==
  ASSUME NEW x \in RangeInput PROVE RangeAgrees(x)
<1> DEFINE from == x.from
           to == x.to
           size == x.size
           start == IF from # None THEN from ELSE Most(0, size - to)
           end == IF from # None /\ to # None THEN Least(to, size - 1) ELSE size - 1
           bytes == BytesAsked(from, to, size)
           answer == [start |-> start, end |-> end, partial |-> TRUE]
<1>1. from \in Nat \union {None} /\ to \in Nat \union {None} /\ size \in Nat
  BY DEF RangeInput
<1>2. None \notin Int
  BY NoneAssumption
<1> HIDE DEF from, to, size
<1>3. CASE from = None /\ to = None
  <2>1. bytes = 0..(size - 1)
    BY <1>3 DEF BytesAsked
  <2>2. ParseRange(from, to, size) = [start |-> 0, end |-> size - 1, partial |-> FALSE]
    BY <1>3 DEF ParseRange
  <2>3. ParseRange(from, to, size) # Invalid
    <3>1. [start |-> 0, end |-> size - 1, partial |-> FALSE] \in [start : Int, end : Int, partial : BOOLEAN]
      BY <1>1
    <3> QED BY <2>2, <3>1, InvalidAssumption
  <2> QED BY <2>1, <2>2, <2>3 DEF RangeAgrees, from, to, size
<1>4. CASE ~(from = None /\ to = None)
  <2>1. start \in Int /\ end \in Int
    BY <1>1, <1>4 DEF Most, Least
  <2>2. bytes = {i \in 0..(size - 1) : start <= i /\ i <= end}
    <3>1. CASE from # None /\ to # None
      BY <1>1, <1>2, <3>1 DEF BytesAsked, Least
    <3>2. CASE from # None /\ to = None
      BY <1>1, <1>2, <3>2 DEF BytesAsked
    <3>3. CASE from = None
      BY <1>1, <1>2, <1>4, <3>3 DEF BytesAsked, Most
    <3> QED BY <3>1, <3>2, <3>3
  <2>3. 0 <= start /\ end <= size - 1
    BY <1>1, <1>2, <1>4 DEF Most, Least
  <2>4. ParseRange(from, to, size) = IF start > end \/ start >= size THEN Invalid ELSE answer
    BY <1>4 DEF ParseRange
  <2> HIDE DEF start, end, bytes
  <2>5. answer # Invalid
    <3>1. answer \in [start : Int, end : Int, partial : BOOLEAN]
      BY <2>1
    <3> HIDE DEF answer
    <3> QED BY <3>1, InvalidAssumption
  <2>6. CASE start > end \/ start >= size
    <3>1. bytes = {}
      BY <1>1, <2>1, <2>2, <2>6
    <3> QED BY <2>4, <2>6, <3>1 DEF RangeAgrees, from, to, size, bytes
  <2>7. CASE ~(start > end \/ start >= size)
    <3>1. bytes = start..end
      BY <1>1, <2>1, <2>2, <2>3, <2>7
    <3>2. answer.start = start /\ answer.end = end
      OBVIOUS
    <3> HIDE DEF answer
    <3> QED BY <2>4, <2>5, <2>7, <3>1, <3>2 DEF RangeAgrees, from, to, size, bytes
  <2> QED BY <2>6, <2>7
<1> QED BY <1>3, <1>4

(* A quotient is within a bound where the dividend is. *)
LEMMA Quotient ==
  ASSUME NEW n \in Int, NEW d \in Nat \ {0}
  PROVE  /\ n \div d \in Int /\ n % d \in 0..(d - 1)
         /\ n = d * (n \div d) + (n % d)
OBVIOUS

LEMMA QuotientAtLeast ==
  ASSUME NEW n \in Int, NEW d \in Nat \ {0}, NEW q \in Int
  PROVE  q <= n \div d <=> d * q <= n
<1> DEFINE p == n \div d
           r == n % d
<1>1. p \in Int /\ r \in 0..(d - 1) /\ n = d * p + r
  BY Quotient
<1> HIDE DEF p, r
<1>2. ASSUME q <= p PROVE d * q <= n
  <2>1. PICK k \in Nat : p = q + k
    <3>1. p - q \in Nat /\ p = q + (p - q)
      BY <1>1, <1>2
    <3> QED BY <3>1
  <2>2. d * p = d * q + d * k
    BY <2>1
  <2>3. d * k \in Nat /\ d * q \in Int
    OBVIOUS
  <2> QED BY <1>1, <2>2, <2>3
<1>3. ASSUME d * q <= n PROVE q <= p
  <2> SUFFICES ASSUME p < q PROVE FALSE
    BY <1>1
  <2>1. PICK k \in Nat : q = p + 1 + k
    <3>1. q - p - 1 \in Nat /\ q = p + 1 + (q - p - 1)
      BY <1>1
    <3> QED BY <3>1
  <2>2. d * q = d * p + d + d * k
    BY <1>1, <2>1
  <2>3. d * k \in Nat /\ d * p \in Int
    BY <1>1
  <2> QED BY <1>1, <1>3, <2>2, <2>3
<1>4. q <= p <=> d * q <= n
  BY <1>2, <1>3
<1> QED BY <1>4 DEF p

LEMMA RatioFacts ==
  ASSUME NEW current \in Count, NEW total \in Count
  PROVE  /\ Ratio(current, total) \in (0..100) \union {None}
         /\ Ratio(current, total) = 100 => 200 * current >= 199 * total
<1> SUFFICES ASSUME current \in Int, total \in Nat \ {0}
             PROVE  /\ Ratio(current, total) \in 0..100
                    /\ Ratio(current, total) = 100 => 200 * current >= 199 * total
  BY NoneAssumption DEF Ratio, Count
<1> DEFINE n == 2 * (current * 100) + total
           d == 2 * total
           p == n \div d
<1>1. n \in Int /\ d \in Nat \ {0} /\ p \in Int
  BY Quotient
<1>2. Ratio(current, total) = Least(100, Most(0, p))
  BY NoneAssumption DEF Ratio, Round
<1>3. 100 <= p <=> d * 100 <= n
  <2> HIDE DEF n, d
  <2> QED BY <1>1, QuotientAtLeast
<1> HIDE DEF p
<1>4. Least(100, Most(0, p)) \in 0..100 /\ (Least(100, Most(0, p)) = 100 <=> 100 <= p)
  BY <1>1 DEF Least, Most
<1> QED BY <1>2, <1>3, <1>4

LEMMA ProgressIsRight ==
  ASSUME NEW x \in ProgressInput PROVE ProgressAgrees(x)
<1>1. x.layer \in Count /\ x.layers \in Count /\ x.ticks \in Count /\ x.allTicks \in Count
  BY DEF ProgressInput
<1>2. None \notin 0..100
  BY NoneAssumption
<1> DEFINE a == Ratio(x.layer, x.layers)
           b == Ratio(x.ticks, x.allTicks)
<1>3. a \in (0..100) \union {None} /\ (a = 100 => 200 * x.layer >= 199 * x.layers)
  BY <1>1, RatioFacts
<1>4. b \in (0..100) \union {None}
  BY <1>1, RatioFacts
<1>5. ProgressPercent(x.layer, x.layers, x.ticks, x.allTicks) = IF a # None THEN a ELSE b
  BY DEF ProgressPercent
<1> HIDE DEF a, b
<1> QED BY <1>2, <1>3, <1>4, <1>5 DEF ProgressAgrees, a, b

-----------------------------------------------------------------------------
(* Where the layers of a file are. *)
AheadOf(sizes) ==
  CHOOSE f : f = [n \in 0..Len(sizes) |-> IF n = 0 THEN 0 ELSE f[n - 1] + sizes[n]]

LEMMA AheadFacts ==
  ASSUME NEW sizes \in Seq(Nat)
  PROVE  LET a == AheadOf(sizes) IN
         /\ a[0] = 0
         /\ \A k \in 1..Len(sizes) : a[k] = a[k - 1] + sizes[k]
         /\ \A k \in 0..Len(sizes) : a[k] \in Nat
<1> DEFINE m == Len(sizes)
           F == [k \in 1..m |-> [s \in Nat |-> s + sizes[k]]]
           a == AheadOf(sizes)
<1>0. m \in Nat /\ \A k \in 1..m : sizes[k] \in Nat
  BY LenProperties, ElementOfSeq
<1>1. F \in [1..m -> [Nat -> Nat]]
  BY <1>0
<1> HIDE DEF m
<1>2. PICK h \in [0..m -> Nat] : IsLoop(h, m, 0, F)
  <2> HIDE DEF F
  <2> QED BY <1>0, <1>1, LoopExists
<1>3. h[0] = 0 /\ \A k \in 1..m : h[k] = h[k - 1] + sizes[k]
  <2>1. \A k \in 1..m : h[k - 1] \in Nat
    BY <1>0
  <2> QED BY <1>2, <2>1 DEF IsLoop
<1>4. h = [k \in 0..m |-> IF k = 0 THEN 0 ELSE h[k - 1] + sizes[k]]
  <2> HIDE DEF F
  <2> QED BY <1>0, <1>3
<1>5. a = [k \in 0..m |-> IF k = 0 THEN 0 ELSE a[k - 1] + sizes[k]]
  BY <1>4 DEF AheadOf, m
<1> HIDE DEF a, F
<1>6. a[0] = 0 /\ \A k \in 1..m : a[k] = a[k - 1] + sizes[k]
  BY <1>0, <1>5
<1>7. \A k \in 0..m : a[k] \in Nat
  <2>1. \A k \in 1..m : a[k - 1] \in Nat => a[k] \in Nat
    <3> TAKE k \in 1..m
    <3>1. sizes[k] \in Nat /\ a[k] = a[k - 1] + sizes[k]
      BY <1>0, <1>6
    <3> QED BY <3>1
  <2>2. a[0] \in Nat
    BY <1>6
  <2> QED BY <1>0, <2>1, <2>2, LoopType
<1> QED BY <1>6, <1>7 DEF a, m

LayerTurns(sizes, misplaced, offset, length) ==
  CHOOSE f : f = [n \in 0..Len(sizes) |->
                    IF n = 0 THEN [ok |-> TRUE, offset |-> offset, refs |-> <<>>]
                    ELSE NextLayer(f[n - 1], sizes[n], n \notin misplaced, length)]

Finding == [ok : BOOLEAN, offset : Nat, refs : Seq(Nat)]

LEMMA NextLayerType ==
  ASSUME NEW s \in Finding, NEW size \in Nat, NEW placed, NEW length \in Nat
  PROVE  NextLayer(s, size, placed, length) \in Finding
<1> DEFINE data == s.offset + DefinitionBytes + 4
           after == data + size + 2
           refs == Append(s.refs, data)
<1>1. data \in Nat /\ after \in Nat
  BY DEF Finding, DefinitionBytes
<1>2. refs \in Seq(Nat)
  BY <1>1 DEF Finding
<1>3. NextLayer(s, size, placed, length) =
        IF ~s.ok \/ data > length \/ ~placed THEN [s EXCEPT !.ok = FALSE]
        ELSE [s EXCEPT !.refs = refs, !.offset = after]
  BY DEF NextLayer
<1> HIDE DEF data, after, refs
<1> QED BY <1>1, <1>2, <1>3 DEF Finding

AreTurns(f, sizes, misplaced, offset, length) ==
  /\ f[0] = [ok |-> TRUE, offset |-> offset, refs |-> <<>>]
  /\ \A k \in 1..Len(sizes) : f[k] = NextLayer(f[k - 1], sizes[k], k \notin misplaced, length)

LEMMA LayerTurnsFacts ==
  ASSUME NEW sizes \in Seq(Nat), NEW misplaced, NEW offset \in Nat, NEW length \in Nat
  PROVE  AreTurns(LayerTurns(sizes, misplaced, offset, length), sizes, misplaced, offset, length)
<1> DEFINE m == Len(sizes)
           c == [ok |-> TRUE, offset |-> offset, refs |-> <<>>]
           F == [k \in 1..m |-> [s \in Finding |-> NextLayer(s, sizes[k], k \notin misplaced, length)]]
           f == LayerTurns(sizes, misplaced, offset, length)
<1>0. m \in Nat /\ \A k \in 1..m : sizes[k] \in Nat
  BY LenProperties, ElementOfSeq
<1> HIDE DEF m
<1>1. F \in [1..m -> [Finding -> Finding]]
  BY <1>0, NextLayerType
<1>a. c \in Finding
  BY DEF Finding
<1> HIDE DEF c
<1>2. PICK h \in [0..m -> Finding] : IsLoop(h, m, c, F)
  <2> HIDE DEF F
  <2> QED BY <1>0, <1>1, <1>a, LoopExists
<1>3. h[0] = c /\ \A k \in 1..m : h[k] = NextLayer(h[k - 1], sizes[k], k \notin misplaced, length)
  <2>1. \A k \in 1..m : h[k - 1] \in Finding
    BY <1>0
  <2> QED BY <1>2, <2>1 DEF IsLoop
<1>4. h = [k \in 0..m |-> IF k = 0 THEN c ELSE NextLayer(h[k - 1], sizes[k], k \notin misplaced, length)]
  <2> HIDE DEF F
  <2> QED BY <1>0, <1>3
<1>5. f = [k \in 0..m |-> IF k = 0 THEN c ELSE NextLayer(f[k - 1], sizes[k], k \notin misplaced, length)]
  BY <1>4 DEF LayerTurns, m, c
<1> HIDE DEF f, F
<1>6. f[0] = c /\ \A k \in 1..m : f[k] = NextLayer(f[k - 1], sizes[k], k \notin misplaced, length)
  BY <1>0, <1>5
<1> QED BY <1>6 DEF AreTurns, f, m, c

(* Where the data of the i-th layer starts. *)
StartOf(x, i) == x.offset + i * (DefinitionBytes + 4) + (i - 1) * 2 + AheadOf(x.sizes)[i - 1]
StartsUpto(x, m) == [i \in 1..m |-> StartOf(x, i)]

LEMMA StartsIncrease ==
  ASSUME NEW x \in IndexInput, NEW i \in 1..Len(x.sizes)
  PROVE  /\ StartOf(x, i) \in Nat /\ x.sizes[i] \in Nat
         /\ i = 1 => StartOf(x, i) = x.offset + 70
         /\ i > 1 => StartOf(x, i) = StartOf(x, i - 1) + x.sizes[i - 1] + 72
<1> DEFINE sizes == x.sizes
           a == AheadOf(sizes)
<1>1. sizes \in Seq(Nat) /\ x.offset \in Nat
  BY DEF IndexInput
<1>2. Len(sizes) \in Nat /\ i \in 1..Len(sizes)
  BY <1>1, LenProperties
<1> HIDE DEF sizes
<1>3. \A k \in 1..Len(sizes) : sizes[k] \in Nat
  BY <1>1, ElementOfSeq
<1>4. a[0] = 0 /\ (\A k \in 1..Len(sizes) : a[k] = a[k - 1] + sizes[k])
      /\ \A k \in 0..Len(sizes) : a[k] \in Nat
  BY <1>1, AheadFacts
<1>5. i - 1 \in 0..Len(sizes) /\ (i > 1 => i - 1 \in 1..Len(sizes) /\ i - 1 - 1 \in 0..Len(sizes))
  BY <1>2
<1>6. a[i - 1] \in Nat /\ (i > 1 => a[i - 1] = a[i - 1 - 1] + sizes[i - 1] /\ sizes[i - 1] \in Nat
                                    /\ a[i - 1 - 1] \in Nat)
  BY <1>3, <1>4, <1>5
<1>7. i = 1 => a[i - 1] = 0
  BY <1>4
<1>8. StartOf(x, i) = x.offset + i * 70 + (i - 1) * 2 + a[i - 1]
      /\ StartOf(x, i - 1) = x.offset + (i - 1) * 70 + (i - 1 - 1) * 2 + a[i - 1 - 1]
  BY DEF StartOf, DefinitionBytes, sizes
<1> DEFINE v == a[i - 1]
           w == a[i - 1 - 1]
           o == x.offset
           p == StartOf(x, i)
           q == StartOf(x, i - 1)
           z == sizes[i - 1]
<1>b. o \in Nat /\ v \in Nat /\ (i > 1 => v = w + z /\ w \in Nat /\ z \in Nat) /\ (i = 1 => v = 0)
      /\ p = o + i * 70 + (i - 1) * 2 + v /\ q = o + (i - 1) * 70 + (i - 1 - 1) * 2 + w
  BY <1>1, <1>6, <1>7, <1>8
<1>c. i \in Nat /\ i >= 1
  BY <1>2
<1> HIDE DEF a, v, w, o, p, q, z
<1>d. p \in Nat /\ (i = 1 => p = o + 70) /\ (i > 1 => p = q + z + 72)
  BY <1>b, <1>c, SMTT(20)
<1>9. StartOf(x, i) \in Nat /\ (i = 1 => StartOf(x, i) = x.offset + 70)
      /\ (i > 1 => StartOf(x, i) = StartOf(x, i - 1) + sizes[i - 1] + 72)
  BY <1>d DEF o, p, q, z
<1> QED BY <1>2, <1>3, <1>9 DEF sizes

LEMMA StartsAppend ==
  ASSUME NEW x \in IndexInput, NEW m \in Nat, m + 1 <= Len(x.sizes)
  PROVE  Append(StartsUpto(x, m), StartOf(x, m + 1)) = StartsUpto(x, m + 1)
<1> DEFINE a == StartsUpto(x, m)
           v == StartOf(x, m + 1)
<1>0. Len(x.sizes) \in Nat
  BY LenProperties DEF IndexInput
<1>1. v \in Nat /\ \A i \in 1..m : StartOf(x, i) \in Nat
  BY <1>0, StartsIncrease
<1>2. a \in [1..m -> Nat] /\ a \in Seq(Nat) /\ Len(a) = m
  <2>1. a \in [1..m -> Nat]
    BY <1>1 DEF StartsUpto
  <2> HIDE DEF a
  <2> QED BY <2>1, SeqDef, LenProperties
<1>3. StartsUpto(x, m + 1) \in [1..(m + 1) -> Nat]
  <2>1. \A i \in 1..(m + 1) : StartOf(x, i) \in Nat
    BY <1>0, StartsIncrease
  <2> QED BY <2>1 DEF StartsUpto
<1>4. StartsUpto(x, m + 1) \in Seq(Nat) /\ Len(StartsUpto(x, m + 1)) = m + 1
  BY <1>3, SeqDef, LenProperties
<1>5. \A i \in 1..m : a[i] = StartOf(x, i) /\ StartsUpto(x, m + 1)[i] = StartOf(x, i)
  BY DEF StartsUpto
<1>6. StartsUpto(x, m + 1)[m + 1] = v
  BY DEF StartsUpto
<1> HIDE DEF a, v
<1>7. Append(a, v) \in Seq(Nat) /\ Len(Append(a, v)) = m + 1 /\ Append(a, v)[m + 1] = v
      /\ \A i \in 1..m : Append(a, v)[i] = a[i]
  BY <1>1, <1>2, AppendProperties
<1>8. \A i \in 1..(m + 1) : Append(a, v)[i] = StartsUpto(x, m + 1)[i]
  <2> TAKE i \in 1..(m + 1)
  <2>1. i = m + 1 \/ i \in 1..m
    OBVIOUS
  <2> QED BY <1>5, <1>6, <1>7, <2>1
<1>9. Append(a, v) = StartsUpto(x, m + 1)
  BY <1>4, <1>7, <1>8, SeqEqual
<1> QED BY <1>9 DEF a, v

(* After m layers: where the next would be, if all of them were there. *)
Fits(x, m) ==
  (m = 0 \/ StartOf(x, m) <= x.length) /\ \A i \in 1..m : i \notin x.misplaced
AfterLayers(x, m) ==
  [ok |-> TRUE, offset |-> IF m = 0 THEN x.offset ELSE StartOf(x, m) + x.sizes[m] + 2,
   refs |-> StartsUpto(x, m)]

LEMMA NextLayerIsRight ==
  ASSUME NEW x \in IndexInput, NEW m \in Nat, m + 1 <= Len(x.sizes), NEW s,
         s.ok = Fits(x, m), Fits(x, m) => s = AfterLayers(x, m)
  PROVE  /\ NextLayer(s, x.sizes[m + 1], m + 1 \notin x.misplaced, x.length).ok = Fits(x, m + 1)
         /\ Fits(x, m + 1) => NextLayer(s, x.sizes[m + 1], m + 1 \notin x.misplaced, x.length) = AfterLayers(x, m + 1)
<1> DEFINE t == NextLayer(s, x.sizes[m + 1], m + 1 \notin x.misplaced, x.length)
           data == s.offset + DefinitionBytes + 4
           start == StartOf(x, m + 1)
<1>0. Len(x.sizes) \in Nat /\ x.length \in Nat /\ x.offset \in Nat
  BY LenProperties DEF IndexInput
<1>1. start \in Nat /\ x.sizes[m + 1] \in Nat /\ (m = 0 => start = x.offset + 70)
      /\ (m # 0 => start = StartOf(x, m) + x.sizes[m] + 72)
  <2>1. m + 1 \in 1..Len(x.sizes) /\ (m + 1) - 1 = m
    BY <1>0
  <2>2. start \in Nat /\ x.sizes[m + 1] \in Nat /\ (m + 1 = 1 => start = x.offset + 70)
      /\ (m + 1 > 1 => start = StartOf(x, (m + 1) - 1) + x.sizes[(m + 1) - 1] + 72)
    BY <2>1, StartsIncrease
  <2> QED BY <2>1, <2>2
<1>2. m # 0 => StartOf(x, m) \in Nat /\ x.sizes[m] \in Nat
  BY <1>0, StartsIncrease
<1> HIDE DEF start
<1>a. Fits(x, m + 1) <=> start <= x.length /\ m + 1 \notin x.misplaced
                         /\ \A i \in 1..m : i \notin x.misplaced
  BY DEF Fits, start
<1>b. Fits(x, m + 1) \in BOOLEAN
  BY DEF Fits
<1>3. CASE ~Fits(x, m)
  <2>1. start > x.length \/ ~\A i \in 1..m : i \notin x.misplaced
    BY <1>0, <1>1, <1>2, <1>3 DEF Fits
  <2>2. t = [s EXCEPT !.ok = FALSE] /\ s.ok = FALSE
    BY <1>3 DEF NextLayer
  <2> HIDE DEF t
  <2>3. t.ok = FALSE
    BY <2>2
  <2>4. ~Fits(x, m + 1)
    BY <1>0, <1>1, <1>a, <2>1
  <2> QED BY <1>b, <2>3, <2>4 DEF t
<1>4. CASE Fits(x, m)
  <2>1. s = AfterLayers(x, m)
    BY <1>4
  <2>a. s.refs = StartsUpto(x, m) /\ s.ok = TRUE
        /\ s.offset = IF m = 0 THEN x.offset ELSE StartOf(x, m) + x.sizes[m] + 2
    BY <2>1 DEF AfterLayers
  <2>b. s.offset + 66 + 4 = start
    <3> DEFINE o == s.offset
               p == StartOf(x, m)
               z == x.sizes[m]
    <3>1. o = IF m = 0 THEN x.offset ELSE p + z + 2
      BY <2>a
    <3>2. m # 0 => p \in Nat /\ z \in Nat /\ start = p + z + 72
      BY <1>1, <1>2
    <3> HIDE DEF o, p, z
    <3>3. o + 66 + 4 = start
      BY <1>0, <1>1, <3>1, <3>2
    <3> QED BY <3>3 DEF o
  <2>2. data = start /\ s.refs = StartsUpto(x, m) /\ s.ok = TRUE
    BY <2>a, <2>b DEF DefinitionBytes
  <2> HIDE DEF data
  <2>3. CASE start > x.length \/ ~(m + 1 \notin x.misplaced)
    <3>1. t = [s EXCEPT !.ok = FALSE]
      BY <2>2, <2>3 DEF NextLayer, data
    <3>2. t.ok = FALSE
      BY <2>1, <3>1 DEF AfterLayers
    <3>3. ~Fits(x, m + 1)
      BY <1>0, <1>1, <1>a, <2>3
    <3> QED BY <1>b, <3>2, <3>3
  <2>4. CASE start <= x.length /\ m + 1 \notin x.misplaced
    <3>1. t = [s EXCEPT !.refs = Append(s.refs, start), !.offset = start + x.sizes[m + 1] + 2]
      <4>1. ~(~s.ok \/ data > x.length \/ ~(m + 1 \notin x.misplaced))
        BY <1>0, <1>1, <2>2, <2>4
      <4> QED BY <2>2, <4>1 DEF NextLayer, data
    <3>2. Append(s.refs, start) = StartsUpto(x, m + 1)
      BY <2>2, StartsAppend DEF start
    <3>3. t = [ok |-> TRUE, offset |-> start + x.sizes[m + 1] + 2, refs |-> StartsUpto(x, m + 1)]
      BY <2>1, <3>1, <3>2 DEF AfterLayers
    <3>4. AfterLayers(x, m + 1) = [ok |-> TRUE, offset |-> start + x.sizes[m + 1] + 2, refs |-> StartsUpto(x, m + 1)]
      <4> DEFINE o == IF m + 1 = 0 THEN x.offset ELSE StartOf(x, m + 1) + x.sizes[m + 1] + 2
      <4>1. o = start + x.sizes[m + 1] + 2
        <5>1. m + 1 # 0
          OBVIOUS
        <5> QED BY <5>1 DEF start
      <4>2. AfterLayers(x, m + 1) = [ok |-> TRUE, offset |-> o, refs |-> StartsUpto(x, m + 1)]
        BY DEF AfterLayers
      <4> HIDE DEF o
      <4> QED BY <4>1, <4>2
    <3>5. t = AfterLayers(x, m + 1) /\ t.ok = TRUE
      BY <3>3, <3>4
    <3>6. Fits(x, m + 1) = TRUE
      <4>1. \A i \in 1..m : i \notin x.misplaced
        BY <1>4 DEF Fits
      <4> QED BY <1>a, <1>b, <2>4, <4>1
    <3> QED BY <3>5, <3>6
  <2> QED BY <1>0, <1>1, <2>3, <2>4
<1> QED BY <1>3, <1>4

LEMMA IndexIsRight ==
  ASSUME NEW x \in IndexInput PROVE IndexAgrees(x)
<1> DEFINE m == Len(x.sizes)
           f == LayerTurns(x.sizes, x.misplaced, x.offset, x.length)
           T == {k \in 0..m : f[k].ok = Fits(x, k) /\ (Fits(x, k) => f[k] = AfterLayers(x, k))}
<1>1. x.sizes \in Seq(Nat) /\ m \in Nat /\ x.offset \in Nat /\ x.length \in Nat
  BY LenProperties DEF IndexInput
<1>2. f[0] = [ok |-> TRUE, offset |-> x.offset, refs |-> <<>>]
      /\ \A k \in 1..m : f[k] = NextLayer(f[k - 1], x.sizes[k], k \notin x.misplaced, x.length)
  <2>1. AreTurns(f, x.sizes, x.misplaced, x.offset, x.length)
    BY <1>1, LayerTurnsFacts
  <2> HIDE DEF f
  <2> QED BY <2>1 DEF AreTurns, m
<1>3. Indexed(x.sizes, x.misplaced, x.offset, x.length) = IF f[m].ok THEN f[m].refs ELSE Refused
  BY DEF Indexed, LayerTurns
<1> HIDE DEF f
<1>4. 0 \in T
  <2>1. StartsUpto(x, 0) = <<>>
    BY DEF StartsUpto
  <2>2. f[0].ok = TRUE /\ Fits(x, 0) = TRUE /\ f[0] = AfterLayers(x, 0)
    <3>1. AfterLayers(x, 0) = [ok |-> TRUE, offset |-> x.offset, refs |-> <<>>]
      BY <2>1, Zenon DEF AfterLayers
    <3>2. Fits(x, 0) = TRUE
      BY DEF Fits
    <3> QED BY <1>2, <3>1, <3>2
  <2>3. 0 \in 0..m
    BY <1>1
  <2> QED BY <2>2, <2>3
<1>5. ASSUME NEW k \in 1..m, k - 1 \in T PROVE k \in T
  <2>1. k - 1 \in Nat /\ (k - 1) + 1 = k /\ f[k - 1].ok = Fits(x, k - 1)
        /\ (Fits(x, k - 1) => f[k - 1] = AfterLayers(x, k - 1))
    BY <1>1, <1>5
  <2> DEFINE n == k - 1
  <2>2. n \in Nat /\ n + 1 <= m /\ n + 1 = k
    BY <1>1
  <2>3. f[n].ok = Fits(x, n) /\ (Fits(x, n) => f[n] = AfterLayers(x, n))
    BY <2>1
  <2>4. f[k] = NextLayer(f[n], x.sizes[k], k \notin x.misplaced, x.length)
    BY <1>2
  <2> HIDE DEF n
  <2> DEFINE t == NextLayer(f[n], x.sizes[n + 1], n + 1 \notin x.misplaced, x.length)
  <2>5. t.ok = Fits(x, n + 1) /\ (Fits(x, n + 1) => t = AfterLayers(x, n + 1))
    BY <2>2, <2>3, NextLayerIsRight
  <2> QED BY <2>2, <2>4, <2>5
<1>6. m \in T
  <2> HIDE DEF T, m
  <2>1. 0..m \subseteq T
    BY <1>1, <1>4, <1>5, InductionUpto
  <2> QED BY <1>1, <2>1
<1>7. f[m].ok = Fits(x, m) /\ (Fits(x, m) => f[m].refs = StartsUpto(x, m))
  BY <1>6 DEF AfterLayers
<1>8. m > 0 => StartOf(x, m) \in Nat
  BY <1>1, StartsIncrease
<1>9. IndexAgrees(x) <=>
        Indexed(x.sizes, x.misplaced, x.offset, x.length) =
          IF m > 0 /\ (StartOf(x, m) > x.length \/ \E i \in 1..m : i \in x.misplaced) THEN Refused
          ELSE StartsUpto(x, m)
  BY DEF IndexAgrees, StartOf, StartsUpto, AheadOf
<1>10. Fits(x, m) <=> ~(m > 0 /\ (StartOf(x, m) > x.length \/ \E i \in 1..m : i \in x.misplaced))
  BY <1>1, <1>8 DEF Fits
<1> QED BY <1>3, <1>7, <1>9, <1>10

-----------------------------------------------------------------------------
(* A folder is read if it and all it is in are answered for.               *)
Heard(unread, storage, p) == \A k \in 0..Len(p) : <<storage, SubSeq(p, 1, k)>> \notin unread

LEMMA HeardNext ==
  ASSUME NEW unread, NEW storage, NEW s \in Seq(STRING), NEW n \in Nat, n + 1 <= Len(s)
  PROVE  Heard(unread, storage, SubSeq(s, 1, n + 1))
           <=> /\ Heard(unread, storage, SubSeq(s, 1, n))
               /\ <<storage, SubSeq(s, 1, n + 1)>> \notin unread
<1> DEFINE p == SubSeq(s, 1, n)
           q == SubSeq(s, 1, n + 1)
<1>1. p \in Seq(STRING) /\ q \in Seq(STRING) /\ Len(p) = n /\ Len(q) = n + 1
  OBVIOUS
<1>2. SubSeq(q, 1, n + 1) = q
  OBVIOUS
<1>3. \A k \in 0..n : SubSeq(q, 1, k) = SubSeq(p, 1, k)
  OBVIOUS
<1> HIDE DEF p, q
<1>4. n + 1 \in 0..(n + 1) /\ (\A k \in 0..n : k \in 0..(n + 1))
      /\ \A k \in 0..(n + 1) : k = n + 1 \/ k \in 0..n
  OBVIOUS
<1>5. Heard(unread, storage, p) <=> \A k \in 0..n : <<storage, SubSeq(q, 1, k)>> \notin unread
  BY <1>1, <1>3 DEF Heard
<1>6. Heard(unread, storage, q) <=> \A k \in 0..(n + 1) : <<storage, SubSeq(q, 1, k)>> \notin unread
  BY <1>1 DEF Heard
<1>7. Heard(unread, storage, q) <=> Heard(unread, storage, p) /\ <<storage, q>> \notin unread
  BY <1>2, <1>4, <1>5, <1>6, ZenonT(30)
<1> QED BY <1>7 DEF p, q

(* The folders n levels down that a listing reaches.                       *)
Reached(files, unread, storage, n) ==
  {p \in Seq(STRING) :
     /\ Len(p) = n
     /\ Heard(unread, storage, p)
     /\ \A i \in 1..n : p[i] # Skipped
     /\ n > 0 => \E g \in files : g.storage = storage /\ Len(g.folders) >= n
                                  /\ SubSeq(g.folders, 1, n) = p}

Answered(unread, storage, level) == {folders \in level : <<storage, folders>> \notin unread}

Below(files, storage, level) ==
  UNION {{sub \in FoldersIn(files, storage, folders) : sub[Len(sub)] # Skipped} : folders \in level}

LEMMA BelowIsReached ==
  ASSUME NEW files \in SUBSET File, NEW unread, NEW storage, NEW n \in Nat
  PROVE  Answered(unread, storage, Below(files, storage, Reached(files, unread, storage, n))) =
           Reached(files, unread, storage, n + 1)
<1> DEFINE R == Reached(files, unread, storage, n)
           Q == Reached(files, unread, storage, n + 1)
<1>0. \A g \in files : g.folders \in Seq(STRING) /\ Len(g.folders) \in Nat
  BY LenProperties DEF File
<1>1. ASSUME NEW sub \in Answered(unread, storage, Below(files, storage, R)) PROVE sub \in Q
  <2>1. PICK folders \in R : sub \in FoldersIn(files, storage, folders) /\ sub[Len(sub)] # Skipped
    BY <1>1 DEF Below, Answered
  <2>a. <<storage, sub>> \notin unread /\ Heard(unread, storage, folders)
    BY <1>1, <2>1 DEF Answered, Reached
  <2>2. Len(folders) = n /\ \A i \in 1..n : folders[i] # Skipped
    BY <2>1 DEF Reached
  <2>3. PICK g \in files : g.storage = storage /\ Len(g.folders) > n
                           /\ SubSeq(g.folders, 1, n) = folders /\ sub = SubSeq(g.folders, 1, n + 1)
    BY <2>1, <2>2 DEF FoldersIn
  <2> DEFINE s == g.folders
  <2>4. s \in Seq(STRING) /\ Len(s) \in Nat /\ Len(s) >= n + 1
    BY <1>0, <2>3
  <2>5. sub = SubSeq(s, 1, n + 1) /\ SubSeq(s, 1, n) = folders
    BY <2>3
  <2> HIDE DEF s
  <2>6. sub \in Seq(STRING) /\ Len(sub) = n + 1 /\ \A i \in 1..(n + 1) : sub[i] = s[i]
    BY <2>4, <2>5
  <2>7. \A i \in 1..n : folders[i] = s[i]
    BY <2>4, <2>5
  <2>8. \A i \in 1..(n + 1) : sub[i] # Skipped
    <3> TAKE i \in 1..(n + 1)
    <3>1. CASE i = n + 1
      BY <2>1, <2>6, <3>1
    <3>2. CASE i # n + 1
      <4>1. i \in 1..n
        BY <3>2
      <4> QED BY <2>2, <2>6, <2>7, <4>1
    <3> QED BY <3>1, <3>2
  <2>9. \E h \in files : h.storage = storage /\ Len(h.folders) >= n + 1 /\ SubSeq(h.folders, 1, n + 1) = sub
    BY <2>3, <2>4, <2>5 DEF s
  <2>10. Heard(unread, storage, sub)
    BY <2>4, <2>5, <2>a, HeardNext
  <2> QED BY <2>6, <2>8, <2>9, <2>10 DEF Reached
<1>2. ASSUME NEW p \in Q PROVE p \in Answered(unread, storage, Below(files, storage, R))
  <2>1. p \in Seq(STRING) /\ Len(p) = n + 1 /\ \A i \in 1..(n + 1) : p[i] # Skipped
    BY <1>2 DEF Reached
  <2>2. PICK g \in files : g.storage = storage /\ Len(g.folders) >= n + 1
                           /\ SubSeq(g.folders, 1, n + 1) = p
    BY <1>2 DEF Reached
  <2> DEFINE s == g.folders
             folders == SubSeq(s, 1, n)
  <2>3. s \in Seq(STRING) /\ Len(s) \in Nat /\ Len(s) >= n + 1 /\ SubSeq(s, 1, n + 1) = p
    BY <1>0, <2>2
  <2>4. folders \in Seq(STRING) /\ Len(folders) = n /\ \A i \in 1..n : folders[i] = s[i]
    <3> HIDE DEF s
    <3> QED BY <2>3
  <2>5. \A i \in 1..n : folders[i] # Skipped
    <3>1. \A i \in 1..n : p[i] = s[i]
      <4> HIDE DEF s
      <4> QED BY <2>3
    <3> QED BY <2>1, <2>4, <3>1
  <2>6. n > 0 => \E h \in files : h.storage = storage /\ Len(h.folders) >= n /\ SubSeq(h.folders, 1, n) = folders
    BY <2>2, <2>3
  <2>a. Heard(unread, storage, folders) /\ <<storage, p>> \notin unread
    <3>1. Heard(unread, storage, p)
      BY <1>2 DEF Reached
    <3> HIDE DEF s
    <3> QED BY <2>3, <3>1, HeardNext
  <2>7. folders \in R
    BY <2>4, <2>5, <2>6, <2>a DEF Reached
  <2>8. p \in FoldersIn(files, storage, folders)
    <3>1. g \in {h \in files : h.storage = storage /\ Len(h.folders) > Len(folders)
                               /\ SubSeq(h.folders, 1, Len(folders)) = folders}
      BY <2>2, <2>3, <2>4
    <3> QED BY <2>2, <2>4, <3>1 DEF FoldersIn
  <2>9. p[Len(p)] # Skipped
    BY <2>1
  <2> QED BY <2>7, <2>8, <2>9, <2>a DEF Below, Answered
<1> QED BY <1>1, <1>2

LEMMA ReachedFirst ==
  ASSUME NEW files, NEW unread, NEW storage
  PROVE  Answered(unread, storage, {<<>>}) = Reached(files, unread, storage, 0)
<1>1. Len(<<>>) = 0 /\ SubSeq(<<>>, 1, 0) = <<>>
  OBVIOUS
<1>2. Heard(unread, storage, <<>>) <=> <<storage, <<>>>> \notin unread
  <2>1. 0..Len(<<>>) = {0}
    BY <1>1
  <2>2. \A k \in {0} : SubSeq(<<>>, 1, k) = <<>>
    BY <1>1
  <2> QED BY <2>1, <2>2, Zenon DEF Heard
<1>3. ASSUME NEW p \in Reached(files, unread, storage, 0) PROVE p = <<>>
  BY EmptySeq DEF Reached
<1>4. <<>> \in Reached(files, unread, storage, 0) <=> Heard(unread, storage, <<>>)
  BY <1>1 DEF Reached
<1> QED BY <1>2, <1>3, <1>4 DEF Answered

Levels(files, unread, storage, depth) ==
  CHOOSE L : L = [n \in 0..depth |->
                    Answered(unread, storage, IF n = 0 THEN {<<>>} ELSE Below(files, storage, L[n - 1]))]

LEMMA LevelsAreReached ==
  ASSUME NEW files \in SUBSET File, NEW unread, NEW storage, NEW depth \in Nat
  PROVE  \A n \in 0..depth : Levels(files, unread, storage, depth)[n] = Reached(files, unread, storage, n)
<1> DEFINE R == [n \in 0..depth |-> Reached(files, unread, storage, n)]
           L == Levels(files, unread, storage, depth)
<1>1. R = [n \in 0..depth |->
           Answered(unread, storage, IF n = 0 THEN {<<>>} ELSE Below(files, storage, R[n - 1]))]
  <2>1. ASSUME NEW n \in 0..depth
        PROVE  R[n] = Answered(unread, storage, IF n = 0 THEN {<<>>} ELSE Below(files, storage, R[n - 1]))
    <3>1. CASE n = 0
      BY <3>1, ReachedFirst
    <3>2. CASE n # 0
      <4> DEFINE k == n - 1
      <4>1. k \in Nat /\ k \in 0..depth /\ k + 1 = n
        BY <3>2
      <4>2. R[k] = Reached(files, unread, storage, k) /\ R[n] = Reached(files, unread, storage, n)
        BY <4>1
      <4>3. R[n] = Answered(unread, storage, Below(files, storage, R[k]))
        <5> HIDE DEF k, R
        <5> QED BY <4>1, <4>2, BelowIsReached
      <4> HIDE DEF R
      <4> QED BY <3>2, <4>3
    <3> QED BY <3>1, <3>2
  <2> QED BY <2>1
<1>2. L = [n \in 0..depth |->
           Answered(unread, storage, IF n = 0 THEN {<<>>} ELSE Below(files, storage, L[n - 1]))]
  <2> HIDE DEF R
  <2> QED BY <1>1 DEF Levels
<1> DEFINE T == {n \in 0..depth : L[n] = Reached(files, unread, storage, n)}
<1> HIDE DEF L
<1>3. 0 \in T
  BY <1>2, ReachedFirst
<1>4. ASSUME NEW n \in 1..depth, n - 1 \in T PROVE n \in T
  <2> DEFINE k == n - 1
  <2>1. k \in Nat /\ k + 1 = n /\ L[k] = Reached(files, unread, storage, k) /\ n \in 0..depth
    BY <1>4
  <2>2. L[n] = Answered(unread, storage, Below(files, storage, L[k]))
    <3>1. n \in 0..depth /\ n # 0
      OBVIOUS
    <3> QED BY <1>2, <3>1
  <2> HIDE DEF k
  <2>3. L[n] = Reached(files, unread, storage, n)
    BY <2>1, <2>2, BelowIsReached
  <2> QED BY <2>1, <2>3
<1>5. 0..depth \subseteq T
  <2> HIDE DEF T
  <2> QED BY <1>3, <1>4, InductionUpto
<1> QED BY <1>5 DEF L

(* A walk lists the printable files of a storage that are so deep at most  *)
(* and in no folder that is skipped or unread.                             *)
WithinReach(files, unread, storage, depth) ==
  {f \in files : /\ f.printable /\ f.storage = storage /\ Len(f.folders) <= depth
                 /\ Heard(unread, storage, f.folders)
                 /\ \A i \in DOMAIN f.folders : f.folders[i] # Skipped}

LEMMA WalkIsRight ==
  ASSUME NEW files \in SUBSET File, NEW unread, NEW storage, NEW depth \in Nat
  PROVE  Walk(files, unread, storage, depth) = WithinReach(files, unread, storage, depth)
<1>1. Walk(files, unread, storage, depth) =
        {f \in files : /\ f.printable
                       /\ \E n \in 0..depth : \E folders \in Levels(files, unread, storage, depth)[n] :
                            f \in FilesIn(files, storage, folders)}
  BY DEF Walk, Levels, Below, Answered
<1>2. ASSUME NEW f \in files
      PROVE  (\E n \in 0..depth : \E folders \in Levels(files, unread, storage, depth)[n] :
                            f \in FilesIn(files, storage, folders))
             <=> (f.storage = storage /\ Len(f.folders) <= depth
                  /\ Heard(unread, storage, f.folders)
                  /\ \A i \in DOMAIN f.folders : f.folders[i] # Skipped)
  <2> DEFINE s == f.folders
  <2>0. s \in Seq(STRING) /\ Len(s) \in Nat /\ DOMAIN s = 1..Len(s)
    BY LenProperties DEF File
  <2>1. ASSUME NEW n \in 0..depth, NEW folders \in Levels(files, unread, storage, depth)[n],
               f \in FilesIn(files, storage, folders)
        PROVE  f.storage = storage /\ Len(s) <= depth /\ Heard(unread, storage, s) /\ \A i \in DOMAIN s : s[i] # Skipped
    <3>1. s = folders /\ f.storage = storage
      BY <2>1 DEF FilesIn
    <3>2. folders \in Reached(files, unread, storage, n)
      BY <2>1, LevelsAreReached
    <3>3. Len(s) = n /\ Heard(unread, storage, s) /\ \A i \in 1..n : s[i] # Skipped
      BY <3>1, <3>2 DEF Reached
    <3> HIDE DEF s
    <3> QED BY <2>0, <3>1, <3>3
  <2>2. ASSUME f.storage = storage, Len(s) <= depth, Heard(unread, storage, s), \A i \in DOMAIN s : s[i] # Skipped
        PROVE  \E n \in 0..depth : \E folders \in Levels(files, unread, storage, depth)[n] :
                 f \in FilesIn(files, storage, folders)
    <3> DEFINE n == Len(s)
    <3>1. n \in 0..depth
      BY <2>0, <2>2
    <3>2. SubSeq(s, 1, n) = s
      <4> HIDE DEF s
      <4> QED BY <2>0
    <3>3. n > 0 => \E g \in files : g.storage = storage /\ Len(g.folders) >= n /\ SubSeq(g.folders, 1, n) = s
      BY <2>0, <2>2, <3>2
    <3>4. s \in Reached(files, unread, storage, n)
      BY <2>0, <2>2, <3>3 DEF Reached
    <3>5. s \in Levels(files, unread, storage, depth)[n]
      BY <3>1, <3>4, LevelsAreReached
    <3>6. f \in FilesIn(files, storage, s)
      BY <2>2 DEF FilesIn
    <3> HIDE DEF n
    <3> QED BY <3>1, <3>5, <3>6
  <2> HIDE DEF s
  <2> QED BY <2>1, <2>2 DEF s
<1> QED BY <1>1, <1>2 DEF WithinReach

LEMMA ListingIsRight ==
  ASSUME NEW x \in ListingInput PROVE ListingAgrees(x)
<1> DEFINE files == x.files
           unread == x.unread
           Plain(f) == /\ \A i \in DOMAIN f.folders : f.folders[i] # Skipped
                       /\ Heard(unread, f.storage, f.folders)
<1>1. files \in SUBSET File
  BY DEF ListingInput
<1> HIDE DEF files, unread, Plain
<1>2. Walk(files, unread, "local", 0) = {f \in files : f.printable /\ f.storage = "local" /\ Len(f.folders) <= 0 /\ Plain(f)}
  <2>1. Walk(files, unread, "local", 0) = WithinReach(files, unread, "local", 0)
    BY <1>1, WalkIsRight
  <2> QED BY <2>1 DEF WithinReach, Plain
<1>3. Walk(files, unread, "usb", 3) = {f \in files : f.printable /\ f.storage = "usb" /\ Len(f.folders) <= 3 /\ Plain(f)}
  BY <1>1, WalkIsRight DEF WithinReach, Plain
<1>4. \A f \in files : f.storage \in {"local", "usb"} /\ (f.folders = <<>> <=> Len(f.folders) <= 0)
  <2> TAKE f \in files
  <2>1. f.storage \in {"local", "usb"} /\ f.folders \in Seq(STRING)
    BY <1>1 DEF File
  <2>2. Len(f.folders) \in Nat /\ (f.folders = <<>> <=> Len(f.folders) = 0)
    BY <2>1, EmptySeq, LenProperties
  <2> QED BY <2>1, <2>2
<1>5. ListPrintableFiles(files, unread) =
        Walk(files, unread, "local", 0) \union Walk(files, unread, "usb", 3)
  BY DEF ListPrintableFiles, UsbDepth
<1>6. ListPrintableFiles(files, unread) =
        {f \in files : /\ f.printable
                       /\ f.storage = "local" => f.folders = <<>>
                       /\ f.storage = "usb" => Len(f.folders) <= 3
                       /\ Plain(f)}
  BY <1>1, <1>2, <1>3, <1>4, <1>5
<1> QED BY <1>6 DEF ListingAgrees, UsbDepth, files, unread, Plain, Heard

-----------------------------------------------------------------------------
(* The parts of a path that are not empty. *)
Part == STRING \union {Blank, "media", "local", "usb", "mmcblk0p3", "sda1"}
Name == Part \ {Blank}

WithPart(s, part) == IF part = Blank THEN s ELSE Append(s, part)

AmongParts(path) ==
  CHOOSE f : f = [n \in 0..Len(path) |->
                    IF n = 0 THEN <<>> ELSE IF path[n] = Blank THEN f[n - 1] ELSE Append(f[n - 1], path[n])]

LEMMA AmongFacts ==
  ASSUME NEW path \in Seq(Part)
  PROVE  LET f == AmongParts(path) IN
         /\ f[0] = <<>>
         /\ \A n \in 1..Len(path) : f[n] = IF path[n] = Blank THEN f[n - 1] ELSE Append(f[n - 1], path[n])
         /\ \A n \in 0..Len(path) : f[n] \in Seq(Name)
<1> DEFINE m == Len(path)
           S == Seq(Name)
           F == [n \in 1..m |-> [s \in S |-> WithPart(s, path[n])]]
           f == AmongParts(path)
<1>1. m \in Nat /\ \A n \in 1..m : path[n] \in Part
  BY LenProperties, ElementOfSeq
<1>2. <<>> \in S
  OBVIOUS
<1> HIDE DEF m
<1>3. \A n \in 1..m : \A s \in S : WithPart(s, path[n]) \in S
  <2> TAKE n \in 1..m
  <2> TAKE s \in S
  <2>1. CASE path[n] # Blank
    <3>1. path[n] \in Name
      BY <1>1, <2>1 DEF Name, Part
    <3>2. Append(s, path[n]) \in S
      BY <3>1, AppendProperties
    <3> QED BY <2>1, <3>2 DEF WithPart
  <2> QED BY <2>1 DEF WithPart
<1>4. F \in [1..m -> [S -> S]]
  <2> HIDE DEF S
  <2> QED BY <1>3
<1> HIDE DEF S
<1>5. PICK h \in [0..m -> S] : IsLoop(h, m, <<>>, F)
  <2> HIDE DEF F
  <2> QED BY <1>1, <1>2, <1>4, LoopExists
<1>6. h[0] = <<>> /\ \A n \in 1..m : h[n] = WithPart(h[n - 1], path[n])
  <2>1. \A n \in 1..m : h[n - 1] \in S
    BY <1>1
  <2> QED BY <1>5, <2>1 DEF IsLoop
<1>7. h = [n \in 0..m |-> IF n = 0 THEN <<>> ELSE WithPart(h[n - 1], path[n])]
  <2> HIDE DEF F
  <2> QED BY <1>1, <1>6
<1>8. f = [n \in 0..m |-> IF n = 0 THEN <<>> ELSE WithPart(f[n - 1], path[n])]
  BY <1>7 DEF AmongParts, WithPart, m
<1> HIDE DEF f, F
<1>9. f[0] = <<>> /\ \A n \in 1..m : f[n] = WithPart(f[n - 1], path[n])
  BY <1>1, <1>8
<1>10. \A n \in 0..m : f[n] \in S
  <2>1. \A n \in 1..m : f[n - 1] \in S => f[n] \in S
    BY <1>3, <1>9
  <2>2. f[0] \in S
    BY <1>2, <1>9
  <2> QED BY <1>1, <2>1, <2>2, LoopType
<1> QED BY <1>9, <1>10 DEF f, m, S, WithPart

LEMMA PartsAre ==
  ASSUME NEW path PROVE Parts(path) = AmongParts(path)[Len(path)]
BY DEF Parts, AmongParts

LEMMA PartsType ==
  ASSUME NEW path \in Seq(Part), path # <<>>, path[Len(path)] # Blank
  PROVE  Parts(path) \in Seq(Name) /\ Parts(path) # <<>>
<1> DEFINE f == AmongParts(path)
           m == Len(path)
<1>1. m \in Nat /\ m # 0 /\ path[m] \in Part
  BY LenProperties, EmptySeq, ElementOfSeq
<1>2. m \in 1..m /\ m - 1 \in 0..m /\ m \in 0..m
  BY <1>1
<1>3. f[m] = Append(f[m - 1], path[m]) /\ f[m - 1] \in Seq(Name) /\ f[m] \in Seq(Name)
  BY <1>2, AmongFacts
<1>4. Len(f[m]) # 0
  <2> HIDE DEF f, m
  <2>1. path[m] \in Name
    BY <1>1 DEF m, Name, Part
  <2>2. Len(f[m]) = Len(f[m - 1]) + 1 /\ Len(f[m - 1]) \in Nat
    BY <1>3, <2>1, AppendProperties, LenProperties
  <2> QED BY <2>2
<1>5. Parts(path) = f[m]
  BY PartsAre
<1> HIDE DEF f, m
<1> QED BY <1>3, <1>4, <1>5, EmptySeq

LEMMA PartsAfter ==
  ASSUME NEW path \in Seq(Part), NEW k \in 0..Len(path),
         \A i \in 1..k : path[i] = Blank, \A i \in (k + 1)..Len(path) : path[i] # Blank
  PROVE  Parts(path) = SubSeq(path, k + 1, Len(path))
<1> DEFINE f == AmongParts(path)
           m == Len(path)
           T == {n \in 0..m : f[n] = SubSeq(path, k + 1, n)}
<1>1. m \in Nat /\ k \in 0..m /\ \A n \in 1..m : path[n] \in Part
  BY LenProperties, ElementOfSeq
<1>2. f[0] = <<>> /\ \A n \in 1..m : f[n] = IF path[n] = Blank THEN f[n - 1] ELSE Append(f[n - 1], path[n])
  BY AmongFacts
<1>a. (\A i \in 1..k : path[i] = Blank) /\ \A i \in (k + 1)..m : path[i] # Blank
  OBVIOUS
<1>b. Parts(path) = f[m]
  BY PartsAre
<1> HIDE DEF f, m
<1>3. 0 \in T
  <2>1. SubSeq(path, k + 1, 0) = <<>> /\ 0 \in 0..m
    BY <1>1, SubSeqEmpty
  <2> QED BY <1>2, <2>1
<1>4. ASSUME NEW n \in 1..m, n - 1 \in T PROVE n \in T
  <2>0. f[n - 1] = SubSeq(path, k + 1, n - 1) /\ n \in 0..m
    BY <1>4
  <2>1. CASE n <= k
    <3>1. path[n] = Blank /\ SubSeq(path, k + 1, n) = <<>> /\ SubSeq(path, k + 1, n - 1) = <<>>
      BY <1>1, <1>a, <2>1, SubSeqEmpty
    <3> QED BY <1>2, <2>0, <3>1
  <2>2. CASE n > k
    <3>1. path[n] # Blank /\ path[n] \in Part
      BY <1>1, <1>a, <2>2
    <3> DEFINE s == SubSeq(path, k + 1, n - 1)
               t == SubSeq(path, k + 1, n)
    <3>2. s \in Seq(Part) /\ Len(s) = n - 1 - k /\ \A i \in 1..(n - 1 - k) : s[i] = path[k + i]
      <4>1. \A i \in (k + 1)..(n - 1) : path[i] \in Part
        BY <1>1, <2>2
      <4>2. k + 1 \in Int /\ n - 1 \in Int
        BY <1>1
      <4>3. s \in Seq(Part) /\ Len(s) = (IF k + 1 <= n - 1 THEN n - 1 - (k + 1) + 1 ELSE 0)
            /\ \A i \in 1..(n - 1 - (k + 1) + 1) : s[i] = path[k + 1 + i - 1]
        BY <4>1, <4>2, SubSeqProperties
      <4> HIDE DEF s
      <4> QED BY <1>1, <2>2, <4>3
    <3>3. t \in Seq(Part) /\ Len(t) = n - k /\ \A i \in 1..(n - k) : t[i] = path[k + i]
      <4>1. \A i \in (k + 1)..n : path[i] \in Part
        BY <1>1, <2>2
      <4>2. k + 1 \in Int /\ n \in Int
        BY <1>1
      <4>3. t \in Seq(Part) /\ Len(t) = (IF k + 1 <= n THEN n - (k + 1) + 1 ELSE 0)
            /\ \A i \in 1..(n - (k + 1) + 1) : t[i] = path[k + 1 + i - 1]
        BY <4>1, <4>2, SubSeqProperties
      <4> HIDE DEF t
      <4> QED BY <1>1, <2>2, <4>3
    <3>4. f[n] = Append(s, path[n])
      BY <1>2, <2>0, <3>1
    <3> HIDE DEF s, t
    <3>5. Append(s, path[n]) \in Seq(Part) /\ Len(Append(s, path[n])) = n - k
          /\ Append(s, path[n])[n - k] = path[n] /\ \A i \in 1..(n - 1 - k) : Append(s, path[n])[i] = s[i]
      <4>1. Len(s) + 1 = n - k
        BY <1>1, <3>2
      <4> QED BY <3>1, <3>2, <4>1, AppendProperties
    <3>6. \A i \in 1..(n - k) : Append(s, path[n])[i] = t[i]
      <4> TAKE i \in 1..(n - k)
      <4>1. CASE i = n - k
        <5>1. k + i = n
          BY <1>1, <4>1
        <5> QED BY <3>3, <3>5, <4>1, <5>1
      <4>2. CASE i # n - k
        <5>1. i \in 1..(n - 1 - k)
          BY <1>1, <4>2
        <5> QED BY <3>2, <3>3, <3>5, <5>1
      <4> QED BY <4>1, <4>2
    <3>7. Append(s, path[n]) = t
      BY <3>3, <3>5, <3>6, SeqEqual
    <3> QED BY <2>0, <3>4, <3>7 DEF t
  <2> QED BY <1>1, <2>1, <2>2
<1>5. 0..m \subseteq T
  <2> HIDE DEF T
  <2> QED BY <1>1, <1>3, <1>4, InductionUpto
<1> QED BY <1>1, <1>5, <1>b DEF m

(* A path without a part that is empty, but the one before the first slash *)
(* of an absolute path.                                                    *)
Proper ==
  {p \in Seq(Part) : Len(p) >= 1 /\ (p[1] = Blank => Len(p) >= 2) /\ \A i \in 2..Len(p) : p[i] # Blank}

LEMMA CleanIsProper ==
  ASSUME NEW path \in Seq(Part), path # <<>>, path[Len(path)] # Blank
  PROVE  Clean(path) \in Proper
<1> DEFINE q == Parts(path)
<1>1. q \in Seq(Name) /\ q # <<>>
  BY PartsType
<1> HIDE DEF q
<1>2. q \in Seq(Part) /\ Len(q) \in Nat /\ Len(q) # 0 /\ \A i \in 1..Len(q) : q[i] # Blank
  <2>1. Len(q) \in Nat /\ Len(q) # 0
    BY <1>1, LenProperties, EmptySeq
  <2>2. \A i \in 1..Len(q) : q[i] \in Name
    BY <1>1, ElementOfSeq
  <2>3. q \in Seq(Part)
    BY <1>1, <2>2, IsASeq, LenProperties DEF Name, Part
  <2> QED BY <2>1, <2>2, <2>3 DEF Name
<1>3. CASE path[1] = Blank
  <2>1. <<Blank>> \in Seq(Part) /\ Len(<<Blank>>) = 1 /\ <<Blank>>[1] = Blank
    BY DEF Part
  <2> DEFINE c == <<Blank>> \o q
  <2>2. c \in Seq(Part) /\ Len(c) = 1 + Len(q)
        /\ \A i \in 1..(1 + Len(q)) : c[i] = IF i <= 1 THEN <<Blank>>[i] ELSE q[i - 1]
    BY <1>2, <2>1, ConcatProperties
  <2> HIDE DEF c
  <2>3. \A i \in 2..(1 + Len(q)) : c[i] # Blank
    <3> TAKE i \in 2..(1 + Len(q))
    <3>1. i - 1 \in 1..Len(q) /\ i \in 1..(1 + Len(q)) /\ ~(i <= 1)
      BY <1>2
    <3> QED BY <1>2, <2>2, <3>1
  <2>4. c \in Proper
    BY <1>2, <2>2, <2>3 DEF Proper
  <2> QED BY <1>3, <2>4 DEF Clean, c, q
<1>4. CASE path[1] # Blank
  <2>1. q \in Proper
    BY <1>2 DEF Proper
  <2> QED BY <1>4, <2>1 DEF Clean, q
<1> QED BY <1>3, <1>4

LEMMA CleanOfProper ==
  ASSUME NEW p \in Proper PROVE Clean(p) = p
<1>1. p \in Seq(Part) /\ Len(p) \in Nat /\ Len(p) >= 1 /\ (p[1] = Blank => Len(p) >= 2)
      /\ \A i \in 2..Len(p) : p[i] # Blank
  BY LenProperties DEF Proper
<1>2. CASE p[1] = Blank
  <2>1. Parts(p) = SubSeq(p, 2, Len(p))
    <3> DEFINE k == 1
    <3>1. k \in 0..Len(p) /\ k + 1 = 2 /\ (\A i \in 1..k : p[i] = Blank) /\ \A i \in (k + 1)..Len(p) : p[i] # Blank
      BY <1>1, <1>2
    <3> HIDE DEF k
    <3> QED BY <1>1, <3>1, PartsAfter
  <2>2. SubSeq(p, 2, Len(p)) \in Seq(Part) /\ Len(SubSeq(p, 2, Len(p))) = Len(p) - 1
        /\ \A i \in 1..(Len(p) - 1) : SubSeq(p, 2, Len(p))[i] = p[i + 1]
    BY <1>1, <1>2
  <2> DEFINE q == SubSeq(p, 2, Len(p))
             c == <<Blank>> \o q
  <2> HIDE DEF q
  <2>3. <<Blank>> \in Seq(Part) /\ Len(<<Blank>>) = 1 /\ <<Blank>>[1] = Blank
    BY DEF Part
  <2>4. c \in Seq(Part) /\ Len(c) = Len(p) /\ \A i \in 1..Len(p) : c[i] = IF i <= 1 THEN Blank ELSE q[i - 1]
    <3>1. c \in Seq(Part) /\ Len(c) = 1 + Len(q)
          /\ \A i \in 1..(1 + Len(q)) : c[i] = IF i <= 1 THEN <<Blank>>[i] ELSE q[i - 1]
      BY <2>2, <2>3, ConcatProperties DEF q
    <3>2. 1 + Len(q) = Len(p)
      BY <1>1, <2>2 DEF q
    <3> QED BY <2>3, <3>1, <3>2
  <2> HIDE DEF c
  <2>5. \A i \in 1..Len(p) : c[i] = p[i]
    BY <1>1, <1>2, <2>2, <2>4 DEF q
  <2>6. c = p
    BY <1>1, <2>4, <2>5, SeqEqual
  <2> QED BY <1>2, <2>1, <2>6 DEF Clean, c, q
<1>3. CASE p[1] # Blank
  <2>1. Parts(p) = SubSeq(p, 1, Len(p))
    <3> DEFINE k == 0
    <3>1. k \in 0..Len(p) /\ k + 1 = 1 /\ (\A i \in 1..k : p[i] = Blank) /\ \A i \in (k + 1)..Len(p) : p[i] # Blank
      BY <1>1, <1>3
    <3> HIDE DEF k
    <3> QED BY <1>1, <3>1, PartsAfter
  <2>2. SubSeq(p, 1, Len(p)) = p
    BY <1>1
  <2> QED BY <1>3, <2>1, <2>2 DEF Clean
<1> QED BY <1>2, <1>3

(* What it is to be under a folder. *)
LEMMA UnderPrefix ==
  ASSUME NEW root \in Seq(Part), NEW p \in Seq(Part)
  PROVE  Under(root, p) <=> Len(p) > Len(root) /\ \A i \in 1..Len(root) : p[i] = root[i]
<1> DEFINE n == Len(root)
<1>1. n \in Nat /\ Len(p) \in Nat
  BY LenProperties
<1>2. SubSeq(root, 1, n) = root
  BY SubSeqFull
<1>3. Under(root, p) <=> n <= Len(p) /\ root = SubSeq(p, 1, n) /\ Len(p) > n
  BY <1>2 DEF Under, IsPrefix
<1>4. ASSUME Len(p) > n
      PROVE  root = SubSeq(p, 1, n) <=> \A i \in 1..n : p[i] = root[i]
  <2> DEFINE q == SubSeq(p, 1, n)
  <2>1. q \in Seq(Part) /\ Len(q) = n /\ \A i \in 1..n : q[i] = p[i]
    <3> HIDE DEF n
    <3> QED BY <1>1, <1>4
  <2> HIDE DEF q
  <2>2. (\A i \in 1..n : p[i] = root[i]) => root = q
    <3> SUFFICES ASSUME \A i \in 1..n : p[i] = root[i] PROVE root = q
      OBVIOUS
    <3>1. Len(root) = Len(q) /\ \A i \in 1..Len(root) : root[i] = q[i]
      BY <2>1
    <3> QED BY <2>1, <3>1, SeqEqual
  <2>3. root = q => \A i \in 1..n : p[i] = root[i]
    BY <2>1
  <2> QED BY <2>2, <2>3 DEF q
<1> HIDE DEF n
<1> QED BY <1>1, <1>3, <1>4 DEF n

LEMMA RootsAre ==
  /\ <<Blank, "media">> \in Seq(Part) /\ <<Blank, "local">> \in Seq(Part) /\ <<Blank, "usb">> \in Seq(Part)
  /\ LocalRoot \in Seq(Part) /\ UsbRoot \in Seq(Part)
  /\ Len(LocalRoot) = 3 /\ LocalRoot[1] = Blank /\ LocalRoot[2] = "media" /\ LocalRoot[3] = "mmcblk0p3"
  /\ Len(UsbRoot) = 3 /\ UsbRoot[1] = Blank /\ UsbRoot[2] = "media" /\ UsbRoot[3] = "sda1"
<1>1. {Blank, "media", "local", "usb", "mmcblk0p3", "sda1"} \subseteq Part
  BY DEF Part
<1> QED BY <1>1 DEF LocalRoot, UsbRoot

LEMMA UnderFacts ==
  ASSUME NEW p \in Seq(Part)
  PROVE  /\ Under(<<Blank, "media">>, p) <=> Len(p) > 2 /\ p[1] = Blank /\ p[2] = "media"
         /\ Under(<<Blank, "local">>, p) <=> Len(p) > 2 /\ p[1] = Blank /\ p[2] = "local"
         /\ Under(<<Blank, "usb">>, p) <=> Len(p) > 2 /\ p[1] = Blank /\ p[2] = "usb"
         /\ Under(LocalRoot, p) <=> Len(p) > 3 /\ p[1] = Blank /\ p[2] = "media" /\ p[3] = "mmcblk0p3"
         /\ Under(UsbRoot, p) <=> Len(p) > 3 /\ p[1] = Blank /\ p[2] = "media" /\ p[3] = "sda1"
<1>1. ASSUME NEW a \in Part, NEW b \in Part, <<a, b>> \in Seq(Part)
      PROVE  Under(<<a, b>>, p) <=> Len(p) > 2 /\ p[1] = a /\ p[2] = b
  <2> DEFINE r == <<a, b>>
  <2>1. r \in Seq(Part) /\ Len(r) = 2 /\ r[1] = a /\ r[2] = b
    OBVIOUS
  <2> HIDE DEF r
  <2>2. (\A i \in 1..2 : p[i] = r[i]) <=> p[1] = r[1] /\ p[2] = r[2]
    OBVIOUS
  <2>3. Under(r, p) <=> Len(p) > 2 /\ p[1] = a /\ p[2] = b
    BY <2>1, <2>2, UnderPrefix
  <2> QED BY <2>3 DEF r
<1>2. ASSUME NEW r \in Seq(Part), Len(r) = 3
      PROVE  Under(r, p) <=> Len(p) > 3 /\ p[1] = r[1] /\ p[2] = r[2] /\ p[3] = r[3]
  <2>1. (\A i \in 1..3 : p[i] = r[i]) <=> p[1] = r[1] /\ p[2] = r[2] /\ p[3] = r[3]
    OBVIOUS
  <2> QED BY <1>2, <2>1, UnderPrefix
<1>3. Blank \in Part /\ "media" \in Part /\ "local" \in Part /\ "usb" \in Part
  BY DEF Part
<1> QED BY <1>1, <1>2, <1>3, RootsAre

(* A root, and what is below it. *)
LEMMA JoinFacts ==
  ASSUME NEW root \in Seq(Part), NEW rest \in Seq(Part)
  PROVE  /\ root \o rest \in Seq(Part) /\ Len(root \o rest) = Len(root) + Len(rest)
         /\ \A i \in 1..Len(root) : (root \o rest)[i] = root[i]
         /\ \A i \in 1..Len(rest) : (root \o rest)[Len(root) + i] = rest[i]
         /\ SubSeq(root \o rest, Len(root) + 1, Len(root) + Len(rest)) = rest
<1> DEFINE n == Len(root)
           m == Len(rest)
           p == root \o rest
<1>1. n \in Nat /\ m \in Nat
  BY LenProperties
<1>2. p \in Seq(Part) /\ Len(p) = n + m
      /\ \A i \in 1..(n + m) : p[i] = IF i <= n THEN root[i] ELSE rest[i - n]
  BY ConcatProperties
<1>3. \A i \in 1..n : p[i] = root[i]
  <2> HIDE DEF n, m, p
  <2> QED BY <1>1, <1>2
<1>4. \A i \in 1..m : p[n + i] = rest[i]
  <2> HIDE DEF n, m, p
  <2> TAKE i \in 1..m
  <2>1. n + i \in 1..(n + m) /\ ~(n + i <= n) /\ (n + i) - n = i
    BY <1>1
  <2> QED BY <1>2, <2>1
<1>5. SubSeq(p, n + 1, n + m) = rest
  <2> DEFINE q == SubSeq(p, n + 1, n + m)
  <2>1. q \in Seq(Part) /\ Len(q) = m /\ \A i \in 1..m : q[i] = p[n + i]
    <3> HIDE DEF n, m, p
    <3> QED BY <1>1, <1>2
  <2> HIDE DEF q
  <2>2. \A i \in 1..m : q[i] = rest[i]
    <3> HIDE DEF n, m, p
    <3> QED BY <1>4, <2>1
  <2>3. q = rest
    <3>1. Len(q) = Len(rest) /\ \A i \in 1..Len(q) : q[i] = rest[i]
      BY <2>1, <2>2
    <3> HIDE DEF n, m, p
    <3> QED BY <2>1, <3>1, SeqEqual
  <2> QED BY <2>3 DEF q
<1> HIDE DEF p
<1> QED BY <1>2, <1>3, <1>4, <1>5 DEF p

(* The parts of a path from the k-th. *)
LEMMA RestFacts ==
  ASSUME NEW p \in Seq(Part), NEW k \in 1..Len(p)
  PROVE  /\ SubSeq(p, k, Len(p)) \in Seq(Part) /\ Len(SubSeq(p, k, Len(p))) = Len(p) - k + 1
         /\ \A i \in 1..(Len(p) - k + 1) : SubSeq(p, k, Len(p))[i] = p[k + i - 1]
<1> DEFINE n == Len(p)
<1>1. n \in Nat /\ \A i \in 1..n : p[i] \in Part
  BY LenProperties, ElementOfSeq
<1> HIDE DEF n
<1> SUFFICES /\ SubSeq(p, k, n) \in Seq(Part) /\ Len(SubSeq(p, k, n)) = n - k + 1
             /\ \A i \in 1..(n - k + 1) : SubSeq(p, k, n)[i] = p[k + i - 1]
  BY DEF n
<1>2. k \in 1..n
  BY DEF n
<1>3. \A i \in k..n : p[i] \in Part
  BY <1>1, <1>2
<1>4. k \in Int /\ n \in Int /\ k <= n
  BY <1>1, <1>2
<1> QED BY <1>3, <1>4, SubSeqProperties


LEMMA BelowIsProper ==
  ASSUME NEW root \in {LocalRoot, UsbRoot}, NEW rest \in Seq(Part),
         Len(rest) >= 1, \A i \in 1..Len(rest) : rest[i] # Blank
  PROVE  root \o rest \in Seq(Part) /\ Clean(root \o rest) = root \o rest
<1> DEFINE p == root \o rest
           m == Len(rest)
<1>1. m \in Nat /\ m >= 1
  BY LenProperties
<1>2. root \in Seq(Part) /\ Len(root) = 3 /\ root[1] = Blank /\ root[2] # Blank /\ root[3] # Blank
  <2>1. Blank # "media" /\ Blank # "mmcblk0p3" /\ Blank # "sda1"
    BY Zenon DEF Blank
  <2> QED BY <2>1, RootsAre
<1>3. p \in Seq(Part) /\ Len(p) = 3 + m /\ (\A i \in 1..3 : p[i] = root[i])
      /\ \A i \in 1..m : p[3 + i] = rest[i]
  <2> DEFINE n == Len(root)
  <2>1. p \in Seq(Part) /\ Len(p) = n + m /\ (\A i \in 1..n : p[i] = root[i])
        /\ \A i \in 1..m : p[n + i] = rest[i]
    BY <1>2, JoinFacts
  <2>2. n = 3
    BY <1>2
  <2> HIDE DEF n, p, m
  <2> QED BY <2>1, <2>2
<1>4. \A i \in 1..m : rest[i] # Blank
  OBVIOUS
<1> HIDE DEF p, m
<1>5. \A i \in 2..(3 + m) : p[i] # Blank
  <2> TAKE i \in 2..(3 + m)
  <2>1. CASE i <= 3
    BY <1>2, <1>3, <2>1
  <2>2. CASE i > 3
    <3>1. i - 3 \in 1..m /\ 3 + (i - 3) = i
      BY <1>1, <2>2
    <3>2. p[i] = rest[i - 3]
      BY <1>3, <3>1
    <3> QED BY <1>4, <3>1, <3>2
  <2> QED BY <2>1, <2>2
<1>6. p \in Proper
  BY <1>1, <1>3, <1>5 DEF Proper
<1>7. Clean(p) = p
  BY <1>6, CleanOfProper
<1> QED BY <1>3, <1>7 DEF p

(* What has been put under a root comes back under its storage's name. *)
LEMMA BackFromRoot ==
  ASSUME NEW rest \in Seq(Part), Len(rest) >= 1, \A i \in 1..Len(rest) : rest[i] # Blank
  PROVE  /\ SdcpPath(LocalRoot \o rest) = <<Blank, "local">> \o rest
         /\ SdcpPath(UsbRoot \o rest) = <<Blank, "usb">> \o rest
<1> DEFINE m == Len(rest)
<1>1. m \in Nat /\ m >= 1
  BY LenProperties
<1>2. ASSUME NEW root \in {LocalRoot, UsbRoot}
      PROVE  /\ Clean(root \o rest) = root \o rest /\ Len(root \o rest) = 3 + m
             /\ SubSeq(root \o rest, 4, Len(root \o rest)) = rest
             /\ Under(LocalRoot, root \o rest) <=> root[3] = "mmcblk0p3"
             /\ Under(UsbRoot, root \o rest) <=> root[3] = "sda1"
  <2> DEFINE p == root \o rest
  <2>1. root \in Seq(Part) /\ Len(root) = 3 /\ root[1] = Blank /\ root[2] = "media"
    BY RootsAre
  <2>2. p \in Seq(Part) /\ Clean(p) = p
    BY BelowIsProper
  <2>3. Len(p) = 3 + m /\ (\A i \in 1..3 : p[i] = root[i]) /\ SubSeq(p, 3 + 1, 3 + m) = rest
    <3> DEFINE n == Len(root)
    <3>1. Len(p) = n + m /\ (\A i \in 1..n : p[i] = root[i]) /\ SubSeq(p, n + 1, n + m) = rest
      BY <2>1, JoinFacts
    <3>2. n = 3
      BY <2>1
    <3> HIDE DEF n, p, m
    <3> QED BY <3>1, <3>2
  <2> HIDE DEF p, m
  <2>4. p[1] = Blank /\ p[2] = "media" /\ p[3] = root[3] /\ Len(p) > 3
    BY <1>1, <2>1, <2>3
  <2>5. /\ Under(LocalRoot, p) <=> root[3] = "mmcblk0p3"
        /\ Under(UsbRoot, p) <=> root[3] = "sda1"
    BY <2>2, <2>4, UnderFacts
  <2>6. SubSeq(p, 4, Len(p)) = rest
    BY <2>3
  <2> QED BY <2>2, <2>3, <2>5, <2>6 DEF p
<1>3. LocalRoot[3] = "mmcblk0p3" /\ UsbRoot[3] = "sda1" /\ "mmcblk0p3" # "sda1"
  BY RootsAre
<1> HIDE DEF m
<1>4. SdcpPath(LocalRoot \o rest) = <<Blank, "local">> \o rest
  <2>1. Under(LocalRoot, LocalRoot \o rest)
    BY <1>2, <1>3
  <2> QED BY <1>2, <2>1 DEF SdcpPath
<1>5. SdcpPath(UsbRoot \o rest) = <<Blank, "usb">> \o rest
  <2>1. Under(UsbRoot, UsbRoot \o rest) /\ ~Under(LocalRoot, UsbRoot \o rest)
    BY <1>2, <1>3
  <2> QED BY <1>2, <2>1 DEF SdcpPath
<1> QED BY <1>4, <1>5

(* What is stored comes back as it was, and what is read is in a storage. *)
Agrees(clean, media) ==
  /\ clean[1] = Blank /\ Len(clean) > 2 /\ clean[2] \in {"local", "usb"} => SdcpPath(media) = clean
  /\ IsPrintFile(media) => SdcpPath(media)[2] \in {"local", "usb"} /\ ~Contains(clean, "..")

LEMMA StoredAgrees ==
  ASSUME NEW clean \in Seq(Part), NEW storage \in {"local", "usb"},
         Under(<<Blank, storage>>, clean), \A i \in 2..Len(clean) : clean[i] # Blank
  PROVE  LET root == IF storage = "local" THEN LocalRoot ELSE UsbRoot
         IN  Agrees(clean, root \o SubSeq(clean, 3, Len(clean)))
<1> DEFINE root == IF storage = "local" THEN LocalRoot ELSE UsbRoot
           n == Len(clean)
           rest == SubSeq(clean, 3, n)
           media == root \o rest
<1>0. n \in Nat
  BY LenProperties
<1>1. n > 2 /\ clean[1] = Blank /\ clean[2] = storage
  BY UnderFacts
<1>a. \A i \in 2..n : clean[i] # Blank
  OBVIOUS
<1>2. rest \in Seq(Part) /\ Len(rest) = n - 2 /\ \A i \in 1..(n - 2) : rest[i] = clean[2 + i]
  <2> DEFINE k == 3
  <2>1. k \in 1..Len(clean)
    BY <1>0, <1>1
  <2> HIDE DEF k
  <2>2. SubSeq(clean, k, Len(clean)) \in Seq(Part) /\ Len(SubSeq(clean, k, Len(clean))) = Len(clean) - k + 1
        /\ \A i \in 1..(Len(clean) - k + 1) : SubSeq(clean, k, Len(clean))[i] = clean[k + i - 1]
    BY <2>1, RestFacts
  <2>3. k = 3
    BY DEF k
  <2> HIDE DEF n
  <2>4. \A i \in 1..(n - 2) : 3 + i - 1 = 2 + i
    OBVIOUS
  <2>5. Len(clean) - k + 1 = n - 2
    BY <1>0, <2>3 DEF n
  <2> QED BY <2>2, <2>3, <2>4, <2>5 DEF n
<1> HIDE DEF rest, n
<1>3. Len(rest) >= 1 /\ \A i \in 1..Len(rest) : rest[i] # Blank
  <2>1. \A i \in 1..(n - 2) : 2 + i \in 2..n
    BY <1>0, <1>1
  <2> QED BY <1>0, <1>1, <1>2, <1>a, <2>1
<1>4. SdcpPath(media) = <<Blank, storage>> \o rest
  BY <1>2, <1>3, BackFromRoot
<1>5. <<Blank, storage>> \o rest = clean
  <2> DEFINE head == <<Blank, storage>>
             c == head \o rest
  <2>1. head \in Seq(Part) /\ Len(head) = 2 /\ head[1] = Blank /\ head[2] = storage
    BY RootsAre
  <2> HIDE DEF head
  <2>2. c \in Seq(Part) /\ Len(c) = 2 + Len(rest) /\ (\A i \in 1..2 : c[i] = head[i])
        /\ \A i \in 1..Len(rest) : c[2 + i] = rest[i]
    <3> DEFINE k == Len(head)
    <3>1. c \in Seq(Part) /\ Len(c) = k + Len(rest) /\ (\A i \in 1..k : c[i] = head[i])
          /\ \A i \in 1..Len(rest) : c[k + i] = rest[i]
      BY <1>2, <2>1, JoinFacts
    <3>2. k = 2
      BY <2>1
    <3> HIDE DEF k, c
    <3> QED BY <3>1, <3>2
  <2> HIDE DEF c
  <2>3. \A i \in 1..n : c[i] = clean[i]
    <3> TAKE i \in 1..n
    <3>1. CASE i <= 2
      BY <1>1, <2>1, <2>2, <3>1
    <3>2. CASE i > 2
      <4>1. i - 2 \in 1..(n - 2) /\ 2 + (i - 2) = i
        BY <1>0, <3>2
      <4> QED BY <1>2, <2>2, <4>1
    <3> QED BY <3>1, <3>2
  <2>4. Len(c) = n
    BY <1>0, <1>2, <2>2
  <2>5. Len(c) = Len(clean) /\ \A i \in 1..Len(c) : c[i] = clean[i]
    BY <2>3, <2>4 DEF n
  <2>6. c = clean
    BY <2>2, <2>5, SeqEqual
  <2> QED BY <2>6 DEF c, head
<1>6. root \in {LocalRoot, UsbRoot}
  OBVIOUS
<1>7. root \in Seq(Part) /\ Len(root) = 3
  BY RootsAre
<1> HIDE DEF root
<1>8. Contains(clean, "..") => Contains(media, "..")
  <2> SUFFICES ASSUME NEW i \in 1..n, clean[i] = ".." PROVE Contains(media, "..")
    BY DEF Contains, n
  <2>1. i > 2
    <3>1. clean[1] # ".." /\ clean[2] # ".."
      <4>1. Blank # ".."
        BY Zenon DEF Blank
      <4>2. storage # ".."
        OBVIOUS
      <4> QED BY <1>1, <4>1, <4>2
    <3> QED BY <1>0, <3>1
  <2>2. i - 2 \in 1..(n - 2) /\ 2 + (i - 2) = i
    BY <1>0, <2>1
  <2>3. rest[i - 2] = ".."
    BY <1>2, <2>2
  <2>4. Len(media) = 3 + (n - 2) /\ \A j \in 1..(n - 2) : media[3 + j] = rest[j]
    <3> DEFINE k == Len(root)
               m == Len(rest)
    <3>1. Len(media) = k + m /\ \A j \in 1..m : media[k + j] = rest[j]
      BY <1>2, <1>7, JoinFacts
    <3>2. k = 3 /\ m = n - 2
      BY <1>2, <1>7
    <3> HIDE DEF k, m, media
    <3> QED BY <3>1, <3>2
  <2> HIDE DEF media
  <2>5. 3 + (i - 2) \in 1..Len(media) /\ media[3 + (i - 2)] = ".."
    BY <1>0, <2>2, <2>3, <2>4
  <2> QED BY <2>5 DEF Contains
<1>9. Agrees(clean, media)
  <2> HIDE DEF media
  <2>1. SdcpPath(media) = clean
    BY <1>4, <1>5
  <2>2. clean[2] \in {"local", "usb"}
    BY <1>1
  <2>3. IsPrintFile(media) => ~Contains(clean, "..")
    BY <1>8 DEF IsPrintFile
  <2> QED BY <2>1, <2>2, <2>3 DEF Agrees
<1> QED BY <1>9 DEF media, root, rest, n

(* What is given without a storage is taken to be in the printer's own. *)
LEMMA OtherAgrees ==
  ASSUME NEW clean \in Seq(Part), NEW rest \in Seq(Part),
         Len(rest) >= 1, \A i \in 1..Len(rest) : rest[i] # Blank,
         ~Under(<<Blank, "local">>, clean), ~Under(<<Blank, "usb">>, clean),
         \A i \in 1..Len(clean) : clean[i] = ".." => \E j \in 1..Len(rest) : rest[j] = ".."
  PROVE  Agrees(clean, LocalRoot \o rest)
<1> DEFINE media == LocalRoot \o rest
           m == Len(rest)
<1>1. ~(clean[1] = Blank /\ Len(clean) > 2 /\ clean[2] \in {"local", "usb"})
  BY UnderFacts
<1>2. SdcpPath(media) = <<Blank, "local">> \o rest
  BY BackFromRoot
<1>3. (<<Blank, "local">> \o rest)[2] = "local"
  <2> DEFINE head == <<Blank, "local">>
             k == Len(head)
             c == head \o rest
  <2>1. head \in Seq(Part) /\ k = 2 /\ head[2] = "local"
    BY RootsAre
  <2>2. \A i \in 1..k : c[i] = head[i]
    <3> HIDE DEF head
    <3> QED BY <2>1, JoinFacts
  <2> HIDE DEF k, head, c
  <2>3. c[2] = head[2]
    BY <2>1, <2>2
  <2> QED BY <2>1, <2>3 DEF c, head
<1>4. Contains(clean, "..") => Contains(media, "..")
  <2> SUFFICES ASSUME NEW i \in 1..Len(clean), clean[i] = ".." PROVE Contains(media, "..")
    BY DEF Contains
  <2>1. PICK j \in 1..m : rest[j] = ".."
    OBVIOUS
  <2>2. m \in Nat /\ LocalRoot \in Seq(Part)
    BY LenProperties, RootsAre
  <2>3. Len(media) = 3 + m /\ \A l \in 1..m : media[3 + l] = rest[l]
    <3> DEFINE k == Len(LocalRoot)
    <3>1. Len(media) = k + m /\ \A l \in 1..m : media[k + l] = rest[l]
      BY <2>2, JoinFacts
    <3>2. k = 3
      BY RootsAre
    <3> HIDE DEF k, m, media
    <3> QED BY <3>1, <3>2
  <2> HIDE DEF media, m
  <2>4. 3 + j \in 1..Len(media) /\ media[3 + j] = ".."
    BY <2>1, <2>2, <2>3
  <2> QED BY <2>4 DEF Contains
<1> HIDE DEF media
<1>5. Agrees(clean, media)
  BY <1>1, <1>2, <1>3, <1>4 DEF Agrees, IsPrintFile
<1> QED BY <1>5 DEF media

LEMMA MediaIsRight ==
  ASSUME NEW x \in MediaInput PROVE MediaAgrees(x)
<1> DEFINE path == x.path
           clean == Clean(path)
           media == MediaPath(path)
           n == Len(clean)
<1>1. path \in Seq(Part) /\ path # <<>> /\ path[Len(path)] # Blank
  <2>1. path \in Seq(STRING) /\ path # <<>> /\ path[Len(path)] # Blank
    BY DEF MediaInput
  <2>2. STRING \subseteq Part
    BY DEF Part
  <2> HIDE DEF path
  <2>3. path \in Seq(Part)
    BY <2>1, <2>2, SeqMonotonic
  <2> QED BY <2>1, <2>3
<1>2. MediaAgrees(x) <=> Agrees(clean, media)
  BY DEF MediaAgrees, Agrees
<1>3. media = CASE Under(<<Blank, "media">>, clean) -> clean
                [] Under(<<Blank, "local">>, clean) -> LocalRoot \o SubSeq(clean, 3, Len(clean))
                [] Under(<<Blank, "usb">>, clean) -> UsbRoot \o SubSeq(clean, 3, Len(clean))
                [] OTHER -> LocalRoot \o IF clean[1] = Blank THEN Tail(clean) ELSE clean
  BY DEF MediaPath
<1> HIDE DEF path
<1>4. clean \in Proper
  BY <1>1, CleanIsProper
<1> HIDE DEF clean, media
<1>5. clean \in Seq(Part) /\ n \in Nat /\ n >= 1 /\ (clean[1] = Blank => n >= 2)
      /\ \A i \in 2..n : clean[i] # Blank
  BY <1>4, LenProperties DEF Proper
<1>6. CASE Under(<<Blank, "media">>, clean)
  <2>1. n > 2 /\ clean[1] = Blank /\ clean[2] = "media"
    BY <1>5, <1>6, UnderFacts
  <2>2. media = clean
    <3>1. ~Under(<<Blank, "local">>, clean) /\ ~Under(<<Blank, "usb">>, clean)
      BY <1>5, <2>1, UnderFacts
    <3> QED BY <1>3, <1>6, <3>1
  <2>3. Clean(clean) = clean
    BY <1>4, CleanOfProper
  <2>4. ~(clean[2] \in {"local", "usb"})
    BY <2>1
  <2>5. IsPrintFile(clean) => SdcpPath(clean)[2] \in {"local", "usb"}
    <3> SUFFICES ASSUME NEW root \in {LocalRoot, UsbRoot}, Under(root, clean)
                 PROVE  SdcpPath(clean)[2] \in {"local", "usb"}
      BY DEF IsPrintFile
    <3>1. n > 3
      BY <1>5, UnderFacts
    <3> DEFINE rest == SubSeq(clean, 4, Len(clean))
    <3>2. rest \in Seq(Part)
      <4> DEFINE k == 4
      <4>1. k \in 1..Len(clean)
        BY <1>5, <3>1
      <4> HIDE DEF k
      <4>2. SubSeq(clean, k, Len(clean)) \in Seq(Part)
        BY <1>5, <4>1, RestFacts
      <4> QED BY <4>2 DEF k
    <3>3. SdcpPath(clean) = <<Blank, "local">> \o rest \/ SdcpPath(clean) = <<Blank, "usb">> \o rest
      BY <2>3 DEF SdcpPath
    <3> HIDE DEF rest
    <3>4. ASSUME NEW storage \in {"local", "usb"} PROVE (<<Blank, storage>> \o rest)[2] = storage
      <4> DEFINE head == <<Blank, storage>>
                 k == Len(head)
                 c == head \o rest
      <4>1. head \in Seq(Part) /\ k = 2 /\ head[2] = storage
        BY RootsAre
      <4>2. \A i \in 1..k : c[i] = head[i]
        <5> HIDE DEF head
        <5> QED BY <3>2, <4>1, JoinFacts
      <4> HIDE DEF k, head, c
      <4>3. c[2] = head[2]
        BY <4>1, <4>2
      <4> QED BY <4>1, <4>3 DEF c, head
    <3> QED BY <3>3, <3>4
  <2>6. Agrees(clean, clean)
    BY <2>4, <2>5 DEF Agrees, IsPrintFile
  <2> QED BY <1>2, <2>2, <2>6
<1>7. CASE Under(<<Blank, "local">>, clean)
  <2>1. media = LocalRoot \o SubSeq(clean, 3, Len(clean))
    <3>1. ~Under(<<Blank, "media">>, clean) /\ ~Under(<<Blank, "usb">>, clean)
      BY <1>5, <1>7, UnderFacts
    <3> QED BY <1>3, <1>7, <3>1
  <2> DEFINE storage == "local"
  <2>2. storage \in {"local", "usb"} /\ storage = "local" /\ Under(<<Blank, storage>>, clean)
    BY <1>7
  <2> HIDE DEF storage
  <2>3. \A i \in 2..Len(clean) : clean[i] # Blank
    BY <1>5
  <2>4. Agrees(clean, (IF storage = "local" THEN LocalRoot ELSE UsbRoot) \o SubSeq(clean, 3, Len(clean)))
    BY <1>5, <2>2, <2>3, StoredAgrees
  <2> QED BY <1>2, <2>1, <2>2, <2>4
<1>8. CASE Under(<<Blank, "usb">>, clean)
  <2>1. media = UsbRoot \o SubSeq(clean, 3, Len(clean))
    <3>1. ~Under(<<Blank, "media">>, clean) /\ ~Under(<<Blank, "local">>, clean)
      BY <1>5, <1>8, UnderFacts
    <3> QED BY <1>3, <1>8, <3>1
  <2> DEFINE storage == "usb"
  <2>2. storage \in {"local", "usb"} /\ storage # "local" /\ Under(<<Blank, storage>>, clean)
    BY <1>8
  <2> HIDE DEF storage
  <2>3. \A i \in 2..Len(clean) : clean[i] # Blank
    BY <1>5
  <2>4. Agrees(clean, (IF storage = "local" THEN LocalRoot ELSE UsbRoot) \o SubSeq(clean, 3, Len(clean)))
    BY <1>5, <2>2, <2>3, StoredAgrees
  <2> QED BY <1>2, <2>1, <2>2, <2>4
<1>9. CASE ~Under(<<Blank, "media">>, clean) /\ ~Under(<<Blank, "local">>, clean) /\ ~Under(<<Blank, "usb">>, clean)
  <2> DEFINE rest == IF clean[1] = Blank THEN Tail(clean) ELSE clean
  <2>1. media = LocalRoot \o rest
    BY <1>3, <1>9
  <2>2. CASE clean[1] = Blank
    <3>1. rest = Tail(clean) /\ n >= 2 /\ clean # <<>>
      BY <1>5, <2>2
    <3>2. rest \in Seq(Part) /\ Len(rest) = n - 1 /\ \A i \in 1..(n - 1) : rest[i] = clean[i + 1]
      BY <1>5, <3>1, HeadTailProperties
    <3> HIDE DEF rest, n
    <3>3. \A i \in 1..(n - 1) : i + 1 \in 2..n
      BY <1>5
    <3>4. Len(rest) >= 1 /\ \A i \in 1..Len(rest) : rest[i] # Blank
      BY <1>5, <3>1, <3>2, <3>3
    <3>5. \A i \in 1..n : clean[i] = ".." => \E j \in 1..Len(rest) : rest[j] = ".."
      <4> TAKE i \in 1..n
      <4> HAVE clean[i] = ".."
      <4>1. Blank # ".."
        BY Zenon DEF Blank
      <4>2. i # 1
        BY <2>2, <4>1
      <4>3. i - 1 \in 1..(n - 1) /\ (i - 1) + 1 = i
        BY <1>5, <4>2
      <4>4. rest[i - 1] = ".."
        BY <3>2, <4>3
      <4>5. i - 1 \in 1..Len(rest)
        BY <3>2, <4>3
      <4> QED BY <4>4, <4>5
    <3>6. \A i \in 1..Len(clean) : clean[i] = ".." => \E j \in 1..Len(rest) : rest[j] = ".."
      BY <3>5 DEF n
    <3>7. Agrees(clean, LocalRoot \o rest)
      BY <1>5, <1>9, <3>2, <3>4, <3>6, OtherAgrees
    <3> QED BY <1>2, <2>1, <3>7
  <2>3. CASE clean[1] # Blank
    <3>1. rest = clean
      BY <2>3
    <3> HIDE DEF rest
    <3>2. Len(clean) >= 1 /\ \A i \in 1..Len(clean) : clean[i] # Blank
      <4>1. \A i \in 1..n : i = 1 \/ i \in 2..n
        BY <1>5
      <4> QED BY <1>5, <2>3, <4>1
    <3>3. \A i \in 1..Len(clean) : clean[i] = ".." => \E j \in 1..Len(clean) : clean[j] = ".."
      OBVIOUS
    <3>4. Agrees(clean, LocalRoot \o clean)
      BY <1>5, <1>9, <3>2, <3>3, OtherAgrees
    <3> QED BY <1>2, <2>1, <3>1, <3>4
  <2> QED BY <2>2, <2>3
<1> QED BY <1>6, <1>7, <1>8, <1>9


-----------------------------------------------------------------------------
(* Layers: sequences laid end to end. *)
(* Each starts where those before it end. *)
Laid(seqs, flat, at) ==
  /\ at \in [0..Len(seqs) -> Nat] /\ at[0] = 0
  /\ \A i \in 1..Len(seqs) : at[i] = at[i - 1] + Len(seqs[i])
  /\ Len(flat) = at[Len(seqs)]
  /\ \A i \in 1..Len(seqs) : \A j \in 1..Len(seqs[i]) : flat[at[i - 1] + j] = seqs[i][j]

Flattened(seqs) ==
  CHOOSE f : f = [i \in 1..Len(seqs) |-> IF i = 1 THEN seqs[i] ELSE f[i - 1] \o seqs[i]]

(* What is before a place does not change with what comes behind. *)
Grown(seqs, h, n) == h[0] = <<>> /\ \A i \in 1..n : h[i] = h[i - 1] \o seqs[i]

GrownInPlace(seqs, h, n) ==
  \A k \in 0..n : \A i \in 1..k : \A j \in 1..Len(seqs[i]) :
    Len(h[i - 1]) + j <= Len(h[k]) /\ h[k][Len(h[i - 1]) + j] = seqs[i][j]

LEMMA FlatGrows ==
  ASSUME NEW S, NEW n \in Nat, NEW seqs \in [1..n -> Seq(S)], NEW h \in [0..n -> Seq(S)],
         Grown(seqs, h, n)
  PROVE  GrownInPlace(seqs, h, n)
<1>0. h[0] = <<>> /\ \A i \in 1..n : h[i] = h[i - 1] \o seqs[i]
  BY DEF Grown
<1> DEFINE Holds(k) == \A i \in 1..k : \A j \in 1..Len(seqs[i]) :
                         Len(h[i - 1]) + j <= Len(h[k]) /\ h[k][Len(h[i - 1]) + j] = seqs[i][j]
           T == {k \in 0..n : Holds(k)}
<1>1. 0 \in T
  OBVIOUS
<1>2. ASSUME NEW k \in 1..n, k - 1 \in T PROVE k \in T
  <2> DEFINE a == h[k - 1]
             b == seqs[k]
             c == h[k]
  <2>1. a \in Seq(S) /\ b \in Seq(S) /\ c = a \o b /\ Len(a) \in Nat /\ Len(b) \in Nat
    <3>1. k - 1 \in 0..n
      OBVIOUS
    <3> QED BY <1>0, <3>1, LenProperties
  <2>2. Len(c) = Len(a) + Len(b)
        /\ \A i \in 1..(Len(a) + Len(b)) : c[i] = IF i <= Len(a) THEN a[i] ELSE b[i - Len(a)]
    <3> HIDE DEF a, b, c
    <3> QED BY <2>1, ConcatProperties
  <2>3. ASSUME NEW i \in 1..k, NEW j \in 1..Len(seqs[i])
        PROVE  Len(h[i - 1]) + j <= Len(c) /\ c[Len(h[i - 1]) + j] = seqs[i][j]
    <3>1. CASE i = k
      <4>1. h[i - 1] = a /\ seqs[i] = b /\ j \in 1..Len(b)
        BY <3>1
      <4> HIDE DEF a, b, c
      <4>2. Len(a) + j \in 1..(Len(a) + Len(b)) /\ ~(Len(a) + j <= Len(a)) /\ (Len(a) + j) - Len(a) = j
        BY <2>1, <4>1
      <4>3. c[Len(a) + j] = b[j] /\ Len(a) + j <= Len(c)
        <5> DEFINE l == Len(a) + j
        <5>1. l \in 1..(Len(a) + Len(b)) /\ ~(l <= Len(a)) /\ l - Len(a) = j
          BY <4>2
        <5> HIDE DEF l
        <5>2. c[l] = b[l - Len(a)]
          BY <2>2, <5>1
        <5>3. l <= Len(c)
          BY <2>1, <2>2, <5>1
        <5> QED BY <5>1, <5>2, <5>3 DEF l
      <4> QED BY <4>1, <4>3
    <3>2. CASE i # k
      <4>1. i \in 1..(k - 1) /\ i - 1 \in 0..n /\ i \in 1..n
        BY <3>2
      <4>2. Len(h[i - 1]) + j <= Len(a) /\ a[Len(h[i - 1]) + j] = seqs[i][j]
        BY <1>2, <4>1
      <4>3. Len(h[i - 1]) \in Nat
        BY <4>1, LenProperties
      <4> DEFINE l == Len(h[i - 1]) + j
      <4>4. l \in Nat /\ l >= 1 /\ l <= Len(a)
        <5>1. seqs[i] \in Seq(S)
          BY <4>1
        <5>2. Len(seqs[i]) \in Nat
          BY <5>1, LenProperties
        <5>3. j \in Nat /\ j >= 1
          BY <5>2
        <5> DEFINE x == Len(h[i - 1])
                   y == Len(a)
        <5>4. x + j <= y /\ x \in Nat
          BY <4>2, <4>3
        <5> HIDE DEF x, y, a
        <5>5. x + j \in Nat /\ x + j >= 1 /\ x + j <= y
          BY <5>3, <5>4
        <5> QED BY <5>5 DEF x, y
      <4> HIDE DEF a, b, c, l
      <4>5. l \in 1..(Len(a) + Len(b)) /\ l <= Len(c)
        BY <2>1, <2>2, <4>4
      <4>6. c[l] = a[l]
        BY <2>2, <4>4, <4>5
      <4> QED BY <4>2, <4>5, <4>6 DEF l
    <3> QED BY <3>1, <3>2
  <2>4. Holds(k)
    BY <2>3
  <2> HIDE DEF Holds
  <2> QED BY <2>4
<1>3. 0..n \subseteq T
  <2> HIDE DEF T
  <2> QED BY <1>1, <1>2, InductionUpto
<1> QED BY <1>3 DEF GrownInPlace

LEMMA FlattenFacts ==
  ASSUME NEW S, NEW seqs \in Seq(Seq(S))
  PROVE  FlattenSeq(seqs) \in Seq(S) /\ \E at : Laid(seqs, FlattenSeq(seqs), at)
<1> DEFINE n == Len(seqs)
           Q == Seq(S)
           F == [i \in 1..n |-> [s \in Q |-> s \o seqs[i]]]
           flat == FlattenSeq(seqs)
<1>1. n \in Nat /\ seqs \in [1..n -> Q] /\ \A i \in 1..n : seqs[i] \in Q
  BY LenProperties, ElementOfSeq
<1>2. <<>> \in Q
  OBVIOUS
<1> HIDE DEF n
<1>3. F \in [1..n -> [Q -> Q]]
  <2>1. \A i \in 1..n : \A s \in Q : s \o seqs[i] \in Q
    BY <1>1, ConcatProperties
  <2> HIDE DEF Q
  <2> QED BY <2>1
<1>4. PICK h \in [0..n -> Q] : IsLoop(h, n, <<>>, F)
  <2> HIDE DEF F, Q
  <2> QED BY <1>1, <1>2, <1>3, LoopExists
<1>5. h[0] = <<>> /\ \A i \in 1..n : h[i] = h[i - 1] \o seqs[i]
  <2>1. \A i \in 1..n : h[i - 1] \in Q
    BY <1>1
  <2> HIDE DEF Q
  <2> QED BY <1>4, <2>1 DEF IsLoop
<1> HIDE DEF F
<1>6. flat = h[n]
  <2>1. CASE n = 0
    <3>1. seqs = <<>>
      BY <2>1, EmptySeq DEF n
    <3>2. flat = seqs
      BY <2>1 DEF FlattenSeq, n
    <3> QED BY <1>5, <2>1, <3>1, <3>2
  <2>2. CASE n # 0
    <3> DEFINE g == [i \in 1..n |-> h[i]]
               f == Flattened(seqs)
    <3>0. n \in 1..n
      BY <1>1, <2>2
    <3>1. h[1] = seqs[1]
      <4>1. 1 \in 1..n /\ 1 - 1 = 0
        BY <3>0
      <4>2. h[1] = h[0] \o seqs[1] /\ seqs[1] \in Seq(S)
        BY <1>1, <1>5, <4>1
      <4> QED BY <1>5, <4>2, ConcatEmptySeq
    <3>2. g = [i \in 1..n |-> IF i = 1 THEN seqs[i] ELSE g[i - 1] \o seqs[i]]
      <4>1. \A i \in 1..n : i # 1 => i - 1 \in 1..n
        BY <1>1
      <4>2. \A i \in 1..n : g[i] = IF i = 1 THEN seqs[i] ELSE g[i - 1] \o seqs[i]
        BY <1>5, <3>1, <4>1
      <4> QED BY <4>2
    <3>3. f = [i \in 1..n |-> IF i = 1 THEN seqs[i] ELSE f[i - 1] \o seqs[i]]
      <4> HIDE DEF g
      <4> QED BY <3>2 DEF Flattened, n
    <3>4. flat = f[n]
      BY <2>2 DEF FlattenSeq, Flattened, n
    <3> HIDE DEF f
    <3> DEFINE T == {i \in 0..n : i # 0 => f[i] = h[i]}
    <3>5. 0 \in T
      BY <1>1
    <3>6. ASSUME NEW i \in 1..n, i - 1 \in T PROVE i \in T
      <4>1. CASE i = 1
        BY <3>1, <3>3, <4>1
      <4>2. CASE i # 1
        <5>1. f[i - 1] = h[i - 1] /\ i \in 0..n
          BY <3>6, <4>2
        <5>2. f[i] = f[i - 1] \o seqs[i]
          BY <3>3, <4>2
        <5> QED BY <1>5, <5>1, <5>2
      <4> QED BY <4>1, <4>2
    <3>7. 0..n \subseteq T
      <4> HIDE DEF T
      <4> QED BY <1>1, <3>5, <3>6, InductionUpto
    <3>8. f[n] = h[n]
      BY <1>1, <2>2, <3>7
    <3> QED BY <3>4, <3>8
  <2> QED BY <2>1, <2>2
<1>7. flat \in Seq(S)
  BY <1>1, <1>6
<1> DEFINE at == [i \in 0..n |-> Len(h[i])]
<1>8. at \in [0..n -> Nat]
  BY <1>1, LenProperties
<1>9. at[0] = 0 /\ Len(flat) = at[n]
  BY <1>1, <1>5, <1>6
<1>10. \A i \in 1..n : at[i] = at[i - 1] + Len(seqs[i])
  <2> TAKE i \in 1..n
  <2>1. i - 1 \in 0..n /\ i \in 0..n
    BY <1>1
  <2>2. h[i - 1] \in Seq(S) /\ seqs[i] \in Seq(S) /\ h[i] = h[i - 1] \o seqs[i]
    BY <1>1, <1>5, <2>1
  <2>3. Len(h[i]) = Len(h[i - 1]) + Len(seqs[i])
    BY <2>2, ConcatProperties
  <2> QED BY <2>1, <2>3
<1>11. \A i \in 1..n : \A j \in 1..Len(seqs[i]) : flat[at[i - 1] + j] = seqs[i][j]
  <2>1. \A k \in 0..n : \A i \in 1..k : \A j \in 1..Len(seqs[i]) :
          Len(h[i - 1]) + j <= Len(h[k]) /\ h[k][Len(h[i - 1]) + j] = seqs[i][j]
    <3>1. Grown(seqs, h, n)
      BY <1>5 DEF Grown
    <3>2. seqs \in [1..n -> Seq(S)] /\ h \in [0..n -> Seq(S)]
      BY <1>1, <1>4
    <3>3. GrownInPlace(seqs, h, n)
      BY <1>1, <3>1, <3>2, FlatGrows
    <3> QED BY <3>3 DEF GrownInPlace
  <2>2. \A i \in 1..n : i - 1 \in 0..n
    BY <1>1
  <2> QED BY <1>1, <1>6, <2>1, <2>2, SMTT(20)
<1>12. Laid(seqs, flat, at)
  <2> HIDE DEF at, flat
  <2> QED BY <1>8, <1>9, <1>10, <1>11 DEF Laid, n
<1> HIDE DEF at, flat
<1> QED BY <1>7, <1>12 DEF flat

(* What begins earlier ends earlier. *)
LEMMA LaidInOrder ==
  ASSUME NEW seqs, NEW flat, NEW at, Laid(seqs, flat, at), Len(seqs) \in Nat,
         \A i \in 1..Len(seqs) : Len(seqs[i]) \in Nat
  PROVE  \A k \in 0..Len(seqs) : at[k] <= Len(flat)
<1> DEFINE n == Len(seqs)
           T == {k \in 0..n : at[n - k] <= at[n]}
<1>1. n \in Nat /\ at \in [0..n -> Nat] /\ (\A i \in 1..n : at[i] = at[i - 1] + Len(seqs[i]) /\ Len(seqs[i]) \in Nat)
      /\ Len(flat) = at[n]
  BY DEF Laid
<1> HIDE DEF n
<1>2. 0 \in T
  <2>1. n - 0 = n /\ at[n] \in Nat
    BY <1>1
  <2> QED BY <1>1, <2>1
<1>3. ASSUME NEW k \in 1..n, k - 1 \in T PROVE k \in T
  <2>1. n - (k - 1) \in 1..n /\ (n - (k - 1)) - 1 = n - k /\ n - k \in 0..n /\ n \in 0..n
    BY <1>1
  <2>2. at[n - (k - 1)] = at[n - k] + Len(seqs[n - (k - 1)]) /\ Len(seqs[n - (k - 1)]) \in Nat
    BY <1>1, <2>1
  <2>3. at[n - k] \in Nat /\ at[n] \in Nat
    BY <1>1, <2>1
  <2>4. at[n - (k - 1)] <= at[n]
    BY <1>3
  <2>5. at[n - k] <= at[n]
    BY <2>2, <2>3, <2>4
  <2> QED BY <2>5
<1>4. 0..n \subseteq T
  <2> HIDE DEF T
  <2> QED BY <1>1, <1>2, <1>3, InductionUpto
<1>5. ASSUME NEW k \in 0..n PROVE at[k] <= at[n]
  <2>1. n - k \in 0..n /\ n - (n - k) = k
    BY <1>1
  <2> QED BY <1>4, <2>1
<1> QED BY <1>1, <1>5 DEF n

-----------------------------------------------------------------------------
(* Layers: the sum of a cell, as far as the loop has come. *)
LEMMA QuotientIs ==
  ASSUME NEW n \in Int, NEW d \in Nat \ {0}, NEW q \in Int, NEW r \in 0..(d - 1), n = d * q + r
  PROVE  n \div d = q /\ n % d = r
<1> DEFINE p == n \div d
           m == n % d
<1>1. p \in Int /\ m \in 0..(d - 1) /\ n = d * p + m
  BY Quotient
<1>2. q <= p
  <2>1. d * q \in Int /\ d * q <= n
    BY SMT
  <2> QED BY <2>1, QuotientAtLeast
<1>3. ~(q + 1 <= p)
  <2>1. d * (q + 1) = d * q + d
    BY SMT
  <2>2. d * q \in Int /\ ~(d * q + d <= n)
    BY SMT
  <2> QED BY <2>1, <2>2, QuotientAtLeast
<1> HIDE DEF p, m
<1>4. p = q
  BY <1>1, <1>2, <1>3
<1>5. d * q \in Int /\ m = r
  BY <1>1, <1>4
<1> QED BY <1>4, <1>5 DEF p, m

(* The sum of a cell, over the pixels before each. *)
SumOf(pixels, cell, o) ==
  CHOOSE f : f = [p \in 0..Len(pixels) |->
                    IF p = 0 THEN 0 ELSE f[p - 1] + (IF CellOf(p - 1, o) = cell THEN pixels[p] ELSE 0)]

Sums(f, pixels, cell, o) ==
  /\ f \in [0..Len(pixels) -> Int]
  /\ f[0] = 0
  /\ \A p \in 1..Len(pixels) :
       f[p] = f[p - 1] + (IF CellOf(p - 1, o) = cell THEN pixels[p] ELSE 0)

LEMMA SumFacts ==
  ASSUME NEW pixels \in Seq(Int), NEW cell, NEW o
  PROVE  /\ Sums(SumOf(pixels, cell, o), pixels, cell, o)
         /\ Total(pixels, cell, o) = SumOf(pixels, cell, o)[Len(pixels)]
<1> DEFINE m == Len(pixels)
           d == [p \in 1..m |-> IF CellOf(p - 1, o) = cell THEN pixels[p] ELSE 0]
           F == [k \in 1..m |-> [s \in Int |-> s + d[k]]]
           a == SumOf(pixels, cell, o)
<1>0. m \in Nat /\ \A k \in 1..m : pixels[k] \in Int
  BY LenProperties, ElementOfSeq
<1>1. d \in [1..m -> Int]
  BY <1>0
<1> HIDE DEF m
<1>2. F \in [1..m -> [Int -> Int]]
  <2> HIDE DEF d
  <2> QED BY <1>1
<1>3. PICK h \in [0..m -> Int] : IsLoop(h, m, 0, F)
  <2> HIDE DEF F
  <2>1. 0 \in Int
    OBVIOUS
  <2> QED BY <1>0, <1>2, <2>1, LoopExists, Zenon
<1>4. h[0] = 0 /\ \A k \in 1..m : h[k] = h[k - 1] + d[k]
  <2>1. \A k \in 1..m : h[k - 1] \in Int
    BY <1>0
  <2> HIDE DEF d
  <2> QED BY <1>3, <2>1 DEF IsLoop
<1>5. \A k \in 1..m : d[k] = IF CellOf(k - 1, o) = cell THEN pixels[k] ELSE 0
  OBVIOUS
<1>6. h = [p \in 0..m |-> IF p = 0 THEN 0 ELSE h[p - 1] + (IF CellOf(p - 1, o) = cell THEN pixels[p] ELSE 0)]
  <2> HIDE DEF F, d
  <2>1. \A p \in 0..m : h[p] = IF p = 0 THEN 0 ELSE h[p - 1] + (IF CellOf(p - 1, o) = cell THEN pixels[p] ELSE 0)
    BY <1>0, <1>4, <1>5
  <2> QED BY <2>1
<1> HIDE DEF F, d
<1>7. a = [p \in 0..m |-> IF p = 0 THEN 0 ELSE a[p - 1] + (IF CellOf(p - 1, o) = cell THEN pixels[p] ELSE 0)]
  BY <1>6 DEF SumOf, m
<1>8. Total(pixels, cell, o) = a[m]
  BY DEF Total, SumOf, m
<1> HIDE DEF a
<1>9. a[0] = 0 /\ \A p \in 1..m : a[p] = a[p - 1] + (IF CellOf(p - 1, o) = cell THEN pixels[p] ELSE 0)
  BY <1>0, <1>7
<1>10. \A k \in 0..m : a[k] \in Int
  <2>1. \A k \in 1..m : a[k - 1] \in Int => a[k] \in Int
    <3> TAKE k \in 1..m
    <3> DEFINE e == IF CellOf(k - 1, o) = cell THEN pixels[k] ELSE 0
    <3>1. e \in Int /\ a[k] = a[k - 1] + e
      BY <1>0, <1>9
    <3> HIDE DEF e
    <3> QED BY <3>1
  <2>2. a[0] \in Int
    BY <1>9
  <2> QED BY <1>0, <2>1, <2>2, LoopType
<1>11. a \in [0..m -> Int]
  BY <1>7, <1>10
<1> QED BY <1>8, <1>9, <1>11 DEF Sums, a, m

-----------------------------------------------------------------------------
(* How much of what is from first to last is in cell i of so many.         *)
Within(first, last, i, scale) == Most(0, Least((i + 1) * scale, last) - Most(i * scale, first))

Options == [width : Size, height : Size, scale : Size, mirrorX : BOOLEAN]

LEMMA PixelCell ==
  ASSUME NEW o \in Options, NEW cell \in Nat \X Nat, NEW row \in Nat, NEW c \in 0..(o.width - 1)
  PROVE  CellOf(row * o.width + c, o) = cell <=>
           cell[1] = row \div o.scale /\ cell[2] * o.scale <= c /\ c < (cell[2] + 1) * o.scale
<1> DEFINE w == o.width
           s == o.scale
           p == row * w + c
           x == cell[2]
<1>1. w \in Nat \ {0} /\ s \in Nat \ {0} /\ x \in Nat /\ cell = <<cell[1], cell[2]>>
  BY DEF Options, Size
<1>2. CellOf(p, o) = <<(p \div w) \div s, (p % w) \div s>>
  BY DEF CellOf
<1> HIDE DEF w, s, x
<1>3. p \in Int /\ p = w * row + c /\ c \in 0..(w - 1)
  BY <1>1 DEF w
<1> HIDE DEF p
<1>4. p \div w = row /\ p % w = c
  BY <1>1, <1>3, QuotientIs
<1>5. c \div s \in Int /\ (x <= c \div s <=> s * x <= c) /\ (x + 1 <= c \div s <=> s * (x + 1) <= c)
  <2>1. c \in Int /\ x \in Int /\ x + 1 \in Int
    BY <1>1, <1>3
  <2>2. x <= c \div s <=> s * x <= c
    BY <1>1, <2>1, QuotientAtLeast
  <2>3. x + 1 <= c \div s <=> s * (x + 1) <= c
    BY <1>1, <2>1, QuotientAtLeast
  <2>4. c \div s \in Int
    BY <1>1, <2>1, Quotient
  <2> QED BY <2>2, <2>3, <2>4
<1>6. s * x = x * s /\ s * (x + 1) = (x + 1) * s /\ x * s \in Int /\ (x + 1) * s \in Int
  BY <1>1
<1>7. c \div s = x <=> x * s <= c /\ c < (x + 1) * s
  <2> DEFINE y == c \div s
             lo == x * s
             hi == (x + 1) * s
  <2>1. y \in Int /\ lo \in Int /\ hi \in Int /\ (x <= y <=> lo <= c) /\ (x + 1 <= y <=> hi <= c)
    BY <1>5, <1>6
  <2> HIDE DEF y, lo, hi
  <2>2. y = x <=> lo <= c /\ c < hi
    BY <1>1, <1>3, <2>1
  <2> QED BY <2>2 DEF y, lo, hi
<1>8. CellOf(p, o) = <<row \div s, c \div s>>
  BY <1>2, <1>4
<1>9. CellOf(p, o) = cell <=> cell[1] = row \div s /\ cell[2] = c \div s
  BY <1>1, <1>8
<1> QED BY <1>7, <1>9 DEF p, w, s, x

LEMMA InReach ==
  ASSUME NEW a \in Nat, NEW k \in Nat, NEW n \in Nat, a + k <= n
  PROVE  \A t \in 0..k : a + t \in 0..n /\ (t # 0 => a + t \in 1..n)
OBVIOUS

LEMMA MultiplesFollow ==
  ASSUME NEW s \in Nat, NEW x \in Nat
  PROVE  x * s \in Nat /\ (x + 1) * s = x * s + s
  OBVIOUS

LEMMA TakenFrom ==
  ASSUME NEW a \in Nat, NEW t \in Nat
  PROVE  (a + t) - 1 = a + t - 1
  OBVIOUS

LEMMA InColumns ==
  ASSUME NEW col \in Nat, NEW k \in Nat, NEW w \in Nat, col + k <= w, NEW t \in 1..k
  PROVE  col + t - 1 \in 0..(w - 1)
  OBVIOUS

(* So many pixels after a place are of one colour. *)
Plain(pixels, a, k, colour) == \A t \in 1..k : pixels[a + t] = colour

(* What one colour in a row adds to a cell. *)
LEMMA RowAdds ==
  ASSUME NEW o \in Options, NEW cell \in Nat \X Nat, NEW pixels \in Seq(Int),
         NEW f, Sums(f, pixels, cell, o),
         NEW row \in Nat, NEW col \in Nat, NEW k \in Nat, col + k <= o.width,
         NEW a, a = row * o.width + col, a + k <= Len(pixels),
         NEW colour \in Int, Plain(pixels, a, k, colour)
  PROVE  f[a + k] = f[a] + (IF cell[1] = row \div o.scale
                            THEN Within(col, col + k, cell[2], o.scale) * colour ELSE 0)
<1> DEFINE w == o.width
           s == o.scale
           x == cell[2]
           lo == x * s
           hi == (x + 1) * s
           in == cell[1] = row \div s
           W(t) == Most(0, Least(hi, col + t) - Most(lo, col))
           N == Len(pixels)
           T == {t \in 0..k : f[a + t] = f[a] + (IF in THEN W(t) * colour ELSE 0)}
<1>1. w \in Nat \ {0} /\ s \in Nat \ {0} /\ x \in Nat /\ lo \in Nat /\ hi = lo + s /\ N \in Nat
  <2>1. o.width \in Nat \ {0} /\ o.scale \in Nat \ {0} /\ cell[2] \in Nat
    BY Zenon DEF Options, Size
  <2>2. lo \in Nat /\ hi = lo + s
    <3>1. s \in Nat /\ x \in Nat
      BY <2>1
    <3> HIDE DEF s, x
    <3> QED BY <3>1, MultiplesFollow, Zenon
  <2>3. N \in Nat
    BY LenProperties, Zenon
  <2> QED BY <2>1, <2>2, <2>3, Zenon
<1>2. a \in Nat /\ a + k <= N
  <2>1. row * w \in Nat
    <3>1. w \in Nat
      BY <1>1
    <3> HIDE DEF w
    <3> QED BY <3>1
  <2> HIDE DEF w
  <2>2. a = row * w + col
    BY DEF w
  <2>3. a + k <= N
    OBVIOUS
  <2> DEFINE rw == row * w
  <2> HIDE DEF rw, N
  <2> QED BY <2>1, <2>2, <2>3 DEF rw
<1>a. \A t \in 1..k : f[a + t] = f[a + t - 1] + (IF CellOf(a + t - 1, o) = cell THEN colour ELSE 0)
  <2> TAKE t \in 1..k
  <2>1. a + t \in 1..N
    <3>1. t \in 0..k /\ t # 0 /\ a \in Nat /\ N \in Nat /\ a + k <= N
      BY <1>1, <1>2
    <3> HIDE DEF N
    <3> QED BY <3>1, InReach
  <2>2. \A p \in 1..N : f[p] = f[p - 1] + (IF CellOf(p - 1, o) = cell THEN pixels[p] ELSE 0)
    BY DEF Sums
  <2> HIDE DEF N
  <2> DEFINE p == a + t
  <2>3. p \in 1..N
    BY <2>1
  <2>7. p - 1 = a + t - 1
    <3>1. a \in Nat /\ t \in Nat
      BY <1>2
    <3> QED BY <3>1, TakenFrom, Zenon
  <2> HIDE DEF p
  <2>4. f[p] = f[p - 1] + (IF CellOf(p - 1, o) = cell THEN pixels[p] ELSE 0)
    BY <2>2, <2>3
  <2>5. f[a + t] = f[a + t - 1] + (IF CellOf(a + t - 1, o) = cell THEN pixels[a + t] ELSE 0)
    <3>1. f[p] = f[a + t - 1] + (IF CellOf(a + t - 1, o) = cell THEN pixels[p] ELSE 0)
      BY <2>4, <2>7
    <3> QED BY <3>1 DEF p
  <2>6. pixels[a + t] = colour
    BY DEF Plain
  <2> QED BY <2>5, <2>6
<1>b. \A t \in 0..k : f[a + t] \in Int
  <2> TAKE t \in 0..k
  <2>1. a + t \in 0..N
    <3>1. t \in 0..k /\ a \in Nat /\ N \in Nat /\ a + k <= N
      BY <1>1, <1>2
    <3> HIDE DEF N
    <3> QED BY <3>1, InReach
  <2> QED BY <2>1 DEF Sums
<1>c. \A t \in 1..k : CellOf(a + t - 1, o) = cell <=> in /\ lo <= col + t - 1 /\ col + t - 1 < hi
  <2> TAKE t \in 1..k
  <2> DEFINE c == col + t - 1
  <2>1. c \in 0..(o.width - 1)
    <3>1. o.width \in Nat /\ col + k <= o.width
      BY <1>1
    <3> QED BY <3>1, InColumns, Zenon
  <2>2. a + t - 1 = row * o.width + c
    <3> DEFINE rw == row * o.width
    <3>1. rw \in Int /\ a = rw + col
      BY <1>1, SMTT(20)
    <3> HIDE DEF rw
    <3>2. a + t - 1 = rw + c
      BY <3>1
    <3> QED BY <3>2 DEF rw
  <2> HIDE DEF c
  <2>3. CellOf(row * o.width + c, o) = cell <=> in /\ lo <= c /\ c < hi
    BY <2>1, PixelCell
  <2> QED BY <2>2, <2>3 DEF c
<1> HIDE DEF lo, hi, in, s, w, x, N
<1>3. 0 \in T
  <2>1. W(0) = 0
    BY <1>1 DEF Most, Least
  <2>2. f[a + 0] = f[a] /\ f[a] \in Int
    BY <1>2, <1>b
  <2> QED BY <2>1, <2>2
<1>4. ASSUME NEW t \in 1..k, t - 1 \in T PROVE t \in T
  <2>1. W(t) = W(t - 1) + (IF lo <= col + t - 1 /\ col + t - 1 < hi THEN 1 ELSE 0) /\ W(t - 1) \in Int
    BY <1>1 DEF Most, Least
  <2> DEFINE u == W(t - 1)
             v == W(t)
             b == f[a]
             d == f[a + t - 1]
             e == f[a + t]
  <2>2. d = b + (IF in THEN u * colour ELSE 0)
    <3>1. a + (t - 1) = a + t - 1
      BY <1>2
    <3> QED BY <1>4, <3>1
  <2>3. e = d + (IF in /\ lo <= col + t - 1 /\ col + t - 1 < hi THEN colour ELSE 0)
    BY <1>a, <1>c
  <2>4. b \in Int /\ d \in Int
    <3>1. 0 \in 0..k /\ t - 1 \in 0..k /\ a + 0 = a /\ a + (t - 1) = a + t - 1
      BY <1>2
    <3> QED BY <1>b, <3>1
  <2>5. u \in Int /\ v = u + (IF lo <= col + t - 1 /\ col + t - 1 < hi THEN 1 ELSE 0)
    BY <2>1
  <2> HIDE DEF u, v, b, d, e, W
  <2>6. (u + 1) * colour = u * colour + colour /\ u * colour \in Int
    BY <2>5
  <2>7. e = b + (IF in THEN v * colour ELSE 0)
    <3> DEFINE y == u * colour
               z == (u + 1) * colour
    <3>1. y \in Int /\ z = y + colour
      BY <2>6
    <3>2. CASE lo <= col + t - 1 /\ col + t - 1 < hi
      <4>1. v = u + 1 /\ e = d + (IF in THEN colour ELSE 0)
        BY <2>3, <2>5, <3>2
      <4>2. v * colour = z
        BY <4>1
      <4> HIDE DEF y, z
      <4> QED BY <2>2, <2>4, <3>1, <4>1, <4>2, SMTT(20) DEF y
    <3>3. CASE ~(lo <= col + t - 1 /\ col + t - 1 < hi)
      <4>1. v = u /\ e = d
        BY <2>3, <2>4, <2>5, <3>3
      <4> QED BY <2>2, <4>1
    <3> QED BY <3>2, <3>3
  <2> QED BY <2>7 DEF u, v, b, d, e, W
<1>5. k \in T
  <2> HIDE DEF T
  <2>1. 0..k \subseteq T
    BY <1>3, <1>4, InductionUpto
  <2> QED BY <2>1
<1> QED BY <1>5 DEF Within, lo, hi, in, s, x

-----------------------------------------------------------------------------
(* Layers: what a segment of a run adds to the cells of its row (layers.ts:165-182). *)
LEMMA CeilAtLeast ==
  ASSUME NEW n \in Int, NEW d \in Nat \ {0}, NEW i \in Int
  PROVE  Ceil(n, d) \in Int /\ (i <= Ceil(n, d) - 1 <=> i * d < n)
<1> DEFINE c == Ceil(n, d)
           m == n + d - 1
<1>1. c = m \div d /\ m \in Int
  BY DEF Ceil
<1> HIDE DEF c, m
<1>2. c \in Int /\ (i + 1 <= c <=> d * (i + 1) <= m)
  BY <1>1, Quotient, QuotientAtLeast
<1> DEFINE y == i * d
<1>3. d * (i + 1) = y + d /\ y \in Int
  BY SMT
<1> HIDE DEF y
<1>4. d * (i + 1) <= m <=> y < n
  BY <1>1, <1>3 DEF m
<1>5. i <= c - 1 <=> i + 1 <= c
  BY <1>2
<1> QED BY <1>2, <1>4, <1>5 DEF c, y

(* A cell, mirrored, is a cell. *)
LEMMA CellsAre ==
  ASSUME NEW o \in Options
  PROVE  /\ Cells(o) \subseteq Nat \X Nat
         /\ \A cell \in Cells(o) : cell[1] * o.scale < o.height /\ cell[2] * o.scale < o.width
         /\ \A cell \in Cells(o) : Source(cell, o) \in Cells(o)
<1> DEFINE w == o.width
           h == o.height
           s == o.scale
           a == Ceil(h, s)
           b == Ceil(w, s)
<1>1. w \in Nat \ {0} /\ h \in Nat \ {0} /\ s \in Nat \ {0}
  BY DEF Options, Size
<1>2. Cells(o) = (0..(a - 1)) \X (0..(b - 1))
  BY DEF Cells
<1> HIDE DEF w, h, s
<1>3. \A i \in Int : a \in Int /\ (i <= a - 1 <=> i * s < h)
  BY <1>1, CeilAtLeast
<1>4. \A i \in Int : b \in Int /\ (i <= b - 1 <=> i * s < w)
  BY <1>1, CeilAtLeast
<1> HIDE DEF a, b
<1>5. a \in Int /\ b \in Int
  BY <1>3, <1>4
<1>6. Cells(o) \subseteq Nat \X Nat
  BY <1>2, <1>5
<1>7. ASSUME NEW cell \in Cells(o)
      PROVE  cell[1] * s < h /\ cell[2] * s < w
  <2>1. cell[1] \in Int /\ cell[2] \in Int /\ cell[1] <= a - 1 /\ cell[2] <= b - 1
    BY <1>2, <1>5
  <2> QED BY <1>3, <1>4, <2>1
<1>8. ASSUME NEW cell \in Cells(o) PROVE Source(cell, o) \in Cells(o)
  <2>1. cell[1] \in 0..(a - 1) /\ cell[2] \in 0..(b - 1)
    BY <1>2
  <2>2. b - 1 - cell[2] \in 0..(b - 1)
    BY <1>5, <2>1
  <2>3. Source(cell, o) = IF o.mirrorX THEN <<cell[1], b - 1 - cell[2]>> ELSE cell
    BY DEF Source, b, w, s
  <2> QED BY <1>2, <2>1, <2>2, <2>3
<1> QED BY <1>6, <1>7, <1>8 DEF w, h, s

(* What a segment adds to a cell is what its pixels do. *)
AddsWithin(cell, row, col, last, s) ==
  /\ Touched(cell, row, col, last, s) =>
       cell[1] = row \div s /\ Within(col, last, cell[2], s) = Overlap(col, last, cell[2], s)
  /\ ~Touched(cell, row, col, last, s) =>
       cell[1] # row \div s \/ Within(col, last, cell[2], s) = 0

(* What overlaps a cell is how much of the segment is within it. *)
LEMMA OverlapIs ==
  ASSUME NEW s \in Nat \ {0}, NEW row \in Nat, NEW col \in Nat, NEW last \in Nat, col < last,
         NEW cell \in Nat \X Nat
  PROVE  AddsWithin(cell, row, col, last, s)
<1> DEFINE x == cell[2]
           lo == x * s
           hi == (x + 1) * s
           q == col \div s
           c == Ceil(last, s)
<1>1. x \in Nat /\ x + 1 \in Int
  OBVIOUS
<1>2. lo \in Int /\ hi = lo + s /\ s * (x + 1) = hi
  <2> HIDE DEF x
  <2> QED BY <1>1
<1>3. q \in Int /\ (x + 1 <= q <=> hi <= col)
  <2>1. col \in Int
    OBVIOUS
  <2> HIDE DEF hi, x, lo
  <2>2. x + 1 <= col \div s <=> s * (x + 1) <= col
    BY <1>1, <2>1, QuotientAtLeast
  <2>3. col \div s \in Int
    BY <2>1, Quotient
  <2> QED BY <1>2, <2>2, <2>3
<1>4. c \in Int /\ (x <= c - 1 <=> lo < last)
  <2> HIDE DEF x
  <2> QED BY <1>1, CeilAtLeast, SMTT(20)
<1>5. Touched(cell, row, col, last, s) <=> cell[1] = row \div s /\ x \in q..(c - 1)
  BY DEF Touched
<1>6. Within(col, last, x, s) = Most(0, Least(hi, last) - Most(lo, col))
      /\ Overlap(col, last, x, s) = Least(hi, last) - Most(lo, col)
  BY DEF Within, Overlap
<1> HIDE DEF x, lo, hi, q, c
<1>7. x \in q..(c - 1) <=> hi > col /\ lo < last
  BY <1>1, <1>2, <1>3, <1>4
<1>8. hi > col /\ lo < last => Most(0, Least(hi, last) - Most(lo, col)) = Least(hi, last) - Most(lo, col)
  BY <1>2 DEF Most, Least
<1>9. ~(hi > col /\ lo < last) => Most(0, Least(hi, last) - Most(lo, col)) = 0
  BY <1>2 DEF Most, Least
<1> QED BY <1>5, <1>6, <1>7, <1>8, <1>9 DEF AddsWithin, x

LEMMA PlaceInRow ==
  ASSUME NEW p \in Nat, NEW w \in Nat \ {0}
  PROVE  p \div w \in Nat /\ p % w \in 0..(w - 1) /\ p = (p \div w) * w + (p % w)
<1> DEFINE row == p \div w
           col == p % w
<1>1. row \in Int /\ col \in 0..(w - 1) /\ p = w * row + col
  BY Quotient
<1>2. 0 <= row
  <2>1. w * 0 = 0 /\ 0 \in Int /\ p \in Int
    OBVIOUS
  <2>2. 0 <= p \div w <=> w * 0 <= p
    BY <2>1, QuotientAtLeast
  <2> QED BY <2>1, <2>2
<1> HIDE DEF row, col
<1>3. w * row = row * w
  BY <1>1
<1>4. row \in Nat /\ col \in 0..(w - 1) /\ p = row * w + col
  BY <1>1, <1>2, <1>3
<1> QED BY <1>4 DEF row, col

(* The sums of all the cells, over so many pixels. *)
SumsAt(pixels, o, p) == [cell \in Cells(o) |-> SumOf(pixels, cell, o)[p]]

Painting(pixels, o, p, left) == [acc |-> SumsAt(pixels, o, p), pixel |-> p, left |-> left]

LEMMA SegmentSums ==
  ASSUME NEW o \in Options, NEW pixels \in Seq(Int), NEW p \in Nat, NEW left \in Nat \ {0},
         NEW colour \in Int, p + left <= Len(pixels), Plain(pixels, p, left, colour)
  PROVE  \E k \in 1..left :
           Segment(Painting(pixels, o, p, left), colour, o.width, o.scale) =
             Painting(pixels, o, p + k, left - k)
<1> DEFINE w == o.width
           s == o.scale
           row == p \div w
           col == p % w
           k == Least(left, w - col)
           last == col + k
           acc == SumsAt(pixels, o, p)
           before == Painting(pixels, o, p, left)
           after == Segment(before, colour, w, s)
           new(cell) == IF Touched(cell, row, col, last, s)
                        THEN acc[cell] + Overlap(col, last, cell[2], s) * colour ELSE acc[cell]
<1>1. w \in Nat \ {0} /\ s \in Nat \ {0}
  BY DEF Options, Size
<1>2. row \in Nat /\ col \in 0..(w - 1) /\ p = row * w + col
  <2> HIDE DEF w
  <2> QED BY <1>1, PlaceInRow
<1>3. k \in 1..left /\ col + k <= w /\ col \in Nat /\ last \in Nat /\ col < last
  <2> HIDE DEF w, col
  <2> QED BY <1>1, <1>2 DEF Least
<1>4. before.acc = acc /\ before.pixel = p /\ before.left = left /\ DOMAIN acc = Cells(o)
  BY DEF Painting, SumsAt
<1>5. after = [acc |-> [cell \in Cells(o) |-> new(cell)], pixel |-> p + k, left |-> left - k]
  <2> HIDE DEF before, acc
  <2> QED BY <1>4 DEF Segment
<1>6. ASSUME NEW cell \in Cells(o) PROVE new(cell) = SumOf(pixels, cell, o)[p + k]
  <2> DEFINE f == SumOf(pixels, cell, o)
             W == Within(col, last, cell[2], s)
             V == Overlap(col, last, cell[2], s)
             in == cell[1] = row \div s
  <2>1. cell \in Nat \X Nat
    BY CellsAre
  <2>2. Sums(f, pixels, cell, o)
    BY SumFacts
  <2>3. Len(pixels) \in Nat
    BY LenProperties
  <2>4. p + k <= Len(pixels) /\ p \in 0..Len(pixels)
    <3> DEFINE n == Len(pixels)
    <3>1. p + left <= n /\ n \in Nat
      BY <2>3
    <3> HIDE DEF n, k
    <3>2. p + k <= n /\ p \in 0..n
      BY <1>3, <3>1
    <3> QED BY <3>2 DEF n
  <2>5. acc[cell] = f[p] /\ f[p] \in Int
    BY <2>2, <2>4 DEF SumsAt, Sums
  <2>6. Plain(pixels, p, k, colour)
    <3> HIDE DEF k
    <3>1. 1..k \subseteq 1..left
      BY <1>3
    <3> QED BY <3>1 DEF Plain
  <2> HIDE DEF f, row, col, k, w, s
  <2>7. f[p + k] = f[p] + (IF in THEN W * colour ELSE 0)
    <3>1. row \in Nat /\ col \in Nat /\ k \in Nat /\ col + k <= o.width /\ p = row * o.width + col
      BY <1>2, <1>3 DEF w
    <3> QED BY <2>1, <2>2, <2>4, <2>6, <3>1, RowAdds, SMTT(20) DEF s
  <2>8. /\ Touched(cell, row, col, last, s) => in /\ W = V
        /\ ~Touched(cell, row, col, last, s) => ~in \/ W = 0
    <3> HIDE DEF last
    <3>1. row \in Nat /\ col \in Nat /\ last \in Nat /\ col < last /\ s \in Nat \ {0}
      BY <1>1, <1>2, <1>3
    <3>2. AddsWithin(cell, row, col, last, s)
      BY <2>1, <3>1, OverlapIs
    <3> QED BY <3>2 DEF AddsWithin
  <2> HIDE DEF W, V, in, last, acc
  <2>9. W = 0 => W * colour = 0
    OBVIOUS
  <2>10. new(cell) = f[p + k]
    <3>1. CASE Touched(cell, row, col, last, s)
      <4>1. new(cell) = acc[cell] + W * colour
        BY <2>8, <3>1 DEF V
      <4> QED BY <2>5, <2>7, <2>8, <3>1, <4>1
    <3>2. CASE ~Touched(cell, row, col, last, s)
      <4>1. f[p + k] = f[p] + 0
        BY <2>7, <2>8, <2>9, <3>2
      <4>2. new(cell) = acc[cell]
        BY <3>2
      <4> QED BY <2>5, <4>1, <4>2
    <3> QED BY <3>1, <3>2
  <2> QED BY <2>10 DEF f
<1> HIDE DEF new, k, row, col, last, acc
<1>7. [cell \in Cells(o) |-> new(cell)] = SumsAt(pixels, o, p + k)
  BY <1>6 DEF SumsAt
<1>8. after = Painting(pixels, o, p + k, left - k)
  <2> HIDE DEF after
  <2> QED BY <1>5, <1>7 DEF Painting
<1> QED BY <1>3, <1>8

-----------------------------------------------------------------------------
(* Layers: what a run adds, segment by segment. *)
SegmentsOf(acc, pixel, length, colour, width, scale) ==
  CHOOSE f : f = [n \in 0..length |->
                    IF n = 0 THEN [acc |-> acc, pixel |-> pixel, left |-> length]
                    ELSE Segment(f[n - 1], colour, width, scale)]

LEMMA PaintedSums ==
  ASSUME NEW o \in Options, NEW pixels \in Seq(Int), NEW p \in Nat, NEW length \in Nat,
         NEW colour \in Int, p + length <= Len(pixels), Plain(pixels, p, length, colour)
  PROVE  Painted(SumsAt(pixels, o, p), p, length, colour, o.width, o.scale)
           = SumsAt(pixels, o, p + length)
<1> DEFINE At(l) == Painting(pixels, o, p + length - l, l)
           G == {At(l) : l \in 0..length}
           Step(s) == Segment(s, colour, o.width, o.scale)
           F == [n \in 1..length |-> [s \in G |-> Step(s)]]
           c == At(length)
           f == SegmentsOf(SumsAt(pixels, o, p), p, length, colour, o.width, o.scale)
<1>1. c = [acc |-> SumsAt(pixels, o, p), pixel |-> p, left |-> length]
  <2>1. p + length - length = p
    OBVIOUS
  <2> QED BY <2>1 DEF Painting
<1>2. ASSUME NEW l \in 0..length, l # 0 PROVE \E k \in 0..(l - 1) : Step(At(l)) = At(k)
  <2> DEFINE q == p + length - l
  <2>1. q \in Nat /\ l \in Nat \ {0} /\ q + l = p + length
    BY <1>2
  <2>2. Plain(pixels, q, l, colour)
    <3> SUFFICES ASSUME NEW t \in 1..l PROVE pixels[q + t] = colour
      BY DEF Plain
    <3>1. length - l + t \in 1..length /\ p + (length - l + t) = q + t
      OBVIOUS
    <3> HIDE DEF q
    <3>2. pixels[p + (length - l + t)] = colour
      BY <3>1 DEF Plain
    <3> QED BY <3>1, <3>2
  <2>3. q + l <= Len(pixels)
    BY <2>1
  <2> HIDE DEF q
  <2>4. PICK k \in 1..l : Step(Painting(pixels, o, q, l)) = Painting(pixels, o, q + k, l - k)
    BY <2>1, <2>2, <2>3, SegmentSums
  <2>5. l - k \in 0..(l - 1) /\ q + k = p + length - (l - k)
    BY <2>1
  <2> QED BY <2>4, <2>5 DEF q
<1>3. Step(At(0)) = At(0)
  BY DEF Segment, Painting
<1>4. \A s \in G : Step(s) \in G
  <2> SUFFICES ASSUME NEW l \in 0..length PROVE Step(At(l)) \in G
    OBVIOUS
  <2>1. CASE l = 0
    BY <1>3, <2>1
  <2>2. CASE l # 0
    <3> HIDE DEF Step, At
    <3>1. PICK k \in 0..(l - 1) : Step(At(l)) = At(k)
      BY <1>2, <2>2
    <3>2. k \in 0..length
      OBVIOUS
    <3> QED BY <3>1, <3>2
  <2> QED BY <2>1, <2>2
<1>5. c \in G
  <2>1. length \in 0..length
    OBVIOUS
  <2> HIDE DEF At
  <2> QED BY <2>1
<1> HIDE DEF G, Step, c
<1>6. F \in [1..length -> [G -> G]]
  BY <1>4
<1>7. PICK h \in [0..length -> G] : IsLoop(h, length, c, F)
  <2> HIDE DEF F
  <2> QED BY <1>5, <1>6, LoopExists
<1>8. h[0] = c /\ \A n \in 1..length : h[n] = Step(h[n - 1])
  <2>1. \A n \in 1..length : h[n - 1] \in G
    OBVIOUS
  <2> QED BY <1>7, <2>1 DEF IsLoop
<1>9. h = [n \in 0..length |-> IF n = 0 THEN c ELSE Step(h[n - 1])]
  <2>1. \A n \in 0..length : n # 0 => n \in 1..length
    OBVIOUS
  <2> HIDE DEF F
  <2> QED BY <1>8, <2>1
<1>10. f = [n \in 0..length |-> IF n = 0 THEN c ELSE Step(f[n - 1])]
  BY <1>1, <1>9 DEF SegmentsOf, Step
<1>11. Painted(SumsAt(pixels, o, p), p, length, colour, o.width, o.scale) = f[length].acc
  BY DEF Painted, SegmentsOf
<1> HIDE DEF f, F
<1> DEFINE T == {n \in 0..length : \E l \in 0..(length - n) : f[n] = At(l)}
<1>12. 0 \in T
  <2>1. f[0] = At(length) /\ length \in 0..(length - 0)
    BY <1>10 DEF c
  <2> HIDE DEF At
  <2> QED BY <2>1
<1>13. ASSUME NEW n \in 1..length, n - 1 \in T PROVE n \in T
  <2> HIDE DEF At
  <2>1. PICK l \in 0..(length - (n - 1)) : f[n - 1] = At(l)
    BY <1>13
  <2>2. f[n] = Step(At(l))
    BY <1>10, <2>1
  <2>3. CASE l = 0
    <3>1. f[n] = At(0) /\ 0 \in 0..(length - n)
      BY <1>3, <2>2, <2>3 DEF Step
    <3> QED BY <3>1
  <2>4. CASE l # 0
    <3>1. l \in 0..length
      OBVIOUS
    <3>2. PICK k \in 0..(l - 1) : Step(At(l)) = At(k)
      BY <1>2, <2>4, <3>1 DEF Step
    <3>3. k \in 0..(length - n)
      BY <2>4
    <3> QED BY <2>2, <3>2, <3>3
  <2> QED BY <2>3, <2>4
<1>14. 0..length \subseteq T
  <2> HIDE DEF T
  <2> QED BY <1>12, <1>13, InductionUpto
<1>15. f[length] = At(0)
  <2> HIDE DEF At
  <2>1. length \in T
    BY <1>14
  <2>2. PICK l \in 0..(length - length) : f[length] = At(l)
    BY <2>1
  <2>3. l = 0
    OBVIOUS
  <2> QED BY <2>2, <2>3
<1>16. At(0).acc = SumsAt(pixels, o, p + length)
  <2>1. p + length - 0 = p + length
    OBVIOUS
  <2> QED BY <2>1 DEF Painting
<1> QED BY <1>11, <1>15, <1>16

(* A black run adds nothing. *)
LEMMA BlackAdds ==
  ASSUME NEW o \in Options, NEW pixels \in Seq(Int), NEW p \in Nat, NEW length \in Nat,
         p + length <= Len(pixels), Plain(pixels, p, length, 0)
  PROVE  SumsAt(pixels, o, p + length) = SumsAt(pixels, o, p)
<1>1. ASSUME NEW cell \in Cells(o)
      PROVE  SumOf(pixels, cell, o)[p + length] = SumOf(pixels, cell, o)[p]
  <2> DEFINE f == SumOf(pixels, cell, o)
             n == Len(pixels)
             T == {t \in 0..length : f[p + t] = f[p]}
  <2>0. n \in Nat /\ p + length <= n
    BY LenProperties
  <2>1. Sums(f, pixels, cell, o)
    BY SumFacts
  <2>2. f \in [0..n -> Int] /\ \A q \in 1..n : f[q] = f[q - 1] + (IF CellOf(q - 1, o) = cell THEN pixels[q] ELSE 0)
    BY <2>1 DEF Sums
  <2> HIDE DEF f, n
  <2>3. 0 \in T
    <3>1. p + 0 = p
      OBVIOUS
    <3> QED BY <3>1
  <2>4. ASSUME NEW t \in 1..length, t - 1 \in T PROVE t \in T
    <3>1. p + t \in 1..n /\ (p + t) - 1 = p + (t - 1) /\ p + (t - 1) \in 0..n
      BY <2>0
    <3>2. pixels[p + t] = 0
      BY DEF Plain
    <3>3. f[p + t] = f[(p + t) - 1] + 0
      BY <2>2, <3>1, <3>2
    <3>4. f[(p + t) - 1] \in Int
      BY <2>2, <3>1
    <3>5. f[p + (t - 1)] = f[p]
      BY <2>4
    <3>6. f[p + t] = f[p]
      BY <3>1, <3>3, <3>4, <3>5
    <3> QED BY <3>6
  <2>5. length \in T
    <3> HIDE DEF T
    <3>1. 0..length \subseteq T
      BY <2>3, <2>4, InductionUpto
    <3> QED BY <3>1
  <2> QED BY <2>5 DEF f
<1> QED BY <1>1 DEF SumsAt

-----------------------------------------------------------------------------
(* A cell has as many pixels as its area. *)
Ones(pixels) == [p \in DOMAIN pixels |-> 1]

LEMMA AreaIs ==
  ASSUME NEW o \in Options, NEW cell \in Cells(o), NEW pixels \in Seq(Int),
         Len(pixels) = o.width * o.height
  PROVE  Total(Ones(pixels), cell, o) = Area(cell, o)
<1> DEFINE w == o.width
           h == o.height
           s == o.scale
           y == cell[1]
           x == cell[2]
           ones == Ones(pixels)
           f == SumOf(ones, cell, o)
           N == w * h
           X == Within(0, w, x, s)
           Y(r) == Within(0, r, y, s)
           T == {r \in 0..h : f[r * w] = Y(r) * X}
<1>1. w \in Nat \ {0} /\ h \in Nat \ {0} /\ s \in Nat \ {0}
  BY DEF Options, Size
<1>2. y \in Nat /\ x \in Nat /\ cell \in Nat \X Nat /\ y * s < h /\ x * s < w
  BY CellsAre
<1>3. DOMAIN pixels = 1..N
  BY LenProperties
<1>4. N \in Nat
  <2> HIDE DEF w, h
  <2> QED BY <1>1
<1> HIDE DEF N
<1>5. ones \in Seq(Int) /\ Len(ones) = N /\ \A p \in 1..N : ones[p] = 1
  <2>1. ones = [p \in 1..N |-> 1]
    BY <1>3 DEF Ones
  <2> QED BY <1>4, <2>1
<1> HIDE DEF ones
<1>6. Sums(f, ones, cell, o) /\ Total(ones, cell, o) = f[N]
  BY <1>5, SumFacts
<1> HIDE DEF f, w, h, s, x, y
<1>7. \A r \in 0..h : r * w \in 0..N
  <2> TAKE r \in 0..h
  <2>1. h - r \in Nat /\ w * h = r * w + (h - r) * w
    BY <1>1
  <2>2. r * w \in Nat /\ (h - r) * w \in Nat
    BY <1>1, <2>1
  <2> QED BY <2>1, <2>2 DEF N
<1> DEFINE lo == y * s
           hi == (y + 1) * s
<1>8. lo \in Nat /\ hi = lo + s
  BY <1>1, <1>2
<1>a. \A r \in Int : Y(r) = Most(0, Least(hi, r) - Most(lo, 0))
  BY DEF Within
<1>b. X \in Int
  <2> DEFINE a == (x + 1) * s
             b == x * s
  <2>1. a \in Int /\ b \in Int
    BY <1>1, <1>2
  <2>2. X = Most(0, Least(a, w) - Most(b, 0))
    BY DEF Within
  <2> HIDE DEF a, b, X
  <2> QED BY <1>1, <2>1, <2>2 DEF Most, Least
<1> HIDE DEF lo, hi, X, Y
<1>9. 0 \in T
  <2>1. Y(0) = 0 /\ 0 * X = 0 /\ 0 * w = 0
    BY <1>1, <1>8, <1>a, <1>b, SMTT(20) DEF Most, Least
  <2>2. f[0] = 0
    BY <1>6 DEF Sums
  <2> QED BY <1>1, <2>1, <2>2
<1>10. ASSUME NEW k \in 1..h, k - 1 \in T PROVE k \in T
  <2> DEFINE r == k - 1
             a == r * w
  <2>1. r \in Nat /\ r \in 0..h /\ k \in 0..h /\ k = r + 1 /\ f[r * w] = Y(r) * X
    BY <1>10
  <2> HIDE DEF r
  <2>2. k * w = a + w /\ a \in 0..N /\ a + w \in 0..N /\ a = r * w + 0
    <3>1. a \in 0..N /\ k * w \in 0..N
      BY <1>7, <2>1
    <3>2. (r + 1) * w = r * w + w
      BY <1>1, <2>1
    <3> QED BY <1>4, <2>1, <3>1, <3>2
  <2> HIDE DEF a
  <2>3. Plain(ones, a, w, 1)
    <3> SUFFICES ASSUME NEW t \in 1..w PROVE ones[a + t] = 1
      BY DEF Plain
    <3>1. a + t \in 1..N
      BY <1>1, <1>4, <2>2
    <3> QED BY <1>5, <3>1
  <2>4. f[a + w] = f[a] + (IF y = r \div s THEN Within(0, 0 + w, x, s) * 1 ELSE 0)
    <3>1. a \in Nat /\ w \in Nat /\ 0 + w <= o.width /\ a = r * o.width + 0 /\ a + w <= Len(ones) /\ 1 \in Int /\ 0 \in Nat
      BY <1>1, <1>4, <1>5, <2>2 DEF w
    <3> QED BY <1>2, <1>5, <1>6, <2>1, <2>3, <3>1, RowAdds DEF s, x, y
  <2>5. 0 + w = w
    BY <1>1
  <2>6. f[k * w] = Y(r) * X + (IF y = r \div s THEN X * 1 ELSE 0)
    BY <2>1, <2>2, <2>4, <2>5 DEF a, X
  <2>7. y = r \div s <=> lo <= r /\ r < hi
    <3> DEFINE q == r \div s
    <3>1. q \in Int /\ y \in Int /\ y + 1 \in Int /\ r \in Int
      BY <1>1, <1>2, <2>1, Quotient
    <3>2. y <= r \div s <=> s * y <= r
      BY <1>1, <3>1, QuotientAtLeast
    <3>3. y + 1 <= r \div s <=> s * (y + 1) <= r
      BY <1>1, <3>1, QuotientAtLeast
    <3>4. s * y = lo /\ s * (y + 1) = hi
      BY <1>1, <1>2 DEF lo, hi
    <3>5. (y <= q <=> lo <= r) /\ (y + 1 <= q <=> hi <= r)
      BY <3>2, <3>3, <3>4
    <3> HIDE DEF q
    <3>6. y = q <=> lo <= r /\ r < hi
      BY <1>1, <1>8, <3>1, <3>5
    <3> QED BY <3>6 DEF q
  <2>8. Y(k) = Y(r) + (IF lo <= r /\ r < hi THEN 1 ELSE 0) /\ Y(r) \in Int
    <3>1. Y(k) = Most(0, Least(hi, r + 1) - Most(lo, 0)) /\ Y(r) = Most(0, Least(hi, r) - Most(lo, 0))
      BY <1>a, <2>1
    <3> QED BY <1>1, <1>8, <2>1, <3>1 DEF Most, Least
  <2> DEFINE u == Y(r)
             v == Y(k)
  <2>9. u \in Int /\ (v = u \/ v = u + 1) /\ (v = u + 1 <=> y = r \div s)
    BY <2>7, <2>8
  <2> HIDE DEF u, v
  <2>10. X * 1 = X /\ (u + 1) * X = u * X + X /\ u * X \in Int
    BY <1>b, <2>9
  <2>11. f[k * w] = v * X
    <3>1. CASE y = r \div s
      BY <2>6, <2>9, <2>10, <3>1 DEF u
    <3>2. CASE y # r \div s
      <4>1. f[k * w] = u * X + 0 /\ v = u
        BY <2>6, <2>9, <3>2 DEF u
      <4> DEFINE z == u * X
      <4>2. z \in Int /\ f[k * w] = z + 0 /\ v * X = z
        BY <2>10, <4>1
      <4> HIDE DEF z
      <4> QED BY <4>2
    <3> QED BY <3>1, <3>2
  <2> QED BY <2>1, <2>11 DEF v
<1>11. f[h * w] = Y(h) * X
  <2> HIDE DEF T
  <2>1. h \in Nat /\ h \in 0..h
    BY <1>1
  <2>2. 0..h \subseteq T
    BY <1>9, <1>10, <2>1, InductionUpto
  <2> QED BY <2>1, <2>2 DEF T
<1>12. Y(h) = Least(s, h - y * s)
  <2>1. Y(h) = Most(0, Least(hi, h) - Most(lo, 0))
    BY <1>1, <1>a
  <2>2. lo < h
    BY <1>2 DEF lo
  <2>3. Y(h) = Least(s, h - lo)
    BY <1>1, <1>8, <2>1, <2>2 DEF Most, Least
  <2> QED BY <2>3 DEF lo
<1>13. X = Least(s, w - x * s)
  <2> DEFINE a == (x + 1) * s
             b == x * s
  <2>1. b \in Nat /\ a = b + s /\ b < w
    BY <1>1, <1>2
  <2>2. X = Most(0, Least(a, w) - Most(b, 0))
    BY DEF Within, X
  <2> HIDE DEF a, b
  <2>3. X = Least(s, w - b)
    BY <1>1, <2>1, <2>2 DEF Most, Least
  <2> QED BY <2>3 DEF b
<1>14. h * w = N
  BY <1>1 DEF N
<1>15. Area(cell, o) = Least(s, h - y * s) * Least(s, w - x * s)
  BY DEF Area, s, h, w, x, y
<1> QED BY <1>6, <1>11, <1>12, <1>13, <1>14, <1>15 DEF ones

-----------------------------------------------------------------------------
(* Layers: the bytes of a number, and what they are read as. *)
Number(more) ==
  CASE Len(more) = 0 -> 0
    [] Len(more) = 1 -> more[1]
    [] Len(more) = 2 -> more[1] * 256 + more[2]
    [] OTHER -> (more[1] * 256 + more[2]) * 256 + more[3]

MoreIs(more, rest) == more \in Seq(0..255) /\ Len(more) \in 0..3 /\ Number(more) = rest

(* Three bytes are enough. *)
Fits3(rest) == rest \in Nat /\ rest < 16777216

LEMMA MoreOfTwo ==
  ASSUME NEW rest \in Nat, rest < 65536, rest > 0
  PROVE  MoreIs(<<rest \div 256, rest % 256>>, rest)
<1> DEFINE a == rest \div 256
           b == rest % 256
<1>1. a \in 0..255 /\ b \in 0..255 /\ a * 256 + b = rest
  BY SMT
<1> HIDE DEF a, b
<1>2. MoreIs(<<a, b>>, rest)
  BY SMT, <1>1 DEF MoreIs, Number
<1> QED BY SMT, <1>2 DEF a, b

LEMMA MoreOfThree ==
  ASSUME NEW rest \in Nat, rest < 16777216, rest > 65535
  PROVE  MoreIs(<<rest \div 65536, (rest \div 256) % 256, rest % 256>>, rest)
<1> DEFINE a == rest \div 65536
           b == (rest \div 256) % 256
           c == rest % 256
<1>1. a \in 0..255 /\ b \in 0..255 /\ c \in 0..255 /\ (a * 256 + b) * 256 + c = rest
  BY SMT
<1> HIDE DEF a, b, c
<1>2. MoreIs(<<a, b, c>>, rest)
  BY SMT, <1>1 DEF MoreIs, Number
<1> QED BY SMT, <1>2 DEF a, b, c

LEMMA MoreFacts ==
  ASSUME NEW rest, Fits3(rest), NEW steps \in BOOLEAN
  PROVE  MoreIs(MoreBytes(rest, steps), rest)
<1>1. MoreIs(MoreBytes(rest, TRUE), rest)
  <2> DEFINE more == MoreBytes(rest, TRUE)
  <2>0. rest \in Nat /\ rest < 16777216
    BY SMT DEF Fits3
  <2>1. ASSUME rest = 0 PROVE MoreIs(more, rest)
    <3>1. more = <<>>
      BY SMT, <2>1 DEF MoreBytes
    <3> HIDE DEF more
    <3> QED BY SMT, <2>1, <3>1 DEF MoreIs, Number
  <2>2. ASSUME 0 < rest /\ rest < 65536 PROVE MoreIs(more, rest)
    <3>1. more = <<rest \div 256, rest % 256>>
      BY SMT, <2>0, <2>2 DEF MoreBytes
    <3> HIDE DEF more
    <3> QED BY SMT, <2>0, <2>2, <3>1, MoreOfTwo
  <2>3. ASSUME rest > 65535 PROVE MoreIs(more, rest)
    <3>1. more = <<rest \div 65536, (rest \div 256) % 256, rest % 256>>
      BY SMT, <2>0, <2>3 DEF MoreBytes
    <3> HIDE DEF more
    <3> QED BY SMT, <2>0, <2>3, <3>1, MoreOfThree
  <2> HIDE DEF more
  <2>5. MoreIs(more, rest)
    BY SMT, <2>0, <2>1, <2>2, <2>3
  <2> QED BY Zenon, <2>5 DEF more
<1>2. MoreIs(MoreBytes(rest, FALSE), rest)
  <2> DEFINE more == MoreBytes(rest, FALSE)
  <2>0. rest \in Nat /\ rest < 16777216
    BY SMT DEF Fits3
  <2>1. ASSUME rest = 0 PROVE MoreIs(more, rest)
    <3>1. more = <<>>
      BY SMT, <2>1 DEF MoreBytes
    <3> HIDE DEF more
    <3> QED BY SMT, <2>1, <3>1 DEF MoreIs, Number
  <2>2. ASSUME 0 < rest /\ rest < 256 PROVE MoreIs(more, rest)
    <3>1. more = <<rest>>
      BY SMT, <2>0, <2>2 DEF MoreBytes
    <3>2. MoreIs(<<rest>>, rest)
      BY SMT, <2>0, <2>2 DEF MoreIs, Number
    <3> HIDE DEF more
    <3> QED BY SMT, <3>1, <3>2
  <2>3. ASSUME 255 < rest /\ rest < 65536 PROVE MoreIs(more, rest)
    <3>1. more = <<rest \div 256, rest % 256>>
      BY SMT, <2>0, <2>3 DEF MoreBytes
    <3> HIDE DEF more
    <3> QED BY SMT, <2>0, <2>3, <3>1, MoreOfTwo
  <2>4. ASSUME rest > 65535 PROVE MoreIs(more, rest)
    <3>1. more = <<rest \div 65536, (rest \div 256) % 256, rest % 256>>
      BY SMT, <2>0, <2>4 DEF MoreBytes
    <3> HIDE DEF more
    <3> QED BY SMT, <2>0, <2>4, <3>1, MoreOfThree
  <2> HIDE DEF more
  <2>5. MoreIs(more, rest)
    BY SMT, <2>0, <2>1, <2>2, <2>3, <2>4
  <2> QED BY Zenon, <2>5 DEF more
<1> QED BY Zenon, <1>1, <1>2

HighOf(data, first, extra) ==
  CHOOSE f : f = [k \in 0..extra |-> IF k = 0 THEN 0 ELSE f[k - 1] * 256 + Byte(data, first + k)]

HighSums(f, data, first, extra) ==
  f[0] = 0 /\ \A k \in 1..extra : f[k] = f[k - 1] * 256 + Byte(data, first + k)

LEMMA HighFacts ==
  ASSUME NEW data \in Seq(Int), NEW first \in Nat, NEW extra \in Nat
  PROVE  HighSums(HighOf(data, first, extra), data, first, extra)
<1> DEFINE d == [k \in 1..extra |-> Byte(data, first + k)]
           F == [k \in 1..extra |-> [s \in Int |-> s * 256 + d[k]]]
           a == HighOf(data, first, extra)
<1>1. d \in [1..extra -> Int]
  <2> SUFFICES ASSUME NEW k \in 1..extra PROVE Byte(data, first + k) \in Int
    OBVIOUS
  <2>1. Len(data) \in Nat /\ \A j \in 1..Len(data) : data[j] \in Int
    BY LenProperties, ElementOfSeq
  <2>2. first + k \in Nat /\ first + k >= 1
    OBVIOUS
  <2> DEFINE j == first + k
  <2> HIDE DEF j
  <2> QED BY <2>1, <2>2 DEF Byte, j
<1>2. F \in [1..extra -> [Int -> Int]]
  <2> HIDE DEF d
  <2> QED BY <1>1
<1>3. PICK h \in [0..extra -> Int] : IsLoop(h, extra, 0, F)
  <2> HIDE DEF F
  <2>1. 0 \in Int
    OBVIOUS
  <2> QED BY <1>2, <2>1, LoopExists, Zenon
<1>4. h[0] = 0 /\ \A k \in 1..extra : h[k] = h[k - 1] * 256 + d[k]
  <2>1. \A k \in 1..extra : h[k - 1] \in Int
    OBVIOUS
  <2> HIDE DEF d
  <2> QED BY <1>3, <2>1 DEF IsLoop
<1>5. h = [k \in 0..extra |-> IF k = 0 THEN 0 ELSE h[k - 1] * 256 + Byte(data, first + k)]
  <2>1. \A k \in 1..extra : d[k] = Byte(data, first + k)
    OBVIOUS
  <2> HIDE DEF F, d
  <2>2. \A k \in 0..extra : h[k] = IF k = 0 THEN 0 ELSE h[k - 1] * 256 + Byte(data, first + k)
    BY <1>4, <2>1
  <2> QED BY <2>2
<1> HIDE DEF F, d
<1>6. a = [k \in 0..extra |-> IF k = 0 THEN 0 ELSE a[k - 1] * 256 + Byte(data, first + k)]
  BY <1>5, ZenonT(30) DEF HighOf
<1> HIDE DEF a
<1>7. a[0] = 0 /\ \A k \in 1..extra : a[k] = a[k - 1] * 256 + Byte(data, first + k)
  BY <1>6
<1> QED BY <1>7 DEF a, HighSums

(* These bytes are at a place. *)
Holds(data, i, bytes) ==
  /\ i + Len(bytes) - 1 <= Len(data)
  /\ \A j \in 1..Len(bytes) : data[i - 1 + j] = bytes[j]

LEMMA HighIs ==
  ASSUME NEW data \in Seq(Int), NEW first \in Nat, NEW more \in Seq(0..255), Len(more) \in 0..3,
         Holds(data, first + 1, more)
  PROVE  HighOf(data, first, Len(more))[Len(more)] = Number(more)
<1> DEFINE m == Len(more)
           f == HighOf(data, first, m)
<1>1. m \in 0..3 /\ Len(data) \in Nat /\ \A k \in 1..m : more[k] \in 0..255
  BY LenProperties, ElementOfSeq
<1>2. f[0] = 0 /\ \A k \in 1..m : f[k] = f[k - 1] * 256 + Byte(data, first + k)
  <2>1. m \in Nat
    BY <1>1
  <2> HIDE DEF m, f
  <2>2. HighSums(HighOf(data, first, m), data, first, m)
    BY <2>1, HighFacts
  <2> QED BY <2>2 DEF HighSums, f
<1>3. \A k \in 1..m : Byte(data, first + k) = more[k]
  <2> TAKE k \in 1..m
  <2>1. first + k <= Len(data) /\ (first + 1) - 1 + k = first + k
    <3> DEFINE n == Len(data)
    <3>1. first + 1 + m - 1 <= n /\ n \in Nat
      BY <1>1 DEF Holds
    <3> HIDE DEF n, m
    <3>2. first + k <= n /\ (first + 1) - 1 + k = first + k
      BY <1>1, <3>1
    <3> QED BY <3>2 DEF n
  <2>2. data[(first + 1) - 1 + k] = more[k]
    BY DEF Holds
  <2> QED BY <2>1, <2>2 DEF Byte
<1> HIDE DEF f, m
<1>4. \A k \in 1..m : f[k] = f[k - 1] * 256 + more[k] /\ more[k] \in 0..255
  BY <1>1, <1>2, <1>3
<1>b. ASSUME NEW k \in 1..m, NEW j \in Int, j = k - 1
      PROVE  f[k] = f[j] * 256 + more[k] /\ more[k] \in Int
  <2>1. f[k] = f[k - 1] * 256 + more[k] /\ more[k] \in 0..255
    BY <1>4
  <2> DEFINE v == more[k]
  <2>2. v \in 0..255
    BY <2>1
  <2> HIDE DEF v
  <2>3. v \in Int
    BY <2>2
  <2> QED BY <1>b, <2>1, <2>3 DEF v
<1>5. CASE m = 0
  BY <1>2, <1>5 DEF Number, f, m
<1>6. CASE m = 1
  <2>1. f[1] = f[0] * 256 + more[1] /\ more[1] \in Int
    BY <1>6, <1>b
  <2>2. f[1] = more[1]
    BY <1>2, <2>1
  <2>3. Number(more) = more[1]
    BY <1>6 DEF Number, m
  <2> QED BY <1>6, <2>2, <2>3 DEF f, m
<1>7. CASE m = 2
  <2>1. f[1] = f[0] * 256 + more[1] /\ more[1] \in Int /\ f[2] = f[1] * 256 + more[2]
    <3>1. 1 \in 1..m /\ 2 \in 1..m /\ 0 = 1 - 1 /\ 1 = 2 - 1
      BY <1>7
    <3> QED BY <1>b, <3>1
  <2>2. f[1] = more[1]
    BY <1>2, <2>1
  <2>3. Number(more) = more[1] * 256 + more[2]
    BY <1>7 DEF Number, m
  <2> QED BY <1>7, <2>1, <2>2, <2>3 DEF f, m
<1>8. CASE m = 3
  <2>1. f[1] = f[0] * 256 + more[1] /\ more[1] \in Int /\ f[2] = f[1] * 256 + more[2]
        /\ f[3] = f[2] * 256 + more[3]
    <3>1. 1 \in 1..m /\ 2 \in 1..m /\ 3 \in 1..m /\ 0 = 1 - 1 /\ 1 = 2 - 1 /\ 2 = 3 - 1
      BY <1>8
    <3> QED BY <1>b, <3>1
  <2>2. f[1] = more[1]
    BY <1>2, <2>1
  <2>3. Number(more) = (more[1] * 256 + more[2]) * 256 + more[3]
    BY <1>8 DEF Number, m
  <2> QED BY <1>8, <2>1, <2>2, <2>3 DEF f, m
<1> QED BY <1>1, <1>5, <1>6, <1>7, <1>8

-----------------------------------------------------------------------------
(* Layers: the bytes a run is written as. *)
LongForm(length, colour, more) ==
  LET head == 16 * Len(more) + (length % 16) IN
  (CASE colour = 0 -> <<head>>
     [] colour = 255 -> <<192 + head>>
     [] OTHER -> <<64 + head, colour>>) \o more

(* The three ways to write a run. *)
Written(bytes, length, colour, before) ==
  \/ \E d \in 0..15 : colour = before + d /\ length < 256 /\ bytes = <<144 + d, length>>
  \/ \E d \in 1..15 : colour = before - d /\ length < 256 /\ bytes = <<176 + d, length>>
  \/ \E more : MoreIs(more, length \div 16) /\ bytes = LongForm(length, colour, more)

LEMMA WrittenInSteps ==
  ASSUME NEW run, run.length \in Nat, run.colour \in 0..255, NEW before \in 0..255,
         MoreIs(MoreBytes(run.length \div 16, TRUE), run.length \div 16)
  PROVE  Written(RunBytes(run, before, TRUE), run.length, run.colour, before)
<1> DEFINE length == run.length
           colour == run.colour
           more == MoreBytes(length \div 16, TRUE)
           bytes == RunBytes(run, before, TRUE)
           step == colour - before
<1>1. bytes = CASE length < 256 /\ 0 <= step /\ step < 16 -> <<144 + step, length>>
                [] length < 256 /\ -16 < step /\ step < 0 -> <<176 - step, length>>
                [] OTHER -> LongForm(length, colour, more)
  BY SMT DEF RunBytes, LongForm
<1>2. length \in Nat /\ colour \in 0..255 /\ MoreIs(more, length \div 16)
  OBVIOUS
<1> HIDE DEF bytes, more, length, colour
<1>3. ASSUME length < 256 /\ 0 <= step /\ step < 16 PROVE Written(bytes, length, colour, before)
  <2>1. step \in 0..15 /\ colour = before + step
    BY <1>2, <1>3
  <2>2. ~(length < 256 /\ -16 < step /\ step < 0)
    BY <1>2, <1>3
  <2> HIDE DEF step
  <2>3. bytes = <<144 + step, length>>
    BY <1>1, <1>3, <2>2
  <2> QED BY <1>3, <2>1, <2>3 DEF Written
<1>4. ASSUME length < 256 /\ step < 0 /\ -16 < step PROVE Written(bytes, length, colour, before)
  <2>1. -step \in 1..15 /\ colour = before - (-step) /\ 176 - step = 176 + (-step)
    BY <1>2, <1>4
  <2>2. bytes = <<176 - step, length>>
    BY <1>1, <1>2, <1>4
  <2> QED BY <1>4, <2>1, <2>2 DEF Written
<1>5. ASSUME length >= 256 \/ step > 15 \/ step < -15 PROVE Written(bytes, length, colour, before)
  <2>1. ~(length < 256 /\ -16 < step /\ step < 0) /\ ~(length < 256 /\ 0 <= step /\ step < 16)
    BY <1>2, <1>5
  <2> HIDE DEF step
  <2>2. bytes = LongForm(length, colour, more)
    BY <1>1, <2>1
  <2> QED BY <1>2, <2>2 DEF Written
<1>6. Written(bytes, length, colour, before)
  BY <1>2, <1>3, <1>4, <1>5
<1> QED BY Zenon, <1>6 DEF bytes, length, colour

LEMMA WrittenPlainly ==
  ASSUME NEW run, NEW before,
         MoreIs(MoreBytes(run.length \div 16, FALSE), run.length \div 16)
  PROVE  Written(RunBytes(run, before, FALSE), run.length, run.colour, before)
<1> DEFINE more == MoreBytes(run.length \div 16, FALSE)
           bytes == RunBytes(run, before, FALSE)
           step == run.colour - before
<1>1. bytes = CASE FALSE /\ run.length < 256 /\ 0 <= step /\ step < 16 -> <<144 + step, run.length>>
                [] FALSE /\ run.length < 256 /\ -16 < step /\ step < 0 -> <<176 - step, run.length>>
                [] OTHER -> LongForm(run.length, run.colour, more)
  BY SMT DEF RunBytes, LongForm
<1> HIDE DEF bytes, more, step
<1>2. bytes = LongForm(run.length, run.colour, more)
  BY <1>1
<1>3. Written(bytes, run.length, run.colour, before)
  BY <1>2 DEF Written, more
<1> QED BY Zenon, <1>3 DEF bytes

-----------------------------------------------------------------------------
(* Layers: they are read as the run they were written for. *)
LEMMA HoldsConcat ==
  ASSUME NEW data \in Seq(Int), NEW i \in Nat \ {0}, NEW p \in Seq(0..255), NEW q \in Seq(0..255),
         Holds(data, i, p \o q)
  PROVE  /\ p \o q \in Seq(0..255) /\ Len(p \o q) = Len(p) + Len(q)
         /\ Holds(data, i, p) /\ Holds(data, i + Len(p), q)
<1> DEFINE c == p \o q
           a == Len(p)
           b == Len(q)
           n == Len(data)
<1>1. a \in Nat /\ b \in Nat /\ n \in Nat
  BY LenProperties
<1>2. c \in Seq(0..255) /\ Len(c) = a + b /\ \A j \in 1..(a + b) : c[j] = IF j <= a THEN p[j] ELSE q[j - a]
  BY ConcatProperties
<1>3. i + Len(c) - 1 <= n /\ \A j \in 1..Len(c) : data[i - 1 + j] = c[j]
  BY DEF Holds
<1> HIDE DEF a, b, c, n
<1>4. ASSUME NEW j \in 1..a PROVE data[i - 1 + j] = p[j]
  <2>1. j \in 1..(a + b) /\ j <= a
    BY <1>1
  <2> QED BY <1>2, <1>3, <2>1
<1>5. ASSUME NEW j \in 1..b PROVE data[(i + a) - 1 + j] = q[j]
  <2>1. a + j \in 1..(a + b) /\ ~(a + j <= a) /\ (a + j) - a = j /\ i - 1 + (a + j) = (i + a) - 1 + j
    BY <1>1
  <2> DEFINE k == a + j
  <2>2. k \in 1..(a + b) /\ ~(k <= a) /\ k - a = j /\ i - 1 + k = (i + a) - 1 + j
    BY <2>1
  <2> HIDE DEF k
  <2>3. data[i - 1 + k] = c[k] /\ c[k] = q[k - a]
    BY <1>2, <1>3, <2>2
  <2> QED BY <2>2, <2>3
<1>6. i + a - 1 <= n /\ (i + a) + b - 1 <= n
  BY <1>1, <1>2, <1>3
<1>7. Holds(data, i, p)
  BY <1>4, <1>6 DEF Holds, a, n
<1>8. Holds(data, i + a, q)
  BY <1>5, <1>6 DEF Holds, b, n
<1> QED BY <1>2, <1>7, <1>8 DEF a, b, c

Reading(length, value, next) == [length |-> length, value |-> value, next |-> next]

(* What RunAt makes of a byte of each type, with these fields. *)
Fields(b, type, extra, low) == b \div 64 = type /\ (b \div 16) % 4 = extra /\ b % 16 = low

LEMMA HeadFields ==
  ASSUME NEW m \in 0..3, NEW low \in 0..15
  PROVE  /\ 16 * m + low \in 0..63 /\ Fields(16 * m + low, 0, m, low)
         /\ Fields(192 + (16 * m + low), 3, m, low)
         /\ Fields(64 + (16 * m + low), 1, m, low)
<1>1. m = 0 \/ m = 1 \/ m = 2 \/ m = 3
  OBVIOUS
<1>2. CASE m = 0
  BY <1>2 DEF Fields
<1>3. CASE m = 1
  BY <1>3 DEF Fields
<1>4. CASE m = 2
  BY <1>4 DEF Fields
<1>5. CASE m = 3
  BY <1>5 DEF Fields
<1> QED BY <1>1, <1>2, <1>3, <1>4, <1>5

ReadAs(data, i, value, type, extra, low) ==
  LET first == IF type = 1 THEN i + 1 ELSE i IN
  IF type = 2
  THEN Reading(IF extra % 2 = 1 THEN Byte(data, i + 1) ELSE 1,
               IF extra < 2 THEN value + low ELSE value - low, i + 1 + (extra % 2))
  ELSE Reading(HighOf(data, first, extra)[extra] * 16 + low,
               CASE type = 0 -> 0 [] type = 3 -> 255 [] type = 1 -> Byte(data, i + 1),
               first + extra + 1)

LEMMA RunAtIs ==
  ASSUME NEW data, NEW i \in Nat, NEW value \in Int, NEW type \in Int, NEW extra \in Int, NEW low \in Int,
         Fields(data[i], type, extra, low)
  PROVE  RunAt(data, i, value) = ReadAs(data, i, value, type, extra, low)
<1> DEFINE b == data[i]
           t == b \div 64
           e == (b \div 16) % 4
           l == b % 16
<1>1. RunAt(data, i, value) = ReadAs(data, i, value, t, e, l)
  BY DEF RunAt, Reading, HighOf, ReadAs
<1>2. t = type /\ e = extra /\ l = low
  BY DEF Fields
<1> HIDE DEF b, t, e, l
<1> QED BY <1>1, <1>2

LEMMA RunAtStep ==
  ASSUME NEW data, NEW i \in Nat, NEW value \in Int, NEW extra \in Int, NEW low \in Int,
         Fields(data[i], 2, extra, low)
  PROVE  RunAt(data, i, value) =
           Reading(IF extra % 2 = 1 THEN Byte(data, i + 1) ELSE 1,
                   IF extra < 2 THEN value + low ELSE value - low, i + 1 + (extra % 2))
<1>1. RunAt(data, i, value) = ReadAs(data, i, value, 2, extra, low)
  BY RunAtIs
<1> QED BY <1>1 DEF ReadAs

LEMMA RunAtWhite ==
  ASSUME NEW data, NEW i \in Nat, NEW value \in Int, NEW extra \in Int, NEW low \in Int,
         Fields(data[i], 3, extra, low)
  PROVE  RunAt(data, i, value) = Reading(HighOf(data, i, extra)[extra] * 16 + low, 255, i + extra + 1)
<1>1. RunAt(data, i, value) = ReadAs(data, i, value, 3, extra, low)
  BY RunAtIs
<1> QED BY <1>1 DEF ReadAs

LEMMA RunAtGrey ==
  ASSUME NEW data, NEW i \in Nat, NEW value \in Int, NEW extra \in Int, NEW low \in Int,
         Fields(data[i], 1, extra, low)
  PROVE  RunAt(data, i, value) =
           Reading(HighOf(data, i + 1, extra)[extra] * 16 + low, Byte(data, i + 1), i + 1 + extra + 1)
<1>1. RunAt(data, i, value) = ReadAs(data, i, value, 1, extra, low)
  BY RunAtIs
<1> QED BY <1>1 DEF ReadAs

LEMMA FirstTwo ==
  ASSUME NEW data, NEW i \in Nat \ {0}, NEW a, NEW b, Holds(data, i, <<a, b>>), Len(data) \in Nat
  PROVE  data[i] = a /\ data[i + 1] = b /\ i + 1 <= Len(data) /\ Byte(data, i + 1) = b
<1>1. i + 2 - 1 <= Len(data) /\ data[i - 1 + 1] = a /\ data[i - 1 + 2] = b
  BY DEF Holds
<1>2. i - 1 + 1 = i /\ i - 1 + 2 = i + 1
  OBVIOUS
<1>3. i + 1 <= Len(data)
  <2> DEFINE n == Len(data)
  <2> HIDE DEF n
  <2>1. i + 2 - 1 <= n
    BY <1>1 DEF n
  <2>2. i + 1 <= n
    BY <2>1
  <2> QED BY <2>2 DEF n
<1> QED BY <1>1, <1>2, <1>3 DEF Byte

LEMMA FirstOne ==
  ASSUME NEW data, NEW i \in Nat \ {0}, NEW a, Holds(data, i, <<a>>)
  PROVE  data[i] = a
<1>1. data[i - 1 + 1] = a
  BY DEF Holds
<1>2. i - 1 + 1 = i
  OBVIOUS
<1> QED BY <1>1, <1>2

ReadBack(data, i, bytes, length, colour, before) ==
  /\ bytes \in Seq(0..255) /\ Len(bytes) >= 1
  /\ RunAt(data, i, before) = Reading(length, colour, i + Len(bytes))

LEMMA ReadsSteps ==
  ASSUME NEW data \in Seq(Int), NEW i \in Nat \ {0}, NEW length \in 0..255,
         NEW before \in 0..255, NEW d \in 0..15
  PROVE  /\ Holds(data, i, <<144 + d, length>>) =>
              ReadBack(data, i, <<144 + d, length>>, length, before + d, before)
         /\ Holds(data, i, <<176 + d, length>>) =>
              ReadBack(data, i, <<176 + d, length>>, length, before - d, before)
<1>0. Len(data) \in Nat
  BY LenProperties
<1>1. ASSUME Holds(data, i, <<144 + d, length>>)
      PROVE  ReadBack(data, i, <<144 + d, length>>, length, before + d, before)
  <2>1. data[i] = 144 + d /\ Byte(data, i + 1) = length
    BY <1>0, <1>1, FirstTwo
  <2>2. Fields(144 + d, 2, 1, d)
    BY DEF Fields
  <2>3. RunAt(data, i, before) = Reading(IF 1 % 2 = 1 THEN Byte(data, i + 1) ELSE 1,
                      IF 1 < 2 THEN before + d ELSE before - d, i + 1 + (1 % 2))
    BY <2>1, <2>2, RunAtStep
  <2>4. RunAt(data, i, before) = Reading(length, before + d, i + 2)
    <3>1. 1 % 2 = 1 /\ 1 < 2 /\ i + 1 + 1 = i + 2
      OBVIOUS
    <3> QED BY <2>1, <2>3, <3>1
  <2>5. <<144 + d, length>> \in Seq(0..255) /\ Len(<<144 + d, length>>) = 2
    OBVIOUS
  <2> QED BY <2>4, <2>5 DEF ReadBack
<1>2. ASSUME Holds(data, i, <<176 + d, length>>)
      PROVE  ReadBack(data, i, <<176 + d, length>>, length, before - d, before)
  <2>1. data[i] = 176 + d /\ Byte(data, i + 1) = length
    BY <1>0, <1>2, FirstTwo
  <2>2. Fields(176 + d, 2, 3, d)
    BY DEF Fields
  <2>3. RunAt(data, i, before) = Reading(IF 3 % 2 = 1 THEN Byte(data, i + 1) ELSE 1,
                      IF 3 < 2 THEN before + d ELSE before - d, i + 1 + (3 % 2))
    BY <2>1, <2>2, RunAtStep
  <2>4. RunAt(data, i, before) = Reading(length, before - d, i + 2)
    <3>1. 3 % 2 = 1 /\ ~(3 < 2) /\ i + 1 + 1 = i + 2
      OBVIOUS
    <3> QED BY <2>1, <2>3, <3>1
  <2>5. <<176 + d, length>> \in Seq(0..255) /\ Len(<<176 + d, length>>) = 2
    OBVIOUS
  <2> QED BY <2>4, <2>5 DEF ReadBack
<1> QED BY <1>1, <1>2

LEMMA ReadsLong ==
  ASSUME NEW data \in Seq(Int), NEW i \in Nat \ {0}, NEW length \in Nat, NEW colour \in 0..255,
         NEW before \in Int, NEW more, MoreIs(more, length \div 16), Holds(data, i, LongForm(length, colour, more))
  PROVE  ReadBack(data, i, LongForm(length, colour, more), length, colour, before)
<1> DEFINE m == Len(more)
           low == length % 16
           head == 16 * m + low
           bytes == LongForm(length, colour, more)
           rest == length \div 16
<1>1. more \in Seq(0..255) /\ m \in 0..3 /\ Number(more) = rest
  BY DEF MoreIs
<1>2. low \in 0..15 /\ rest * 16 + low = length /\ Len(data) \in Nat
  BY LenProperties
<1> HIDE DEF m, low, bytes, rest
<1>3. head \in 0..63 /\ Fields(head, 0, m, low) /\ Fields(192 + head, 3, m, low) /\ Fields(64 + head, 1, m, low)
  BY <1>1, <1>2, HeadFields
<1>4. m \in Int /\ low \in Int
  BY <1>1, <1>2
<1>6. ASSUME NEW first \in Nat, Holds(data, first + 1, more)
      PROVE  HighOf(data, first, m)[m] * 16 + low = length
  BY <1>1, <1>2, <1>6, HighIs DEF m
<1> HIDE DEF head
<1>7. CASE colour = 0
  <2>1. bytes = <<head>> \o more
    BY <1>7 DEF bytes, LongForm, head, m, low
  <2>2. <<head>> \in Seq(0..255) /\ Len(<<head>>) = 1
    BY <1>3
  <2>3. bytes \in Seq(0..255) /\ Len(bytes) = 1 + m /\ Holds(data, i, <<head>>) /\ Holds(data, i + 1, more)
    <3> DEFINE p == <<head>>
    <3>1. p \in Seq(0..255) /\ Len(p) = 1 /\ Holds(data, i, p \o more) /\ bytes = p \o more
      BY <2>1, <2>2 DEF bytes
    <3> HIDE DEF p
    <3>2. /\ p \o more \in Seq(0..255) /\ Len(p \o more) = Len(p) + Len(more)
          /\ Holds(data, i, p) /\ Holds(data, i + Len(p), more)
      BY <1>1, <3>1, HoldsConcat, ZenonT(30)
    <3> QED BY <3>1, <3>2 DEF p, m
  <2>4. data[i] = head
    BY <2>3, FirstOne
  <2>5. RunAt(data, i, before) = Reading(HighOf(data, i, m)[m] * 16 + low, 0, i + m + 1)
    <3>1. Fields(data[i], 0, m, low)
      BY <1>3, <2>4
    <3>2. i \in Nat /\ before \in Int
      OBVIOUS
    <3>3. RunAt(data, i, before) = ReadAs(data, i, before, 0, m, low)
      BY <1>4, <3>1, <3>2, RunAtIs
    <3> QED BY <1>4, <3>2, <3>3 DEF ReadAs
  <2>6. RunAt(data, i, before) = Reading(length, colour, i + (1 + m))
    <3>1. i + m + 1 = i + (1 + m) /\ HighOf(data, i, m)[m] * 16 + low = length
      BY <1>1, <1>6, <2>3
    <3> QED BY <1>7, <2>5, <3>1
  <2>7. Len(bytes) >= 1
    BY <1>1, <2>3
  <2> QED BY <2>3, <2>6, <2>7 DEF ReadBack, bytes
<1>8. CASE colour = 255
  <2>1. bytes = <<192 + head>> \o more
    BY <1>8 DEF bytes, LongForm, head, m, low
  <2>2. <<192 + head>> \in Seq(0..255) /\ Len(<<192 + head>>) = 1
    BY <1>3
  <2>3. bytes \in Seq(0..255) /\ Len(bytes) = 1 + m /\ Holds(data, i, <<192 + head>>) /\ Holds(data, i + 1, more)
    <3> DEFINE p == <<192 + head>>
    <3>1. p \in Seq(0..255) /\ Len(p) = 1 /\ Holds(data, i, p \o more) /\ bytes = p \o more
      BY <2>1, <2>2 DEF bytes
    <3> HIDE DEF p
    <3>2. /\ p \o more \in Seq(0..255) /\ Len(p \o more) = Len(p) + Len(more)
          /\ Holds(data, i, p) /\ Holds(data, i + Len(p), more)
      BY <1>1, <3>1, HoldsConcat, ZenonT(30)
    <3> QED BY <3>1, <3>2 DEF p, m
  <2>4. data[i] = 192 + head
    BY <2>3, FirstOne
  <2>5. RunAt(data, i, before) = Reading(HighOf(data, i, m)[m] * 16 + low, 255, i + m + 1)
    <3>1. Fields(data[i], 3, m, low)
      BY <1>3, <2>4
    <3> QED BY <1>4, <3>1, RunAtWhite
  <2>6. RunAt(data, i, before) = Reading(length, colour, i + (1 + m))
    <3>1. i + m + 1 = i + (1 + m) /\ HighOf(data, i, m)[m] * 16 + low = length
      BY <1>1, <1>6, <2>3
    <3> QED BY <1>8, <2>5, <3>1
  <2>7. Len(bytes) >= 1
    BY <1>1, <2>3
  <2> QED BY <2>3, <2>6, <2>7 DEF ReadBack, bytes
<1>9. CASE colour # 0 /\ colour # 255
  <2>1. bytes = <<64 + head, colour>> \o more
    BY <1>9 DEF bytes, LongForm, head, m, low
  <2>2. <<64 + head, colour>> \in Seq(0..255) /\ Len(<<64 + head, colour>>) = 2
    BY <1>3
  <2>3. bytes \in Seq(0..255) /\ Len(bytes) = 2 + m /\ Holds(data, i, <<64 + head, colour>>)
        /\ Holds(data, i + 2, more)
    <3> DEFINE p == <<64 + head, colour>>
    <3>1. p \in Seq(0..255) /\ Len(p) = 2 /\ Holds(data, i, p \o more) /\ bytes = p \o more
      BY <2>1, <2>2 DEF bytes
    <3> HIDE DEF p
    <3>2. /\ p \o more \in Seq(0..255) /\ Len(p \o more) = Len(p) + Len(more)
          /\ Holds(data, i, p) /\ Holds(data, i + Len(p), more)
      BY <1>1, <3>1, HoldsConcat, ZenonT(30)
    <3> QED BY <3>1, <3>2 DEF p, m
  <2>4. data[i] = 64 + head /\ Byte(data, i + 1) = colour
    BY <1>2, <2>3, FirstTwo
  <2>5. RunAt(data, i, before) = Reading(HighOf(data, i + 1, m)[m] * 16 + low, Byte(data, i + 1), i + 1 + m + 1)
    <3>1. Fields(data[i], 1, m, low)
      BY <1>3, <2>4
    <3> QED BY <1>4, <3>1, RunAtGrey
  <2>6. RunAt(data, i, before) = Reading(length, colour, i + (2 + m))
    <3>1. i + 1 + m + 1 = i + (2 + m) /\ i + 1 \in Nat /\ i + 1 + 1 = i + 2
      BY <1>1
    <3>2. HighOf(data, i + 1, m)[m] * 16 + low = length
      BY <1>6, <2>3, <3>1
    <3> QED BY <2>4, <2>5, <3>1, <3>2
  <2>7. Len(bytes) >= 1
    BY <1>1, <2>3
  <2> QED BY <2>3, <2>6, <2>7 DEF ReadBack, bytes
<1> QED BY <1>7, <1>8, <1>9

LEMMA ReadsBack ==
  ASSUME NEW data \in Seq(Int), NEW i \in Nat \ {0}, NEW length \in Nat, NEW colour \in 0..255,
         NEW before \in 0..255, NEW bytes, Written(bytes, length, colour, before), Holds(data, i, bytes)
  PROVE  ReadBack(data, i, bytes, length, colour, before)
<1>1. ASSUME NEW d \in 0..15, colour = before + d, length < 256, bytes = <<144 + d, length>>
      PROVE  ReadBack(data, i, bytes, length, colour, before)
  <2>1. length \in 0..255
    BY <1>1
  <2> QED BY <1>1, <2>1, ReadsSteps, ZenonT(30)
<1>2. ASSUME NEW d \in 1..15, colour = before - d, length < 256, bytes = <<176 + d, length>>
      PROVE  ReadBack(data, i, bytes, length, colour, before)
  <2>1. length \in 0..255 /\ d \in 0..15
    BY <1>2
  <2> QED BY <1>2, <2>1, ReadsSteps, ZenonT(30)
<1>3. ASSUME NEW more, MoreIs(more, length \div 16), bytes = LongForm(length, colour, more)
      PROVE  ReadBack(data, i, bytes, length, colour, before)
  <2>1. before \in Int
    OBVIOUS
  <2> QED BY <1>3, <2>1, ReadsLong
<1> QED BY <1>1, <1>2, <1>3 DEF Written

-----------------------------------------------------------------------------
(* Layers: what is written are bytes. *)
LEMMA WrittenType ==
  ASSUME NEW length \in Nat, NEW colour \in 0..255, NEW before \in 0..255, NEW bytes,
         Written(bytes, length, colour, before)
  PROVE  bytes \in Seq(0..255) /\ Len(bytes) >= 1
<1>1. ASSUME NEW d \in 0..15, length < 256, bytes = <<144 + d, length>> \/ bytes = <<176 + d, length>>
      PROVE  bytes \in Seq(0..255) /\ Len(bytes) >= 1
  <2>1. length \in 0..255 /\ 144 + d \in 0..255 /\ 176 + d \in 0..255
    BY <1>1
  <2>2. <<144 + d, length>> \in Seq(0..255) /\ <<176 + d, length>> \in Seq(0..255)
        /\ Len(<<144 + d, length>>) = 2 /\ Len(<<176 + d, length>>) = 2
    BY <2>1
  <2>3. CASE bytes = <<144 + d, length>>
    BY <2>2, <2>3
  <2>4. CASE bytes = <<176 + d, length>>
    BY <2>2, <2>4
  <2> QED BY <1>1, <2>3, <2>4
<1>2. ASSUME NEW more, MoreIs(more, length \div 16), bytes = LongForm(length, colour, more)
      PROVE  bytes \in Seq(0..255) /\ Len(bytes) >= 1
  <2> DEFINE head == 16 * Len(more) + (length % 16)
             m == Len(more)
             low == length % 16
  <2>1. more \in Seq(0..255) /\ m \in 0..3 /\ low \in 0..15
    BY <1>2 DEF MoreIs
  <2>2. 16 * m + low \in 0..63
    <3> HIDE DEF m, low
    <3> QED BY <2>1
  <2>3. head \in 0..63
    BY <2>2
  <2>4. \E p \in Seq(0..255) : Len(p) >= 1 /\ bytes = p \o more
    <3>1. CASE colour = 0
      <4>1. bytes = <<head>> \o more
        BY <1>2, <3>1 DEF LongForm
      <4> HIDE DEF head
      <4>2. <<head>> \in Seq(0..255) /\ Len(<<head>>) >= 1
        BY <2>3
      <4> QED BY <4>1, <4>2
    <3>2. CASE colour = 255
      <4>1. bytes = <<192 + head>> \o more
        BY <1>2, <3>2 DEF LongForm
      <4> HIDE DEF head
      <4>2. <<192 + head>> \in Seq(0..255) /\ Len(<<192 + head>>) >= 1
        BY <2>3
      <4> QED BY <4>1, <4>2
    <3>3. CASE colour # 0 /\ colour # 255
      <4>1. bytes = <<64 + head, colour>> \o more
        BY <1>2, <3>3 DEF LongForm
      <4> HIDE DEF head
      <4>2. <<64 + head, colour>> \in Seq(0..255) /\ Len(<<64 + head, colour>>) >= 1
        BY <2>3
      <4> QED BY <4>1, <4>2
    <3> QED BY <3>1, <3>2, <3>3
  <2>5. PICK p \in Seq(0..255) : Len(p) >= 1 /\ bytes = p \o more
    BY <2>4
  <2>6. p \o more \in Seq(0..255) /\ Len(p \o more) = Len(p) + Len(more) /\ Len(p) \in Nat /\ Len(more) \in Nat
    BY <2>1, <2>5, ConcatProperties, LenProperties
  <2> QED BY <2>5, <2>6
<1>3. \A d \in 1..15 : d \in 0..15
  OBVIOUS
<1> QED BY <1>1, <1>2, <1>3 DEF Written

LEMMA RunIsWritten ==
  ASSUME NEW run \in Run, NEW before \in 0..255, NEW steps \in BOOLEAN
  PROVE  Written(RunBytes(run, before, steps), run.length, run.colour, before)
<1>1. run.length \in Nat /\ run.colour \in 0..255
  BY SMT DEF Run
<1>2. Fits3(run.length \div 16)
  <2>1. run.length <= 268435455
    <3>1. run.length \in 0..Longest
      BY SMT DEF Run
    <3>2. Longest = 268435455
      BY SMT DEF Longest
    <3>3. run.length <= Longest
      BY SMT, <3>1
    <3> QED BY SMT, <3>2, <3>3
  <2> DEFINE n == run.length
  <2>2. n \in Nat /\ n <= 268435455
    BY SMT, <1>1, <2>1
  <2> HIDE DEF n
  <2>3. n \div 16 \in Nat /\ n \div 16 < 16777216
    BY SMT, <2>2
  <2> QED BY SMT, <2>3 DEF Fits3, n
<1>3. MoreIs(MoreBytes(run.length \div 16, TRUE), run.length \div 16)
  BY Zenon, <1>2, MoreFacts
<1>4. MoreIs(MoreBytes(run.length \div 16, FALSE), run.length \div 16)
  BY Zenon, <1>2, MoreFacts
<1>5. Written(RunBytes(run, before, TRUE), run.length, run.colour, before)
  BY Zenon, <1>1, <1>3, WrittenInSteps
<1>6. Written(RunBytes(run, before, FALSE), run.length, run.colour, before)
  BY Zenon, <1>4, WrittenPlainly
<1> QED BY Zenon, <1>5, <1>6

LEMMA BytesAreInts ==
  ASSUME NEW s \in Seq(0..255)
  PROVE  s \in Seq(Int)
<1>1. Len(s) \in Nat /\ s \in [1..Len(s) -> 0..255]
  BY LenProperties
<1>2. \A i \in 1..Len(s) : s[i] \in Int
  <2>1. \A i \in 1..Len(s) : s[i] \in 0..255
    BY <1>1
  <2>2. 0..255 \subseteq Int
    OBVIOUS
  <2> QED BY <2>1, <2>2
<1>3. s \in [1..Len(s) -> Int]
  <2>1. s = [i \in 1..Len(s) |-> s[i]]
    BY <1>1
  <2> QED BY <1>2, <2>1
<1> QED BY <1>1, <1>3, SeqDef

-----------------------------------------------------------------------------
(* The checksum notices a byte that has changed. *)
CheckOf(data) ==
  CHOOSE f : f = [n \in 0..Len(data) |-> IF n < 2 THEN 0 ELSE f[n - 1] + data[n]]

Checks(f, data) ==
  /\ \A n \in 0..Len(data) : f[n] \in Int
  /\ \A n \in 0..Len(data) : n < 2 => f[n] = 0
  /\ \A n \in 2..Len(data) : f[n] = f[n - 1] + data[n]

LEMMA CheckFacts ==
  ASSUME NEW data \in Seq(Int)
  PROVE  /\ Checks(CheckOf(data), data)
         /\ Checksum(data) = 255 - (CheckOf(data)[Len(data) - 1] % 256)
<1> DEFINE m == Len(data)
           d == [p \in 1..m |-> IF p < 2 THEN 0 ELSE data[p]]
           F == [k \in 1..m |-> [s \in Int |-> s + d[k]]]
           a == CheckOf(data)
<1>0. m \in Nat /\ \A k \in 1..m : data[k] \in Int
  BY LenProperties, ElementOfSeq
<1>1. d \in [1..m -> Int]
  BY <1>0
<1> HIDE DEF m
<1>2. F \in [1..m -> [Int -> Int]]
  <2> HIDE DEF d
  <2> QED BY <1>1
<1>3. PICK h \in [0..m -> Int] : IsLoop(h, m, 0, F)
  <2> HIDE DEF F
  <2>1. 0 \in Int
    OBVIOUS
  <2> QED BY <1>0, <1>2, <2>1, LoopExists, Zenon
<1>4. h[0] = 0 /\ \A k \in 1..m : h[k] = h[k - 1] + d[k]
  <2>1. \A k \in 1..m : h[k - 1] \in Int
    BY <1>0
  <2> HIDE DEF d
  <2> QED BY <1>3, <2>1 DEF IsLoop
<1>5. \A k \in 1..m : d[k] = IF k < 2 THEN 0 ELSE data[k]
  OBVIOUS
<1>6. h = [n \in 0..m |-> IF n < 2 THEN 0 ELSE h[n - 1] + data[n]]
  <2> HIDE DEF F, d
  <2>1. ASSUME NEW n \in 0..m PROVE h[n] = IF n < 2 THEN 0 ELSE h[n - 1] + data[n]
    <3>1. CASE n = 0
      BY <1>4, <3>1
    <3>2. CASE n = 1
      <4>1. 1 \in 1..m /\ 1 - 1 = 0
        BY <3>2
      <4>2. h[1] = h[0] + d[1] /\ d[1] = 0
        BY <1>4, <1>5, <4>1
      <4> QED BY <1>4, <3>2, <4>2
    <3>3. CASE n >= 2
      <4>1. n \in 1..m /\ ~(n < 2)
        BY <1>0, <3>3
      <4> QED BY <1>4, <1>5, <4>1
    <3> QED BY <1>0, <3>1, <3>2, <3>3
  <2> QED BY <2>1
<1> HIDE DEF F, d
<1>7. a = [n \in 0..m |-> IF n < 2 THEN 0 ELSE a[n - 1] + data[n]]
  BY <1>6 DEF CheckOf, m
<1>8. Checksum(data) = 255 - (a[m - 1] % 256)
  BY DEF Checksum, CheckOf, m
<1> HIDE DEF a
<1>9. \A n \in 0..m : n < 2 => a[n] = 0
  BY <1>7
<1>10. \A n \in 2..m : a[n] = a[n - 1] + data[n]
  <2> TAKE n \in 2..m
  <2>1. n \in 0..m /\ ~(n < 2)
    BY <1>0
  <2> QED BY <1>7, <2>1
<1>11. \A k \in 0..m : a[k] \in Int
  <2>1. \A k \in 1..m : a[k - 1] \in Int => a[k] \in Int
    <3> TAKE k \in 1..m
    <3>1. CASE k < 2
      BY <1>0, <1>9, <3>1
    <3>2. CASE ~(k < 2)
      <4> DEFINE e == data[k]
      <4>1. k \in 2..m
        BY <1>0, <3>2
      <4>2. a[k] = a[k - 1] + e /\ e \in Int
        BY <1>0, <1>10, <4>1
      <4> HIDE DEF e
      <4> QED BY <4>2
    <3> QED BY <3>1, <3>2
  <2>2. a[0] \in Int
    BY <1>0, <1>9
  <2> QED BY <1>0, <2>1, <2>2, LoopType
<1> QED BY <1>8, <1>9, <1>10, <1>11 DEF Checks, a, m

LEMMA ChecksumType ==
  ASSUME NEW data \in Seq(Int), Len(data) >= 1
  PROVE  Checksum(data) \in 0..255
<1> DEFINE x == CheckOf(data)[Len(data) - 1]
           n == Len(data)
<1>1. n \in Nat /\ n >= 1
  BY LenProperties
<1>2. n - 1 \in 0..n
  <2> HIDE DEF n
  <2> QED BY <1>1
<1>3. x \in Int /\ Checksum(data) = 255 - (x % 256)
  BY <1>2, CheckFacts DEF Checks
<1> HIDE DEF x
<1> QED BY <1>3

Agree(data, other, a, b) == \A n \in a..b : other[n] = data[n]

(* Sums of data that differ by so much from the second byte on. *)
LEMMA CheckDiffers ==
  ASSUME NEW data \in Seq(Int), NEW other \in Seq(Int), Len(other) = Len(data),
         NEW delta \in Int, NEW m \in Nat, m + 1 = Len(data), m >= 2,
         other[2] = data[2] + delta,
         Agree(data, other, 3, m)
  PROVE  CheckOf(other)[m] = CheckOf(data)[m] + delta
<1> DEFINE f == CheckOf(data)
           g == CheckOf(other)
           N == Len(data)
           T == {k \in 0..(m - 2) : g[k + 2] = f[k + 2] + delta}
<1>1. Checks(f, data) /\ Checks(g, other)
  BY CheckFacts
<1>2. N \in Nat /\ N = m + 1 /\ \A n \in 1..N : data[n] \in Int
  BY LenProperties, ElementOfSeq
<1>3. /\ \A n \in 0..N : f[n] \in Int /\ g[n] \in Int /\ (n < 2 => f[n] = 0 /\ g[n] = 0)
      /\ \A n \in 2..N : f[n] = f[n - 1] + data[n] /\ g[n] = g[n - 1] + other[n]
  BY <1>1 DEF Checks
<1> HIDE DEF f, g, N
<1>4. 0 \in T
  <2>1. 2 \in 2..N /\ 1 \in 0..N /\ 2 - 1 = 1 /\ 2 \in 1..N
    BY <1>2
  <2>2. f[1] = 0 /\ g[1] = 0
    BY <1>3, <2>1
  <2>3. f[2] = f[1] + data[2] /\ g[2] = g[1] + other[2] /\ data[2] \in Int
    BY <1>2, <1>3, <2>1
  <2>4. g[2] = f[2] + delta
    BY <2>2, <2>3
  <2> QED BY <2>4
<1>5. ASSUME NEW k \in 1..(m - 2), k - 1 \in T PROVE k \in T
  <2> DEFINE n == k + 2
  <2>1. n \in 2..N /\ n - 1 = (k - 1) + 2 /\ n \in 3..m /\ n - 1 \in 0..N /\ n \in 1..N
    BY <1>2
  <2>2. g[n - 1] = f[n - 1] + delta
    BY <1>5, <2>1
  <2>a. k \in 0..(m - 2)
    OBVIOUS
  <2> HIDE DEF n
  <2>3. f[n] = f[n - 1] + data[n] /\ g[n] = g[n - 1] + other[n] /\ data[n] \in Int /\ f[n - 1] \in Int
    BY <1>2, <1>3, <2>1
  <2>4. other[n] = data[n]
    BY <2>1 DEF Agree
  <2> DEFINE v == data[n]
             u == f[n - 1]
  <2>5. g[n] = (u + delta) + v /\ f[n] = u + v /\ u \in Int /\ v \in Int
    BY <2>2, <2>3, <2>4
  <2> HIDE DEF u, v
  <2>6. g[n] = f[n] + delta
    BY <2>5
  <2> QED BY <2>a, <2>6 DEF n
<1>6. m - 2 \in T
  <2> HIDE DEF T
  <2>1. m - 2 \in Nat /\ m - 2 \in 0..(m - 2)
    OBVIOUS
  <2>2. 0..(m - 2) \subseteq T
    BY <1>4, <1>5, <2>1, InductionUpto
  <2> QED BY <2>1, <2>2
<1>7. (m - 2) + 2 = m
  OBVIOUS
<1>8. g[m] = f[m] + delta
  BY <1>6, <1>7
<1> QED BY <1>8 DEF f, g

LEMMA SameChecksum ==
  ASSUME NEW data \in Seq(Int), NEW other \in Seq(Int), Len(other) = Len(data),
         NEW m \in Nat, m + 1 = Len(data), Agree(data, other, 1, m)
  PROVE  Checksum(other) = Checksum(data)
<1> DEFINE f == CheckOf(data)
           g == CheckOf(other)
           N == Len(data)
<1>0. N \in Nat /\ N = m + 1 /\ \A n \in 1..N : data[n] \in Int
  BY LenProperties, ElementOfSeq
<1>1. Checksum(data) = 255 - (f[m] % 256) /\ Checksum(other) = 255 - (g[m] % 256)
  <2>1. N - 1 = m
    <3> HIDE DEF N
    <3> QED BY <1>0
  <2>2. Checksum(data) = 255 - (f[N - 1] % 256)
    BY CheckFacts
  <2>3. Checksum(other) = 255 - (g[Len(other) - 1] % 256)
    BY CheckFacts
  <2> HIDE DEF f, g
  <2> QED BY <2>1, <2>2, <2>3
<1>2. g[m] = f[m]
  <2>1. CASE m < 2
    <3>1. m \in 0..N
      <4> HIDE DEF N
      <4> QED BY <1>0
    <3>2. f[m] = 0 /\ g[m] = 0
      BY <2>1, <3>1, CheckFacts DEF Checks
    <3> QED BY <3>2
  <2>2. CASE m >= 2
    <3>1. 2 \in 1..m /\ 2 \in 1..N /\ \A n \in 3..m : n \in 1..m
      <4> HIDE DEF N
      <4> QED BY <1>0, <2>2
    <3> DEFINE delta == 0
    <3>2. other[2] = data[2] + delta /\ Agree(data, other, 3, m) /\ delta \in Int
      BY <1>0, <3>1 DEF Agree
    <3> HIDE DEF delta
    <3>a. CheckOf(other)[m] = CheckOf(data)[m] + delta
      BY <2>2, <3>2, CheckDiffers
    <3>3. g[m] = f[m] + 0
      BY <3>a DEF delta
    <3>4. f[m] \in Int
      <4>1. m \in 0..N
        <5> HIDE DEF N
        <5> QED BY <1>0
      <4> QED BY <4>1, CheckFacts DEF Checks
    <3> HIDE DEF f, g
    <3> QED BY <3>3, <3>4
  <2> QED BY <2>1, <2>2
<1> QED BY <1>1, <1>2

Damaged(data) == [data EXCEPT ![2] = (@ + 1) % 256]

LEMMA DamageShows ==
  ASSUME NEW data \in Seq(0..255), Len(data) >= 2, data[Len(data)] = Checksum(data)
  PROVE  Checksum(Damaged(data)) # Damaged(data)[Len(Damaged(data))]
<1> DEFINE other == Damaged(data)
           N == Len(data)
           m == N - 1
           a == data[2]
           b == (a + 1) % 256
<1>1. N \in Nat /\ N >= 2 /\ (\A n \in 1..N : data[n] \in 0..255) /\ DOMAIN data = 1..N
  BY LenProperties, ElementOfSeq
<1>2. data \in Seq(Int) /\ a \in 0..255
  <2>1. 2 \in 1..N
    <3> HIDE DEF N
    <3> QED BY <1>1
  <2>2. a \in 0..255
    BY <1>1, <2>1
  <2>3. 0..255 \subseteq Int
    OBVIOUS
  <2>4. data \in Seq(Int)
    <3>1. data \in [1..N -> Int]
      <4>1. data = [n \in 1..N |-> data[n]]
        BY <1>1, LenProperties
      <4>2. \A n \in 1..N : data[n] \in Int
        BY <1>1, <2>3
      <4> HIDE DEF N
      <4> QED BY <4>1, <4>2
    <3> HIDE DEF N
    <3> QED BY <1>1, <3>1, SeqDef
  <2> QED BY <2>2, <2>4
<1>3. b \in 0..255 /\ (b = a + 1 \/ b = a - 255)
  <2>1. a \in 0..255
    BY <1>2
  <2> HIDE DEF a
  <2>2. CASE a = 255
    <3>1. (255 + 1) % 256 = 0
      OBVIOUS
    <3> QED BY <2>2, <3>1
  <2>3. CASE a # 255
    <3>1. (a + 1) % 256 = a + 1
      BY <2>1, <2>3
    <3> QED BY <2>1, <2>3, <3>1
  <2> QED BY <2>2, <2>3
<1> HIDE DEF N
<1>4. other \in Seq(0..255) /\ Len(other) = N /\ other[2] = b /\ \A n \in 1..N : n # 2 => other[n] = data[n]
  <2>1. other = [n \in 1..N |-> IF n = 2 THEN b ELSE data[n]]
    BY <1>1 DEF Damaged
  <2> HIDE DEF b, other
  <2>2. other \in [1..N -> 0..255]
    BY <1>1, <1>3, <2>1
  <2>3. other \in Seq(0..255) /\ Len(other) = N
    BY <1>1, <2>1, <2>2
  <2> QED BY <1>1, <2>1, <2>3
<1>5. other \in Seq(Int)
  BY <1>4, BytesAreInts, Zenon
<1> DEFINE x == CheckOf(data)[m]
           y == CheckOf(other)[m]
<1>6. Checksum(data) = 255 - (x % 256) /\ Checksum(other) = 255 - (y % 256)
  BY <1>2, <1>4, <1>5, CheckFacts, SMTT(20) DEF N
<1>7. m \in 0..N /\ m \in Nat
  BY <1>1
<1>8. x \in Int /\ y \in Int
  <2> HIDE DEF m, other
  <2> QED BY <1>2, <1>4, <1>5, <1>7, CheckFacts DEF Checks, N
<1>9. CASE N = 2
  <2>1. x = 0 /\ y = 0
    <3>1. m = 1 /\ m < 2
      BY <1>9
    <3> HIDE DEF m, other
    <3> QED BY <1>2, <1>4, <1>5, <1>7, <3>1, CheckFacts DEF Checks, N
  <2>2. a = 255
    BY <1>6, <1>9, <2>1 DEF N
  <2>3. b = 0 /\ other[N] = b
    BY <1>3, <1>4, <1>9, <2>2
  <2>4. Checksum(other) = 255
    BY <1>6, <2>1
  <2> QED BY <1>4, <2>3, <2>4
<1>10. CASE N # 2
  <2>1. m >= 2 /\ m + 1 = N /\ N # 2 /\ N \in 1..N /\ \A n \in 3..m : n # 2 /\ n \in 1..N
    BY <1>1, <1>10
  <2>2. other[N] = data[N]
    BY <1>4, <2>1
  <2> DEFINE delta == b - a
  <2>3. delta \in Int /\ other[2] = a + delta /\ (delta = 1 \/ delta = -255)
    <3> HIDE DEF a, b, other
    <3> QED BY <1>2, <1>3, <1>4
  <2>4. Agree(data, other, 3, m)
    BY <1>4, <2>1 DEF Agree
  <2>5. y = x + delta
    <3>1. Len(other) = Len(data) /\ m + 1 = Len(data) /\ m >= 2 /\ other[2] = data[2] + delta
          /\ m \in Nat /\ delta \in Int
      <4> HIDE DEF m, delta, other
      <4> QED BY <1>4, <1>7, <2>1, <2>3 DEF N
    <3> HIDE DEF m, delta, other, a, x, y
    <3>2. CheckOf(other)[m] = CheckOf(data)[m] + delta
      BY <1>2, <1>5, <2>4, <3>1, CheckDiffers
    <3> QED BY <3>2 DEF x, y
  <2> HIDE DEF x, y, delta
  <2>6. y % 256 # x % 256
    BY <1>8, <2>3, <2>5
  <2>7. Checksum(other) # Checksum(data)
    <3> DEFINE p == x % 256
               q == y % 256
    <3>1. p \in Int /\ q \in Int
      BY <1>8
    <3>2. p # q /\ Checksum(data) = 255 - p /\ Checksum(other) = 255 - q
      BY <1>6, <2>6 DEF x, y
    <3> HIDE DEF p, q
    <3> QED BY <3>1, <3>2
  <2> QED BY <1>4, <2>2, <2>7 DEF N
<1> QED BY <1>9, <1>10

-----------------------------------------------------------------------------
(* Layers: one turn of the loop over a layer's runs. *)
ValueAfter(runs, t) == IF t = 0 THEN 0 ELSE runs[t].colour

(* The t-th run is read where those before it end, and so many pixels of   *)
(* its colour come after theirs.                                           *)
RunReads(data, runs, pixels, at, pos, t) ==
  /\ at[t - 1] < at[t] /\ at[t] <= at[Len(runs)]
  /\ pos[t] = pos[t - 1] + runs[t].length /\ pos[t] <= pos[Len(runs)]
  /\ RunAt(data, 2 + at[t - 1], ValueAfter(runs, t - 1)) =
       Reading(runs[t].length, runs[t].colour, 2 + at[t])
  /\ Plain(pixels, pos[t - 1], runs[t].length, runs[t].colour)

Readable(data, runs, pixels, at, pos) ==
  /\ at \in [0..Len(runs) -> Nat] /\ at[0] = 0 /\ Len(data) = at[Len(runs)] + 2
  /\ pos \in [0..Len(runs) -> Nat] /\ pos[0] = 0 /\ Len(pixels) = pos[Len(runs)]
  /\ \A t \in 1..Len(runs) : RunReads(data, runs, pixels, at, pos, t)

(* The state of the loop after so many runs. *)
Read(runs, o, pixels, at, pos, t) ==
  [ok |-> TRUE, i |-> 2 + at[t], value |-> ValueAfter(runs, t), pixel |-> pos[t],
   acc |-> SumsAt(pixels, o, pos[t])]

TooMany(s) == [s EXCEPT !.ok = FALSE]

LEMMA RunFields ==
  ASSUME NEW runs \in Seq(Run), NEW t \in 1..Len(runs)
  PROVE  runs[t].length \in Nat /\ runs[t].colour \in 0..255
<1>1. runs[t] \in Run
  BY ElementOfSeq
<1>2. ASSUME NEW run \in Run PROVE run.length \in Nat /\ run.colour \in 0..255
  <2>1. run.length \in 0..Longest /\ run.colour \in 0..255
    BY SMT DEF Run
  <2> QED BY SMT, <2>1
<1> QED BY Zenon, <1>1, <1>2

LEMMA NextRunReads ==
  ASSUME NEW data, NEW runs \in Seq(Run), NEW o \in Options, NEW pixels \in Seq(Int), NEW at, NEW pos,
         Readable(data, runs, pixels, at, pos), NEW t \in 1..Len(runs)
  PROVE  NextRun(Read(runs, o, pixels, at, pos, t - 1), data, o) =
           IF pos[t] > o.width * o.height THEN TooMany(Read(runs, o, pixels, at, pos, t - 1))
           ELSE Read(runs, o, pixels, at, pos, t)
<1> DEFINE n == Len(runs)
           s == Read(runs, o, pixels, at, pos, t - 1)
           run == RunAt(data, s.i, s.value)
           c == runs[t].colour
           l == runs[t].length
           p == pos[t - 1]
           size == o.width * o.height
           painted == IF Most(0, Least(255, run.value)) = 0 THEN s.acc
                      ELSE Painted(s.acc, s.pixel, run.length, Most(0, Least(255, run.value)), o.width, o.scale)
<1>1. n \in Nat /\ t \in 1..n /\ t - 1 \in 0..n /\ n \in 0..n
  BY LenProperties
<1>2. /\ at \in [0..n -> Nat] /\ Len(data) = at[n] + 2
      /\ pos \in [0..n -> Nat] /\ Len(pixels) = pos[n]
      /\ RunReads(data, runs, pixels, at, pos, t)
  BY DEF Readable
<1>3. /\ at[t - 1] < at[t] /\ at[t] <= at[n]
      /\ pos[t] = p + l /\ pos[t] <= pos[n]
      /\ RunAt(data, 2 + at[t - 1], ValueAfter(runs, t - 1)) = Reading(l, c, 2 + at[t])
      /\ Plain(pixels, p, l, c)
  BY <1>2 DEF RunReads
<1>4. l \in Nat /\ c \in 0..255
  BY RunFields
<1>5. at[t - 1] \in Nat /\ at[t] \in Nat /\ at[n] \in Nat /\ p \in Nat /\ pos[t] \in Nat /\ pos[n] \in Nat
  <2> HIDE DEF n
  <2>1. t \in 0..n
    BY <1>1
  <2>2. \A k \in 0..n : at[k] \in Nat /\ pos[k] \in Nat
    BY <1>2
  <2> QED BY <1>1, <2>1, <2>2
<1>6. s.ok = TRUE /\ s.i = 2 + at[t - 1] /\ s.value = ValueAfter(runs, t - 1) /\ s.pixel = p
      /\ s.acc = SumsAt(pixels, o, p)
      /\ s = [ok |-> s.ok, i |-> s.i, value |-> s.value, pixel |-> s.pixel, acc |-> s.acc]
  BY DEF Read
<1>7. run.length = l /\ run.value = c /\ run.next = 2 + at[t]
  <2> HIDE DEF l, c, s
  <2> QED BY <1>3, <1>6 DEF Reading
<1>8. NextRun(s, data, o) =
        IF ~s.ok \/ s.i >= Len(data) THEN s
        ELSE IF s.pixel + run.length > size THEN [s EXCEPT !.ok = FALSE]
        ELSE [s EXCEPT !.i = run.next, !.value = run.value, !.pixel = s.pixel + run.length, !.acc = painted]
  BY DEF NextRun
<1>9. ~(s.i >= Len(data))
  <2> DEFINE x == at[t - 1]
             y == at[t]
             z == at[n]
  <2>1. s.i = 2 + x /\ Len(data) = z + 2 /\ x \in Nat /\ y \in Nat /\ z \in Nat /\ x < y /\ y <= z
    BY <1>2, <1>3, <1>5, <1>6
  <2> HIDE DEF x, y, z, s
  <2> QED BY <2>1
<1>10. Most(0, Least(255, run.value)) = c
  <2> HIDE DEF c, run
  <2> QED BY <1>4, <1>7 DEF Most, Least
<1>11. painted = SumsAt(pixels, o, pos[t])
  <2>1. p + l <= Len(pixels)
    BY <1>2, <1>3
  <2> HIDE DEF s, run, p, l, c
  <2>2. CASE c = 0
    <3>1. SumsAt(pixels, o, p + l) = SumsAt(pixels, o, p)
      BY <1>3, <1>4, <1>5, <2>1, <2>2, BlackAdds
    <3>2. painted = s.acc
      BY <1>10, <2>2
    <3> QED BY <1>3, <1>6, <3>1, <3>2
  <2>3. CASE c # 0
    <3>1. c \in Int
      BY <1>4
    <3>2. Painted(SumsAt(pixels, o, p), p, l, c, o.width, o.scale) = SumsAt(pixels, o, p + l)
      BY <1>3, <1>4, <1>5, <2>1, <3>1, PaintedSums
    <3>3. painted = Painted(s.acc, s.pixel, run.length, c, o.width, o.scale)
      BY <1>10, <2>3
    <3> QED BY <1>3, <1>6, <1>7, <3>2, <3>3
  <2> QED BY <2>2, <2>3
<1>12. Read(runs, o, pixels, at, pos, t) =
         [ok |-> TRUE, i |-> 2 + at[t], value |-> c, pixel |-> pos[t], acc |-> SumsAt(pixels, o, pos[t])]
  <2>1. t # 0
    BY <1>1
  <2> QED BY <2>1 DEF Read, ValueAfter
<1> HIDE DEF painted, run, s, p, l, c, size
<1>13. CASE pos[t] > size
  <2>1. NextRun(s, data, o) = [s EXCEPT !.ok = FALSE]
    BY <1>3, <1>6, <1>7, <1>8, <1>9, <1>13
  <2> QED BY <1>13, <2>1 DEF TooMany, s, size
<1>14. CASE ~(pos[t] > size)
  <2>1. NextRun(s, data, o) =
          [s EXCEPT !.i = run.next, !.value = run.value, !.pixel = s.pixel + run.length, !.acc = painted]
    BY <1>3, <1>6, <1>7, <1>8, <1>9, <1>14
  <2>2. NextRun(s, data, o) = [ok |-> TRUE, i |-> 2 + at[t], value |-> c, pixel |-> pos[t],
                               acc |-> SumsAt(pixels, o, pos[t])]
    BY <1>3, <1>6, <1>7, <1>11, <2>1
  <2> QED BY <1>12, <1>14, <2>2 DEF s, size
<1> QED BY <1>13, <1>14 DEF s

LEMMA NextRunStops ==
  ASSUME NEW data, NEW runs \in Seq(Run), NEW o, NEW pixels, NEW at, NEW pos,
         Readable(data, runs, pixels, at, pos)
  PROVE  NextRun(Read(runs, o, pixels, at, pos, Len(runs)), data, o) = Read(runs, o, pixels, at, pos, Len(runs))
<1> DEFINE n == Len(runs)
           s == Read(runs, o, pixels, at, pos, n)
<1>1. n \in Nat /\ n \in 0..n /\ at \in [0..n -> Nat] /\ Len(data) = at[n] + 2
  BY LenProperties DEF Readable
<1>2. s.i = 2 + at[n]
  BY DEF Read
<1>3. at[n] \in Nat
  BY <1>1
<1>4. s.i >= Len(data)
  <2> HIDE DEF s, n
  <2> QED BY <1>1, <1>2, <1>3
<1> HIDE DEF s
<1>5. NextRun(s, data, o) = s
  BY <1>4 DEF NextRun
<1> QED BY <1>5 DEF s

LEMMA TooManyStops ==
  ASSUME NEW s, NEW data, NEW o, DOMAIN s = {"ok", "i", "value", "pixel", "acc"}
  PROVE  NextRun(TooMany(s), data, o) = TooMany(s)
<1>1. ~TooMany(s).ok
  BY DEF TooMany
<1> QED BY <1>1 DEF NextRun

-----------------------------------------------------------------------------
(* Layers: the loop, to its end. *)
TurnsOf(data, o) ==
  CHOOSE f : f = [n \in 0..Len(data) |->
                    IF n = 0 THEN [ok |-> TRUE, i |-> 2, value |-> 0, pixel |-> 0,
                                   acc |-> [cell \in Cells(o) |-> 0]]
                    ELSE NextRun(f[n - 1], data, o)]

(* A run takes a byte at least. *)
LEMMA RunsTakeBytes ==
  ASSUME NEW data, NEW runs, Len(runs) \in Nat, NEW pixels, NEW at, NEW pos,
         Readable(data, runs, pixels, at, pos)
  PROVE  at[Len(runs)] >= Len(runs)
<1> DEFINE n == Len(runs)
           T == {k \in 0..n : at[k] >= k}
<1>1. at \in [0..n -> Nat] /\ at[0] = 0 /\ \A k \in 1..n : at[k - 1] < at[k]
  BY DEF Readable, RunReads
<1> HIDE DEF n
<1>2. 0 \in T
  <2>1. n \in Nat
    BY DEF n
  <2> QED BY <1>1, <2>1
<1>3. ASSUME NEW k \in 1..n, k - 1 \in T PROVE k \in T
  <2>0. n \in Nat /\ k \in Nat /\ k - 1 \in 0..n /\ k \in 0..n
    BY DEF n
  <2> DEFINE x == at[k - 1]
             y == at[k]
  <2>1. x \in Nat /\ y \in Nat /\ x >= k - 1 /\ x < y
    BY <1>1, <1>3, <2>0
  <2> HIDE DEF x, y
  <2>2. y >= k
    BY <2>0, <2>1
  <2> QED BY <2>0, <2>2 DEF y
<1>4. n \in T
  <2> HIDE DEF T
  <2>1. n \in Nat /\ n \in 0..n
    BY DEF n
  <2>2. 0..n \subseteq T
    BY <1>2, <1>3, <2>1, InductionUpto
  <2> QED BY <2>1, <2>2
<1> QED BY <1>4 DEF n

(* The loop ends after the last run, or where there are too many pixels. *)
LEMMA RunsAre ==
  ASSUME NEW data, Len(data) \in Nat, NEW runs \in Seq(Run), NEW o \in Options, NEW pixels \in Seq(Int),
         NEW at, NEW pos, Readable(data, runs, pixels, at, pos)
  PROVE  LET end == Runs(data, o)
             size == o.width * o.height IN
         /\ Len(pixels) > size => ~end.ok
         /\ Len(pixels) <= size => end = Read(runs, o, pixels, at, pos, Len(runs))
<1> DEFINE n == Len(runs)
           m == Len(data)
           R(t) == Read(runs, o, pixels, at, pos, t)
           B(t) == TooMany(R(t))
           G == {R(t) : t \in 0..n} \union {B(t) : t \in 0..n}
           Step(s) == NextRun(s, data, o)
           F == [k \in 1..m |-> [s \in G |-> Step(s)]]
           c == R(0)
           f == TurnsOf(data, o)
           size == o.width * o.height
<1>0. n \in Nat /\ m \in Nat
  BY LenProperties
<1>1. size \in Nat
  BY DEF Options, Size
<1>2. \A t \in 1..n : Step(R(t - 1)) = IF pos[t] > size THEN B(t - 1) ELSE R(t)
  BY NextRunReads
<1>3. Step(R(n)) = R(n)
  BY NextRunStops
<1>4. \A t \in 0..n : Step(B(t)) = B(t)
  <2> TAKE t \in 0..n
  <2>1. DOMAIN R(t) = {"ok", "i", "value", "pixel", "acc"}
    BY DEF Read
  <2> HIDE DEF R
  <2> QED BY <2>1, TooManyStops
<1>5. at[0] = 0 /\ pos \in [0..n -> Nat] /\ pos[0] = 0 /\ Len(data) = at[n] + 2 /\ Len(pixels) = pos[n]
      /\ \A t \in 1..n : pos[t] <= pos[n]
  BY DEF Readable, RunReads
<1>6. c = [ok |-> TRUE, i |-> 2, value |-> 0, pixel |-> 0, acc |-> [cell \in Cells(o) |-> 0]]
  <2>1. \A cell \in Cells(o) : SumOf(pixels, cell, o)[0] = 0
    BY SumFacts DEF Sums
  <2>2. SumsAt(pixels, o, 0) = [cell \in Cells(o) |-> 0]
    BY <2>1 DEF SumsAt
  <2>3. c = [ok |-> TRUE, i |-> 2 + at[0], value |-> 0, pixel |-> pos[0], acc |-> SumsAt(pixels, o, pos[0])]
    BY DEF Read, ValueAfter
  <2>4. 2 + at[0] = 2 /\ pos[0] = 0
    BY <1>5
  <2> HIDE DEF c
  <2> QED BY <2>2, <2>3, <2>4
<1> HIDE DEF R, B, Step, n, m, size
<1>7. \A s \in G : Step(s) \in G
  <2>1. ASSUME NEW t \in 0..n PROVE Step(R(t)) \in G
    <3>1. CASE t = n
      BY <1>3, <3>1
    <3>2. CASE t # n
      <4>1. t + 1 \in 1..n /\ (t + 1) - 1 = t /\ t + 1 \in 0..n
        BY <1>0, <3>2
      <4>2. Step(R(t)) = B(t) \/ Step(R(t)) = R(t + 1)
        BY <1>2, <4>1
      <4> QED BY <4>1, <4>2
    <3> QED BY <3>1, <3>2
  <2>2. ASSUME NEW t \in 0..n PROVE Step(B(t)) \in G
    BY <1>4
  <2> QED BY <2>1, <2>2
<1>8. c \in G
  <2>1. 0 \in 0..n
    BY <1>0
  <2> QED BY <2>1
<1> HIDE DEF G, c
<1>9. F \in [1..m -> [G -> G]]
  BY <1>7
<1>10. PICK h \in [0..m -> G] : IsLoop(h, m, c, F)
  <2> HIDE DEF F
  <2> QED BY <1>0, <1>8, <1>9, LoopExists
<1>11. h[0] = c /\ \A k \in 1..m : h[k] = Step(h[k - 1])
  <2>1. \A k \in 1..m : h[k - 1] \in G
    BY <1>0
  <2> QED BY <1>10, <2>1 DEF IsLoop
<1>12. h = [k \in 0..m |-> IF k = 0 THEN c ELSE Step(h[k - 1])]
  <2>1. \A k \in 0..m : k # 0 => k \in 1..m
    BY <1>0
  <2> HIDE DEF F
  <2> QED BY <1>11, <2>1
<1>13. f = [k \in 0..m |-> IF k = 0 THEN c ELSE Step(f[k - 1])]
  BY <1>6, <1>12 DEF TurnsOf, Step, m
<1>14. Runs(data, o) = f[m]
  BY DEF Runs, TurnsOf, m
<1> HIDE DEF f, F
<1> DEFINE reached(k) == IF k <= n THEN k ELSE n
           T == {k \in 0..m : \/ pos[reached(k)] <= size /\ f[k] = R(reached(k))
                              \/ \E t \in 1..n : pos[t] > size /\ f[k] = B(t - 1)}
<1>15. 0 \in T
  <2>1. reached(0) = 0 /\ f[0] = R(0) /\ pos[0] <= size /\ 0 \in 0..m
    BY <1>0, <1>1, <1>5, <1>13 DEF c
  <2> HIDE DEF reached
  <2> QED BY <2>1
<1>16. ASSUME NEW k \in 1..m, k - 1 \in T PROVE k \in T
  <2>1. k \in 0..m /\ f[k] = Step(f[k - 1])
    BY <1>0, <1>13
  <2>2. CASE \E t \in 1..n : pos[t] > size /\ f[k - 1] = B(t - 1)
    <3>1. PICK t \in 1..n : pos[t] > size /\ f[k - 1] = B(t - 1)
      BY <2>2
    <3>2. t - 1 \in 0..n
      BY <1>0
    <3>3. f[k] = B(t - 1)
      BY <1>4, <2>1, <3>1, <3>2
    <3> HIDE DEF reached
    <3> QED BY <2>1, <3>1, <3>3
  <2>3. CASE pos[reached(k - 1)] <= size /\ f[k - 1] = R(reached(k - 1))
    <3>1. CASE k - 1 >= n
      <4>1. reached(k - 1) = n /\ reached(k) = n
        BY <1>0, <3>1
      <4> HIDE DEF reached
      <4>2. f[k] = R(reached(k)) /\ pos[reached(k)] <= size
        BY <1>3, <2>1, <2>3, <4>1
      <4> QED BY <2>1, <4>2
    <3>2. CASE k - 1 < n
      <4>1. reached(k - 1) = k - 1 /\ reached(k) = k /\ k \in 1..n /\ k \in 0..n
        BY <1>0, <3>2
      <4>2. f[k] = IF pos[k] > size THEN B(k - 1) ELSE R(k)
        BY <1>2, <2>1, <2>3, <4>1
      <4>3. pos[k] \in Nat
        BY <1>5, <4>1
      <4> HIDE DEF reached
      <4>4. CASE pos[k] > size
        BY <2>1, <4>1, <4>2, <4>4
      <4>5. CASE ~(pos[k] > size)
        <5>1. pos[k] <= size
          <6> DEFINE x == pos[k]
          <6> HIDE DEF x
          <6>1. x \in Nat /\ ~(x > size)
            BY <4>3, <4>5 DEF x
          <6>2. x <= size
            BY <1>1, <6>1
          <6> QED BY <6>2 DEF x
        <5> QED BY <2>1, <4>1, <4>2, <4>5, <5>1
      <4> QED BY <4>4, <4>5
    <3> QED BY <1>0, <3>1, <3>2
  <2> QED BY <1>16, <2>2, <2>3
<1>17. m \in T
  <2> HIDE DEF T
  <2>1. 0..m \subseteq T
    BY <1>0, <1>15, <1>16, InductionUpto
  <2> QED BY <1>0, <2>1
<1>18. reached(m) = n
  <2>1. at[n] >= n
    BY <1>0, RunsTakeBytes DEF n
  <2>2. at[n] \in Int
    <3>1. at \in [0..n -> Nat]
      BY DEF Readable, n
    <3> QED BY <1>0, <3>1
  <2> DEFINE x == at[n]
  <2>3. x >= n /\ x \in Int /\ m = x + 2
    BY <1>5, <2>1, <2>2 DEF m
  <2> HIDE DEF x
  <2> QED BY <1>0, <2>3
<1> HIDE DEF reached
<1>19. CASE pos[n] <= size /\ f[m] = R(n)
  <2>1. ~(Len(pixels) > size)
    <3> DEFINE x == pos[n]
    <3>1. x \in Nat /\ x <= size /\ Len(pixels) = x
      BY <1>0, <1>5, <1>19
    <3> HIDE DEF x
    <3> QED BY <1>1, <3>1
  <2> QED BY <1>14, <1>19, <2>1 DEF n, R, size
<1>20. CASE \E t \in 1..n : pos[t] > size /\ f[m] = B(t - 1)
  <2>1. PICK t \in 1..n : pos[t] > size /\ f[m] = B(t - 1)
    BY <1>20
  <2>2. ~(Len(pixels) <= size)
    <3> DEFINE x == pos[n]
               y == pos[t]
    <3>1. x \in Nat /\ y \in Nat /\ y <= x /\ y > size /\ Len(pixels) = x
      <4>1. t \in 0..n /\ n \in 0..n
        BY <1>0
      <4> QED BY <1>5, <2>1, <4>1
    <3> HIDE DEF x, y
    <3> QED BY <1>1, <3>1
  <2>3. ~f[m].ok
    BY <2>1 DEF B, R, TooMany, Read
  <2> QED BY <1>14, <2>2, <2>3 DEF size
<1> QED BY <1>17, <1>18, <1>19, <1>20

-----------------------------------------------------------------------------
(* Layers: what is encoded, and that its runs are read back. *)
Codes(runs, steps) ==
  [i \in DOMAIN runs |-> RunBytes(runs[i], IF i = 1 THEN 0 ELSE runs[i - 1].colour, steps)]

LEMMA CodesAre ==
  ASSUME NEW runs \in Seq(Run), NEW steps \in BOOLEAN
  PROVE  /\ Codes(runs, steps) \in Seq(Seq(0..255)) /\ Len(Codes(runs, steps)) = Len(runs)
         /\ \A t \in 1..Len(runs) :
              /\ ValueAfter(runs, t - 1) \in 0..255
              /\ Codes(runs, steps)[t] \in Seq(0..255) /\ Len(Codes(runs, steps)[t]) >= 1
              /\ Written(Codes(runs, steps)[t], runs[t].length, runs[t].colour, ValueAfter(runs, t - 1))
<1> DEFINE n == Len(runs)
           codes == Codes(runs, steps)
<1>1. n \in Nat /\ DOMAIN runs = 1..n
  BY LenProperties
<1>2. ASSUME NEW t \in 1..n
      PROVE  /\ ValueAfter(runs, t - 1) \in 0..255
             /\ codes[t] \in Seq(0..255) /\ Len(codes[t]) >= 1
             /\ Written(codes[t], runs[t].length, runs[t].colour, ValueAfter(runs, t - 1))
  <2> DEFINE v == ValueAfter(runs, t - 1)
             bytes == codes[t]
  <2>1. v \in 0..255
    <3>1. CASE t = 1
      BY <3>1 DEF ValueAfter
    <3>2. CASE t # 1
      <4>1. t - 1 \in 1..n /\ t - 1 # 0
        BY <1>1, <3>2
      <4>2. runs[t - 1].colour \in 0..255
        BY <4>1, RunFields
      <4> QED BY <4>1, <4>2 DEF ValueAfter
    <3> QED BY <3>1, <3>2
  <2>2. bytes = RunBytes(runs[t], v, steps)
    <3>1. v = IF t = 1 THEN 0 ELSE runs[t - 1].colour
      <4>1. t - 1 = 0 <=> t = 1
        OBVIOUS
      <4> QED BY <4>1 DEF ValueAfter
    <3>2. bytes = RunBytes(runs[t], IF t = 1 THEN 0 ELSE runs[t - 1].colour, steps)
      BY <1>1 DEF Codes
    <3> HIDE DEF bytes, v
    <3> QED BY Zenon, <3>1, <3>2
  <2>3. runs[t] \in Run /\ runs[t].length \in Nat /\ runs[t].colour \in 0..255
    BY RunFields, ElementOfSeq
  <2> HIDE DEF v, bytes
  <2>4. Written(RunBytes(runs[t], v, steps), runs[t].length, runs[t].colour, v)
    BY Zenon, <2>1, <2>3, RunIsWritten
  <2>5. Written(bytes, runs[t].length, runs[t].colour, v)
    BY Zenon, <2>2, <2>4
  <2>6. bytes \in Seq(0..255) /\ Len(bytes) >= 1
    BY <2>1, <2>3, <2>5, WrittenType
  <2> QED BY <2>1, <2>5, <2>6 DEF v, bytes
<1>3. codes = [t \in 1..n |-> codes[t]]
  BY <1>1 DEF Codes
<1> HIDE DEF codes, n
<1>4. codes \in Seq(Seq(0..255)) /\ Len(codes) = n
  <2>1. codes \in [1..n -> Seq(0..255)]
    BY <1>2, <1>3
  <2> QED BY <1>1, <2>1
<1> QED BY <1>2, <1>4 DEF codes, n

Squares(runs) == [i \in DOMAIN runs |-> [k \in 1..runs[i].length |-> runs[i].colour]]

LEMMA SquaresAre ==
  ASSUME NEW runs \in Seq(Run)
  PROVE  /\ Squares(runs) \in Seq(Seq(0..255)) /\ Len(Squares(runs)) = Len(runs)
         /\ \A t \in 1..Len(runs) :
              /\ Len(Squares(runs)[t]) = runs[t].length
              /\ \A k \in 1..runs[t].length : Squares(runs)[t][k] = runs[t].colour
<1> DEFINE n == Len(runs)
           squares == Squares(runs)
<1>1. n \in Nat /\ DOMAIN runs = 1..n
  BY LenProperties
<1>2. ASSUME NEW t \in 1..n
      PROVE  /\ squares[t] \in Seq(0..255) /\ Len(squares[t]) = runs[t].length
             /\ \A k \in 1..runs[t].length : squares[t][k] = runs[t].colour
  <2> DEFINE l == runs[t].length
             c == runs[t].colour
             s == squares[t]
  <2>1. l \in Nat /\ c \in 0..255
    BY RunFields
  <2>2. s = [k \in 1..l |-> c]
    BY <1>1 DEF Squares
  <2> HIDE DEF s, l, c
  <2>3. s \in Seq(0..255) /\ Len(s) = l /\ \A k \in 1..l : s[k] = c
    BY <2>1, <2>2
  <2> QED BY <2>3 DEF s, l, c
<1>3. squares = [t \in 1..n |-> squares[t]]
  BY <1>1 DEF Squares
<1> HIDE DEF squares, n
<1>4. squares \in Seq(Seq(0..255)) /\ Len(squares) = n
  <2>1. squares \in [1..n -> Seq(0..255)]
    BY <1>2, <1>3
  <2> QED BY <1>1, <2>1
<1> QED BY <1>2, <1>4 DEF squares, n

LEMMA BytesJoined ==
  ASSUME NEW p \in Seq(0..255), NEW q \in Seq(0..255)
  PROVE  /\ p \o q \in Seq(0..255) /\ Len(p \o q) = Len(p) + Len(q)
         /\ \A j \in 1..(Len(p) + Len(q)) : (p \o q)[j] = IF j <= Len(p) THEN p[j] ELSE q[j - Len(p)]
  BY ConcatProperties

(* A layer's data: what opens it, the runs, and the checksum of the runs. *)
LEMMA EncodedIs ==
  ASSUME NEW runs \in Seq(Run), NEW steps \in BOOLEAN
  PROVE  LET data == Encoded(runs, steps)
             flat == FlattenSeq(Codes(runs, steps)) IN
         /\ flat \in Seq(0..255)
         /\ data \in Seq(0..255) /\ Len(data) = Len(flat) + 2 /\ data[1] = 85
         /\ \A j \in 1..Len(flat) : data[j + 1] = flat[j]
         /\ data[Len(data)] = Checksum(data)
<1> DEFINE codes == Codes(runs, steps)
           flat == FlattenSeq(codes)
           bytes == <<85>> \o flat
           blank == Append(bytes, 0)
           data == Append(bytes, Checksum(blank))
           n == Len(flat)
<1>1. Encoded(runs, steps) = data
  BY DEF Encoded, Codes
<1>2. flat \in Seq(0..255)
  BY CodesAre, FlattenFacts
<1> HIDE DEF flat
<1>3. n \in Nat
  BY <1>2, LenProperties
<1>4. bytes \in Seq(0..255) /\ Len(bytes) = n + 1 /\ bytes[1] = 85
      /\ \A j \in 1..n : bytes[j + 1] = flat[j]
  <2> DEFINE p == <<85>>
  <2>1. p \in Seq(0..255) /\ Len(p) = 1 /\ p[1] = 85
    OBVIOUS
  <2> HIDE DEF p
  <2>2. p \o flat \in Seq(0..255) /\ Len(p \o flat) = 1 + n
        /\ \A j \in 1..(1 + n) : (p \o flat)[j] = IF j <= 1 THEN p[j] ELSE flat[j - 1]
    <3>1. p \o flat \in Seq(0..255) /\ Len(p \o flat) = Len(p) + Len(flat)
          /\ \A j \in 1..(Len(p) + Len(flat)) :
               (p \o flat)[j] = IF j <= Len(p) THEN p[j] ELSE flat[j - Len(p)]
      BY <1>2, <2>1, BytesJoined
    <3> QED BY <2>1, <3>1 DEF n
  <2>3. ASSUME NEW j \in 1..n PROVE (p \o flat)[j + 1] = flat[j]
    <3>1. j + 1 \in 1..(1 + n) /\ ~(j + 1 <= 1) /\ (j + 1) - 1 = j
      BY <1>3
    <3> QED BY <2>2, <3>1
  <2>4. (p \o flat)[1] = 85
    <3>1. 1 \in 1..(1 + n)
      BY <1>3
    <3> QED BY <2>1, <2>2, <3>1
  <2>5. 1 + n = n + 1
    BY <1>3
  <2> QED BY <2>2, <2>3, <2>4, <2>5 DEF p
<1> HIDE DEF bytes, n
<1>5. bytes \in Seq(Int)
  BY <1>4, BytesAreInts
<1>6. blank \in Seq(Int) /\ Len(blank) = n + 2 /\ \A j \in 1..(n + 1) : blank[j] = bytes[j]
  <2>1. 0 \in Int
    OBVIOUS
  <2> QED BY <1>3, <1>4, <1>5, <2>1, AppendProperties
<1> HIDE DEF blank
<1>7. Checksum(blank) \in 0..255
  <2>1. Len(blank) >= 1
    BY <1>3, <1>6
  <2> QED BY <1>6, <2>1, ChecksumType
<1> DEFINE c == Checksum(blank)
<1> HIDE DEF c
<1>8. data = Append(bytes, c) /\ c \in 0..255
  BY <1>7 DEF c
<1> HIDE DEF data
<1>9. data \in Seq(0..255) /\ Len(data) = n + 2 /\ data[n + 2] = c /\ \A j \in 1..(n + 1) : data[j] = bytes[j]
  <2>1. Len(Append(bytes, c)) = (n + 1) + 1 /\ Append(bytes, c) \in Seq(0..255)
        /\ Append(bytes, c)[(n + 1) + 1] = c /\ \A j \in 1..(n + 1) : Append(bytes, c)[j] = bytes[j]
    BY <1>3, <1>4, <1>8, AppendProperties
  <2>2. (n + 1) + 1 = n + 2
    BY <1>3
  <2> QED BY <1>8, <2>1, <2>2
<1>10. Checksum(data) = c
  <2>1. data \in Seq(Int)
    BY <1>9, BytesAreInts
  <2>2. Agree(blank, data, 1, n + 1)
    BY <1>6, <1>9 DEF Agree
  <2>3. n + 1 \in Nat /\ (n + 1) + 1 = Len(blank) /\ Len(data) = Len(blank)
    BY <1>3, <1>6, <1>9
  <2> QED BY <1>6, <2>1, <2>2, <2>3, SameChecksum DEF c
<1>11. data[1] = 85 /\ \A j \in 1..n : data[j + 1] = flat[j]
  <2>1. 1 \in 1..(n + 1) /\ \A j \in 1..n : j + 1 \in 1..(n + 1)
    BY <1>3
  <2> QED BY <1>4, <1>9, <2>1
<1> QED BY <1>1, <1>2, <1>9, <1>10, <1>11 DEF flat, n

LEMMA EncodedReads ==
  ASSUME NEW runs \in Seq(Run), NEW steps \in BOOLEAN
  PROVE  /\ Pixels(runs) \in Seq(0..255)
         /\ \E at, pos : Readable(Encoded(runs, steps), runs, Pixels(runs), at, pos)
<1> DEFINE n == Len(runs)
           codes == Codes(runs, steps)
           flat == FlattenSeq(codes)
           data == Encoded(runs, steps)
           squares == Squares(runs)
           pixels == Pixels(runs)
<1>1. n \in Nat
  BY LenProperties
<1>2. codes \in Seq(Seq(0..255)) /\ Len(codes) = n
      /\ \A t \in 1..n : /\ ValueAfter(runs, t - 1) \in 0..255
                         /\ codes[t] \in Seq(0..255) /\ Len(codes[t]) >= 1
                         /\ Written(codes[t], runs[t].length, runs[t].colour, ValueAfter(runs, t - 1))
  BY CodesAre
<1>3. squares \in Seq(Seq(0..255)) /\ Len(squares) = n
      /\ \A t \in 1..n : /\ Len(squares[t]) = runs[t].length
                         /\ \A k \in 1..runs[t].length : squares[t][k] = runs[t].colour
  BY SquaresAre
<1>4. pixels = FlattenSeq(squares)
  BY DEF Pixels, Squares
<1>5. flat \in Seq(0..255) /\ data \in Seq(0..255) /\ Len(data) = Len(flat) + 2
      /\ \A j \in 1..Len(flat) : data[j + 1] = flat[j]
  BY EncodedIs
<1> HIDE DEF codes, squares, data, pixels, n
<1>6. PICK at : Laid(codes, flat, at)
  BY <1>2, FlattenFacts
<1>7. pixels \in Seq(0..255) /\ \E pos : Laid(squares, pixels, pos)
  BY <1>3, <1>4, FlattenFacts
<1>8. PICK pos : Laid(squares, pixels, pos)
  BY <1>7
<1> HIDE DEF flat
<1>9. at \in [0..n -> Nat] /\ at[0] = 0 /\ Len(flat) = at[n]
      /\ \A t \in 1..n : /\ at[t] = at[t - 1] + Len(codes[t])
                         /\ \A j \in 1..Len(codes[t]) : flat[at[t - 1] + j] = codes[t][j]
  BY <1>2, <1>6 DEF Laid
<1>10. pos \in [0..n -> Nat] /\ pos[0] = 0 /\ Len(pixels) = pos[n]
      /\ \A t \in 1..n : /\ pos[t] = pos[t - 1] + Len(squares[t])
                         /\ \A j \in 1..Len(squares[t]) : pixels[pos[t - 1] + j] = squares[t][j]
  BY <1>3, <1>8 DEF Laid
<1>11. \A t \in 1..n : Len(codes[t]) \in Nat /\ Len(squares[t]) \in Nat
  <2> TAKE t \in 1..n
  <2>1. Len(codes[t]) \in Nat
    BY <1>2, LenProperties
  <2>2. runs[t].length \in Nat
    BY RunFields DEF n
  <2> QED BY <1>3, <2>1, <2>2
<1>12. (\A t \in 0..n : at[t] <= at[n]) /\ (\A t \in 0..n : pos[t] <= pos[n])
  <2>1. \A t \in 0..Len(codes) : at[t] <= Len(flat)
    BY <1>1, <1>2, <1>6, <1>11, LaidInOrder
  <2>2. \A t \in 0..Len(squares) : pos[t] <= Len(pixels)
    BY <1>1, <1>3, <1>8, <1>11, LaidInOrder
  <2> QED BY <1>2, <1>3, <1>9, <1>10, <2>1, <2>2
<1>13. ASSUME NEW t \in 1..n PROVE RunReads(data, runs, pixels, at, pos, t)
  <2> DEFINE v == ValueAfter(runs, t - 1)
             code == codes[t]
             a == at[t - 1]
             b == at[t]
             l == Len(code)
             i == 2 + a
             z == at[n]
             length == runs[t].length
             colour == runs[t].colour
  <2>0. t - 1 \in 0..n /\ t \in 0..n /\ n \in 0..n
    BY <1>1
  <2>1. a \in Nat /\ b \in Nat /\ z \in Nat /\ l \in Nat /\ b = a + l /\ l >= 1 /\ b <= z
    BY <1>2, <1>9, <1>11, <1>12, <2>0
  <2>2. length \in Nat /\ colour \in 0..255
    BY RunFields DEF n
  <2>3. \A j \in 1..l : flat[a + j] = code[j]
    BY <1>9
  <2>4. Len(data) = z + 2 /\ Len(flat) = z
    BY <1>5, <1>9
  <2>5. v \in 0..255 /\ Written(code, length, colour, v)
    BY <1>2
  <2> HIDE DEF v, code, a, b, l, z, length, colour
  <2>6. Holds(data, i, code)
    <3>1. i + l - 1 <= z + 2
      BY <2>1
    <3>2. ASSUME NEW j \in 1..l PROVE data[i - 1 + j] = code[j]
      <4>1. a + j \in 1..z /\ i - 1 + j = (a + j) + 1
        BY <2>1
      <4> DEFINE k == a + j
      <4>2. k \in 1..Len(flat)
        BY <2>4, <4>1
      <4> HIDE DEF k
      <4>3. data[k + 1] = flat[k]
        BY <1>5, <4>2
      <4> QED BY <2>3, <4>1, <4>3 DEF k
    <3> QED BY <2>4, <3>1, <3>2 DEF Holds, l
  <2>7. ReadBack(data, i, code, length, colour, v)
    <3>1. data \in Seq(Int)
      BY <1>5, BytesAreInts
    <3>2. i \in Nat \ {0}
      BY <2>1
    <3> HIDE DEF i
    <3> QED BY <2>2, <2>5, <2>6, <3>1, <3>2, ReadsBack
  <2>8. RunAt(data, 2 + a, v) = Reading(length, colour, 2 + b)
    <3>1. i + l = 2 + b
      BY <2>1
    <3>2. RunAt(data, i, v) = Reading(length, colour, i + l)
      BY <2>7 DEF ReadBack, l
    <3> QED BY <3>1, <3>2
  <2>9. a < b
    BY <2>1
  <2>10. pos[t] = pos[t - 1] + length /\ pos[t] <= pos[n]
    BY <1>3, <1>10, <1>12, <2>0 DEF length
  <2>11. Plain(pixels, pos[t - 1], length, colour)
    BY <1>3, <1>10 DEF Plain, length, colour
  <2> QED BY <2>1, <2>8, <2>9, <2>10, <2>11 DEF RunReads, v, a, b, z, n, length, colour
<1>14. Len(data) = at[n] + 2
  BY <1>5, <1>9
<1>15. Readable(data, runs, pixels, at, pos)
  BY <1>9, <1>10, <1>13, <1>14 DEF Readable, n
<1> QED BY <1>7, <1>15 DEF data, pixels

-----------------------------------------------------------------------------
(* Layers: what DecodeLayer makes of it. *)
(* Damaged bytes do not go unnoticed. *)
LEMMA DamageRefused ==
  ASSUME NEW runs \in Seq(Run), NEW steps \in BOOLEAN, NEW o
  PROVE  DecodeLayer(Damaged(Encoded(runs, steps)), o) = Refused
<1> DEFINE data == Encoded(runs, steps)
<1>1. data \in Seq(0..255) /\ Len(data) >= 2 /\ data[Len(data)] = Checksum(data)
  <2> DEFINE flat == FlattenSeq(Codes(runs, steps))
  <2>1. flat \in Seq(0..255) /\ data \in Seq(0..255) /\ Len(data) = Len(flat) + 2
        /\ data[Len(data)] = Checksum(data)
    BY EncodedIs
  <2>2. Len(flat) \in Nat
    BY <2>1, LenProperties
  <2> HIDE DEF data, flat
  <2> QED BY <2>1, <2>2
<1> HIDE DEF data
<1> DEFINE other == Damaged(data)
<1>2. Checksum(other) # other[Len(other)]
  BY <1>1, DamageShows
<1> HIDE DEF other
<1>3. DecodeLayer(other, o) = Refused
  BY <1>2 DEF DecodeLayer
<1> QED BY <1>3 DEF other, data

(* A layer of other than its pixels is refused; every cell of another is the mean of its own. *)
LEMMA LayerIsDecoded ==
  ASSUME NEW runs \in Seq(Run), NEW steps \in BOOLEAN, NEW o \in Options
  PROVE  DecodeLayer(Encoded(runs, steps), o) =
           IF Len(Pixels(runs)) # o.width * o.height THEN Refused
           ELSE [cell \in Cells(o) |-> Mean(Pixels(runs), Source(cell, o), o)]
<1> DEFINE data == Encoded(runs, steps)
           pixels == Pixels(runs)
           size == o.width * o.height
           end == Runs(data, o)
           n == Len(runs)
           flat == FlattenSeq(Codes(runs, steps))
<1>1. data \in Seq(0..255) /\ data[1] = 85 /\ data[Len(data)] = Checksum(data)
  BY EncodedIs
<1>2. pixels \in Seq(0..255) /\ \E at, pos : Readable(data, runs, pixels, at, pos)
  BY EncodedReads
<1>3. pixels \in Seq(Int) /\ Len(pixels) \in Nat /\ Len(data) \in Nat
  BY <1>1, <1>2, BytesAreInts, LenProperties
<1> HIDE DEF data, pixels
<1>4. PICK at, pos : Readable(data, runs, pixels, at, pos)
  BY <1>2
<1>5. /\ Len(pixels) > size => ~end.ok
      /\ Len(pixels) <= size => end = Read(runs, o, pixels, at, pos, n)
  BY <1>3, <1>4, RunsAre
<1>6. pos[n] = Len(pixels)
  BY <1>4 DEF Readable
<1>7. DecodeLayer(data, o) =
        IF ~end.ok \/ end.pixel # size THEN Refused
        ELSE [cell \in Cells(o) |-> Round(end.acc[Source(cell, o)], Area(Source(cell, o), o))]
  BY <1>1 DEF DecodeLayer
<1>8. size \in Nat
  BY DEF Options, Size
<1> HIDE DEF end, size, n
<1>9. CASE Len(pixels) > size
  <2>1. Len(pixels) # size
    <3> DEFINE l == Len(pixels)
    <3>1. l \in Nat /\ l > size
      BY <1>3, <1>9
    <3> HIDE DEF l
    <3>2. l # size
      BY <1>8, <3>1
    <3> QED BY <3>2 DEF l
  <2> QED BY <1>5, <1>7, <1>9, <2>1 DEF data, pixels, size
<1>10. CASE Len(pixels) <= size
  <2>1. end = Read(runs, o, pixels, at, pos, n)
    BY <1>5, <1>10
  <2>2. end.ok = TRUE /\ end.pixel = Len(pixels) /\ end.acc = SumsAt(pixels, o, Len(pixels))
    BY <1>6, <2>1 DEF Read
  <2>3. CASE Len(pixels) # size
    BY <1>7, <2>2, <2>3 DEF data, pixels, size
  <2>4. CASE Len(pixels) = size
    <3>1. ASSUME NEW cell \in Cells(o)
          PROVE  Round(end.acc[Source(cell, o)], Area(Source(cell, o), o)) = Mean(pixels, Source(cell, o), o)
      <4> DEFINE s == Source(cell, o)
      <4>1. s \in Cells(o)
        BY CellsAre
      <4> HIDE DEF s
      <4>2. end.acc[s] = Total(pixels, s, o)
        <5>1. end.acc[s] = SumOf(pixels, s, o)[Len(pixels)]
          BY <2>2, <4>1 DEF SumsAt
        <5>2. Total(pixels, s, o) = SumOf(pixels, s, o)[Len(pixels)]
          BY <1>3, SumFacts
        <5> QED BY <5>1, <5>2
      <4>3. Total(Ones(pixels), s, o) = Area(s, o)
        BY <1>3, <2>4, <4>1, AreaIs DEF size
      <4>4. Mean(pixels, s, o) = Round(Total(pixels, s, o), Total(Ones(pixels), s, o))
        BY DEF Mean, Ones
      <4>5. Round(end.acc[s], Area(s, o)) = Mean(pixels, s, o)
        BY <4>2, <4>3, <4>4
      <4> QED BY <4>5 DEF s
    <3>2. DecodeLayer(data, o) =
            [cell \in Cells(o) |-> Round(end.acc[Source(cell, o)], Area(Source(cell, o), o))]
      BY <1>7, <2>2, <2>4
    <3>3. DecodeLayer(data, o) = [cell \in Cells(o) |-> Mean(pixels, Source(cell, o), o)]
      BY <3>1, <3>2
    <3> QED BY <2>4, <3>3 DEF data, pixels, size
  <2> QED BY <2>3, <2>4
<1>11. Len(pixels) > size \/ Len(pixels) <= size
  <2> DEFINE l == Len(pixels)
  <2>1. l \in Nat
    BY <1>3
  <2> HIDE DEF l
  <2>2. l > size \/ l <= size
    BY <1>8, <2>1
  <2> QED BY <2>2 DEF l
<1> QED BY <1>9, <1>10, <1>11

LEMMA LayerIsRight ==
  ASSUME NEW x \in LayerInput PROVE LayerAgrees(x)
<1>1. x.runs \in Seq(Run) /\ x.steps \in BOOLEAN /\ x.damaged \in BOOLEAN /\ x.o \in Options
  BY SMTT(20) DEF LayerInput, Options, Size, MaxScale
<1> DEFINE data == Encoded(x.runs, x.steps)
           pixels == Pixels(x.runs)
           decoded == [cell \in Cells(x.o) |-> Mean(pixels, Source(cell, x.o), x.o)]
           size == x.o.width * x.o.height
<1>2. DecodeLayer(Damaged(data), x.o) = Refused
  BY <1>1, DamageRefused
<1>3. DecodeLayer(data, x.o) = IF Len(pixels) # size THEN Refused ELSE decoded
  BY <1>1, LayerIsDecoded
<1>4. LayerAgrees(x) <=>
        DecodeLayer(IF x.damaged THEN Damaged(data) ELSE data, x.o) =
          IF x.damaged \/ Len(pixels) # size THEN Refused ELSE decoded
  BY DEF LayerAgrees, Damaged
<1> HIDE DEF data, pixels, decoded, size
<1>5. CASE x.damaged
  BY <1>2, <1>4, <1>5
<1>6. CASE ~x.damaged
  BY <1>3, <1>4, <1>6
<1> QED BY <1>5, <1>6

-----------------------------------------------------------------------------
(* Layers: how large the sum of a cell can be. *)
LEMMA SumIsLess ==
  ASSUME NEW o \in Options, NEW cell, NEW pixels \in Seq(0..255), NEW more \in Seq(Int),
         Len(pixels) <= Len(more), \A p \in 1..Len(more) : more[p] = 1
  PROVE  LET f == SumOf(pixels, cell, o)
             g == SumOf(more, cell, o) IN
         /\ f[Len(pixels)] \in Int /\ g[Len(more)] \in Int
         /\ 0 <= f[Len(pixels)] /\ f[Len(pixels)] <= 255 * g[Len(more)]
<1> DEFINE f == SumOf(pixels, cell, o)
           g == SumOf(more, cell, o)
           m == Len(pixels)
           n == Len(more)
           In(p) == CellOf(p - 1, o) = cell
           T == {p \in 0..n : p <= m => 0 <= f[p] /\ f[p] <= 255 * g[p]}
           U == {k \in 0..(n - m) : g[m] <= g[m + k]}
<1>1. m \in Nat /\ n \in Nat /\ m <= n
  BY LenProperties
<1>2. pixels \in Seq(Int)
  BY BytesAreInts
<1>3. Sums(f, pixels, cell, o) /\ Sums(g, more, cell, o)
  BY <1>2, SumFacts
<1>4. \A p \in 1..m : pixels[p] \in 0..255
  BY ElementOfSeq
<1>5. /\ f[0] = 0 /\ \A p \in 0..m : f[p] \in Int
      /\ \A p \in 1..m : f[p] = f[p - 1] + (IF In(p) THEN pixels[p] ELSE 0)
  BY <1>3 DEF Sums
<1>6. /\ g[0] = 0 /\ \A p \in 0..n : g[p] \in Int
      /\ \A p \in 1..n : g[p] = g[p - 1] + (IF In(p) THEN 1 ELSE 0)
  BY <1>3 DEF Sums
<1> HIDE DEF f, g, m, n, In
<1>7. 0 \in T
  BY <1>1, <1>5, <1>6
<1>8. ASSUME NEW p \in 1..n, p - 1 \in T PROVE p \in T
  <2> SUFFICES ASSUME p <= m PROVE 0 <= f[p] /\ f[p] <= 255 * g[p]
    BY <1>1
  <2>1. p \in 1..m /\ p - 1 \in 0..m /\ p \in 0..m /\ p \in 0..n /\ p - 1 \in 0..n
    BY <1>1
  <2> DEFINE a == f[p - 1]
             b == f[p]
             c == g[p - 1]
             d == g[p]
             e == pixels[p]
  <2>2. a \in Int /\ b \in Int /\ c \in Int /\ d \in Int /\ e \in 0..255
    BY <1>4, <1>5, <1>6, <2>1
  <2>3. 0 <= a /\ a <= 255 * c
    BY <1>8, <2>1
  <2>4. In(p) => b = a + e /\ d = c + 1
    BY <1>5, <1>6, <2>1
  <2>5. ~In(p) => b = a + 0 /\ d = c + 0
    BY <1>5, <1>6, <2>1
  <2> HIDE DEF a, b, c, d, e
  <2>6. 0 <= b /\ b <= 255 * d
    BY <2>2, <2>3, <2>4, <2>5
  <2> QED BY <2>6 DEF b, d
<1>9. 0 <= f[m] /\ f[m] <= 255 * g[m]
  <2> HIDE DEF T
  <2>1. 0..n \subseteq T
    BY <1>1, <1>7, <1>8, InductionUpto
  <2>2. m \in 0..n /\ m <= m
    BY <1>1
  <2> QED BY <2>1, <2>2 DEF T
<1>10. 0 \in U
  <2>1. m + 0 = m /\ m \in 0..n /\ 0 \in 0..(n - m)
    BY <1>1
  <2>2. g[m] <= g[m]
    BY <1>6, <2>1
  <2> QED BY <2>1, <2>2
<1>11. ASSUME NEW k \in 1..(n - m), k - 1 \in U PROVE k \in U
  <2> DEFINE p == m + k
  <2>1. p \in 1..n /\ p - 1 \in 0..n /\ p \in 0..n /\ m + (k - 1) = p - 1 /\ m \in 0..n /\ k \in 0..(n - m)
    BY <1>1
  <2>2. g[m] <= g[p - 1]
    BY <1>11, <2>1
  <2>3. g[p] = g[p - 1] + (IF In(p) THEN 1 ELSE 0)
    BY <1>6, <2>1
  <2>4. g[m] \in Int /\ g[p - 1] \in Int /\ g[p] \in Int
    BY <1>6, <2>1
  <2> DEFINE a == g[m]
             b == g[p - 1]
             c == g[p]
  <2>5. a \in Int /\ b \in Int /\ c \in Int /\ a <= b /\ (c = b + 1 \/ c = b + 0)
    BY <2>2, <2>3, <2>4
  <2> HIDE DEF a, b, c
  <2>6. a <= c
    BY <2>5
  <2> QED BY <2>1, <2>6 DEF a, c
<1>12. g[m] <= g[n]
  <2> HIDE DEF U
  <2>1. n - m \in Nat /\ n - m \in 0..(n - m) /\ m + (n - m) = n
    BY <1>1
  <2>2. 0..(n - m) \subseteq U
    BY <1>10, <1>11, <2>1, InductionUpto
  <2> QED BY <2>1, <2>2 DEF U
<1>13. f[m] \in Int /\ g[m] \in Int /\ g[n] \in Int
  BY <1>1, <1>5, <1>6
<1> DEFINE a == f[m]
           b == g[m]
           c == g[n]
<1>14. a \in Int /\ c \in Int /\ 0 <= a /\ a <= 255 * c
  <2>1. a \in Int /\ b \in Int /\ c \in Int /\ 0 <= a /\ a <= 255 * b /\ b <= c
    BY <1>9, <1>12, <1>13
  <2> HIDE DEF a, b, c
  <2> QED BY <2>1
<1> QED BY <1>14 DEF f, g, m, n

(* 255 of 20 times 20 pixels *)
SumsOfCells == {sum \in Nat : sum <= 102000}

LEMMA SmallSum ==
  ASSUME NEW t \in Int, 0 <= t, t <= 102000
  PROVE  t \in SumsOfCells
  BY SMT DEF SumsOfCells

NoMoreThan(pixels, o) == Len(pixels) <= o.width * o.height

(* Of a scale of at most 20, that is 400 pixels of at most 255. *)
LEMMA SumIsSmall ==
  ASSUME NEW o \in Options, o.scale \in 1..20, NEW cell \in Cells(o), NEW pixels \in Seq(0..255),
         NoMoreThan(pixels, o)
  PROVE  SumOf(pixels, cell, o)[Len(pixels)] \in SumsOfCells
<1> DEFINE N == o.width * o.height
           more == [p \in 1..N |-> 1]
           y == o.height - cell[1] * o.scale
           x == o.width - cell[2] * o.scale
           s == o.scale
           a == Least(s, y)
           b == Least(s, x)
<1>1. N \in Nat
  BY DEF Options, Size
<1>2. s \in 1..20 /\ y \in Nat /\ x \in Nat
  <2>1. s \in 1..20 /\ o.height \in Nat /\ o.width \in Nat
    BY DEF Options, Size
  <2>2. cell \in Nat \X Nat /\ cell[1] * o.scale < o.height /\ cell[2] * o.scale < o.width
    BY CellsAre
  <2> DEFINE u == cell[1] * o.scale
             v == cell[2] * o.scale
  <2>3. u \in Nat /\ v \in Nat
    <3> DEFINE i == cell[1]
               j == cell[2]
    <3>1. i \in Nat /\ j \in Nat
      BY <2>2
    <3>a. s \in Nat
      <4> HIDE DEF s
      <4> QED BY <2>1
    <3> HIDE DEF i, j, s
    <3>2. i * s \in Nat /\ j * s \in Nat
      BY <3>1, <3>a
    <3> QED BY <3>2 DEF i, j, s
  <2>4. u < o.height /\ v < o.width
    BY <2>2
  <2> HIDE DEF u, v
  <2>5. o.height - u \in Nat /\ o.width - v \in Nat
    BY <2>1, <2>3, <2>4
  <2> QED BY <2>1, <2>5 DEF u, v
<1> HIDE DEF N
<1>3. more \in Seq(Int) /\ Len(more) = N /\ (\A p \in 1..N : more[p] = 1)
  BY <1>1
<1>4. Ones(more) = more
  <2>1. DOMAIN more = 1..N
    OBVIOUS
  <2> QED BY <2>1 DEF Ones
<1> HIDE DEF more
<1>5. SumOf(more, cell, o)[Len(more)] = Area(cell, o)
  <2>1. Total(Ones(more), cell, o) = Area(cell, o)
    BY <1>3, AreaIs DEF N
  <2>2. Total(more, cell, o) = SumOf(more, cell, o)[Len(more)]
    BY <1>3, SumFacts
  <2> QED BY <1>4, <2>1, <2>2
<1>6. Area(cell, o) = a * b
  BY DEF Area
<1> DEFINE t == SumOf(pixels, cell, o)[Len(pixels)]
<1>7. t \in Int /\ 0 <= t /\ t <= 255 * (a * b)
  <2>1. Len(pixels) <= Len(more) /\ \A p \in 1..Len(more) : more[p] = 1
    BY <1>3 DEF N, NoMoreThan
  <2>2. t \in Int /\ 0 <= t /\ t <= 255 * SumOf(more, cell, o)[Len(more)]
    BY <1>3, <2>1, SumIsLess
  <2> HIDE DEF t, a, b
  <2> QED BY <1>5, <1>6, <2>2
<1> HIDE DEF t, s, y, x
<1>8. a \in 0..20 /\ b \in 0..20
  BY <1>2 DEF Least
<1> HIDE DEF a, b
<1>9. a * b \in Nat /\ a * b <= 20 * b /\ 20 * b <= 400
  <2>1. (20 - a) * b \in Nat /\ (20 - a) * b = 20 * b - a * b /\ a * b \in Nat
    BY <1>8
  <2> QED BY <1>8, <2>1
<1> DEFINE z == a * b
<1>10. z \in Nat /\ z <= 400 /\ t <= 255 * z
  <2>1. z <= 20 * b /\ 20 * b <= 400 /\ z \in Nat /\ 20 * b \in Nat
    BY <1>8, <1>9
  <2> HIDE DEF z
  <2>2. z <= 400
    BY <2>1
  <2> QED BY <1>7, <2>1, <2>2 DEF z
<1> HIDE DEF z
<1>11. t \in SumsOfCells
  <2>1. t \in Int /\ 0 <= t
    BY <1>7
  <2>2. t <= 102000
    BY SMT, <1>10, <2>1
  <2> QED BY <2>1, <2>2, SmallSum
<1> QED BY <1>11 DEF t

-----------------------------------------------------------------------------
(* Calculations: what is computed is as it should be.                      *)
CalculationsInv == input = [of |-> "nothing"] \/ input \in Inputs

LEMMA CalculationsInvHolds == CalculationsSpec => []CalculationsInv
<1>1. CalculationsInit => CalculationsInv
  BY DEF CalculationsInit, CalculationsInv
<1>2. CalculationsInv /\ [Compute]_input => CalculationsInv'
  BY DEF CalculationsInv, Compute
<1> QED BY <1>1, <1>2, PTL DEF CalculationsSpec

LEMMA InputKinds ==
  ASSUME CalculationsInv
  PROVE  /\ input.of = "range" => input \in RangeInput
         /\ input.of = "progress" => input \in ProgressInput
         /\ input.of = "listing" => input \in ListingInput
         /\ input.of = "media" => input \in MediaInput
         /\ input.of = "index" => input \in IndexInput
         /\ input.of = "layer" => input \in LayerInput
<1>1. CASE input = [of |-> "nothing"]
  <2>1. input.of = "nothing"
    BY <1>1
  <2> QED BY <2>1
<1>2. CASE input \in Inputs
  <2>1. /\ input \in RangeInput => input.of = "range"
        /\ input \in ProgressInput => input.of = "progress"
        /\ input \in ListingInput => input.of = "listing"
        /\ input \in MediaInput => input.of = "media"
        /\ input \in IndexInput => input.of = "index"
        /\ input \in LayerInput => input.of = "layer"
    BY DEF RangeInput, ProgressInput, ListingInput, MediaInput, IndexInput, LayerInput
  <2>2. \/ input \in RangeInput \/ input \in ProgressInput \/ input \in ListingInput
        \/ input \in MediaInput \/ input \in IndexInput \/ input \in LayerInput
    BY <1>2, InputsAssumption
  <2> QED BY <2>1, <2>2
<1> QED BY <1>1, <1>2 DEF CalculationsInv

(* Of any size: a range answers with the bytes that were asked for,        *)
(* progress stays in range, and layers are found where they are (range.ts, *)
(* status.ts:progressPercent, layers.ts:21-38); a listing has every        *)
(* printable file within reach and nothing else, and a path means the same *)
(* file on the way to the printer's own and back (file-list.ts,            *)
(* printer-media.ts).                                                      *)
THEOREM CalculationsAreRight == CalculationsSpec => []CalculationsAgree
<1>1. CalculationsInv => NumbersAgree
  BY InputKinds, RangeIsRight, ProgressIsRight, IndexIsRight DEF NumbersAgree
<1>2. CalculationsInv => FilesAgree
  BY InputKinds, ListingIsRight, MediaIsRight DEF FilesAgree
<1> QED BY <1>1, <1>2, CalculationsInvHolds, PTL DEF CalculationsAgree

(* Of any runs, of any options: a layer whose checksum agrees and whose    *)
(* runs have as many pixels as it is wide and high comes out with the mean *)
(* of its own pixels in every cell, mirrored where it is to be; one of     *)
(* more pixels or fewer, and one whose second byte is one more than it was *)
(* written as, is refused (layers.ts:decodeLayer).                         *)
THEOREM LayersAreRight == CalculationsSpec => []LayersDecode
<1>1. CalculationsInv => LayersDecode
  BY InputKinds, LayerIsRight DEF LayersDecode
<1> QED BY <1>1, CalculationsInvHolds, PTL

(* Of a layer that is decoded at a scale the route lets through, no sum of *)
(* a cell is more than 102000: the array of 32-bit numbers that holds them *)
(* (layers.ts:83-86) never wraps, as the integers of the model never do.   *)
THEOREM SumsFit ==
  ASSUME NEW x \in LayerInput,
         NEW cell \in Cells(x.o), Runs(Encoded(x.runs, x.steps), x.o).ok
  PROVE  Runs(Encoded(x.runs, x.steps), x.o).acc[cell] \in SumsOfCells
<1> DEFINE o == x.o
           data == Encoded(x.runs, x.steps)
           pixels == Pixels(x.runs)
           end == Runs(data, o)
           size == o.width * o.height
           n == Len(x.runs)
<1>1. x.runs \in Seq(Run) /\ x.steps \in BOOLEAN /\ o \in Options /\ o.scale \in 1..20
  <2>1. /\ x.runs \in Seq(Run) /\ x.steps \in BOOLEAN
        /\ o \in [width : Size, height : Size, scale : 1..MaxScale, mirrorX : BOOLEAN]
    BY DEF LayerInput
  <2> DEFINE y == o
  <2>2. 1..MaxScale \subseteq Size
    BY DEF Size
  <2>3. y \in [width : Size, height : Size, scale : 1..MaxScale, mirrorX : BOOLEAN]
    BY <2>1
  <2> HIDE DEF y
  <2>4. y \in Options /\ y.scale \in 1..MaxScale
    BY <2>2, <2>3 DEF Options
  <2> QED BY <2>1, <2>4 DEF y, MaxScale
<1>2. data \in Seq(0..255)
  BY <1>1, EncodedIs
<1>3. pixels \in Seq(0..255) /\ \E at, pos : Readable(data, x.runs, pixels, at, pos)
  BY <1>1, EncodedReads
<1>4. pixels \in Seq(Int) /\ Len(pixels) \in Nat /\ Len(data) \in Nat
  BY <1>2, <1>3, BytesAreInts, LenProperties
<1>5. end.ok /\ cell \in Cells(o)
  OBVIOUS
<1>6. size \in Nat
  BY <1>1 DEF Options, Size
<1> HIDE DEF data, pixels, o
<1>7. PICK at, pos : Readable(data, x.runs, pixels, at, pos)
  BY <1>3
<1>8. /\ Len(pixels) > size => ~end.ok
      /\ Len(pixels) <= size => end = Read(x.runs, o, pixels, at, pos, n)
  BY <1>1, <1>4, <1>7, RunsAre
<1>9. pos[n] = Len(pixels)
  BY <1>7 DEF Readable
<1> HIDE DEF end, size, n
<1>10. Len(pixels) <= size
  <2> DEFINE l == Len(pixels)
  <2>1. l \in Nat /\ ~(l > size)
    BY <1>4, <1>5, <1>8
  <2> HIDE DEF l
  <2>2. l <= size
    BY <1>6, <2>1
  <2> QED BY <2>2 DEF l
<1>11. end.acc[cell] = SumOf(pixels, cell, o)[Len(pixels)]
  <2>1. end.acc = SumsAt(pixels, o, Len(pixels))
    BY <1>8, <1>9, <1>10 DEF Read
  <2> QED BY <1>5, <2>1 DEF SumsAt
<1>12. SumOf(pixels, cell, o)[Len(pixels)] \in SumsOfCells
  <2>1. NoMoreThan(pixels, o)
    BY <1>10 DEF NoMoreThan, size
  <2> QED BY <1>1, <1>3, <1>5, <2>1, SumIsSmall
<1> QED BY <1>11, <1>12 DEF end, data, o

=============================================================================
